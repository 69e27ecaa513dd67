------------------------------ MODULE MCBlink ------------------------------
(* Blink for TLC: a row of locations, structures that differ in place and  *)
(* timing.                                                                  *)
EXTENDS Blink

Struct(location, length) ==
  [Zero EXCEPT !.location = location, !.on_char = "o", !.off_char = "x",
               !.on_length = length, !.off_length = 2]

(* The last location is off the screen.                                     *)
Some == {Struct(1, 1), Struct(2, 3), Struct(3, 1)}
WithZero == {Struct(0, 1), Struct(1, 1)}
=============================================================================
