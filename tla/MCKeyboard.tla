----------------------------- MODULE MCKeyboard -----------------------------
(***************************************************************************)
(* Keyboard for TLC.                                                       *)
(***************************************************************************)
EXTENDS Keyboard

Typing == {"a", "enter", "backspace", "alt", "F1", "F2"}
Plain == {"a", "enter", "backspace"}
Shifts == {"a", "1", "lshift", "rshift", "caps"}
Lengths == {1, 4}
Whole == {4}
=============================================================================
