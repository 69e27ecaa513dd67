------------------------------- MODULE MCRtc -------------------------------
(***************************************************************************)
(* Rtc for TLC: two processes, of which one writes frequencies at the      *)
(* boundaries of rtc_write's comparisons.                                  *)
(***************************************************************************)
EXTENDS Rtc

CONSTANTS p1, p2

Two == {p1, p2}
One == {p1}

Boundaries == {-1, 0, 1, 2, 3, 4, 5, 512, 513, 1024, 1025}
AllBoundaries == [p \in Procs |-> Boundaries]
MCFrequencies == [p \in Procs |-> IF p = p1 THEN {0, 4, 513} ELSE {2}]
Few == [p \in Procs |-> {2, 1024}]
Sizes == {2, 4}
Four == {4}
=============================================================================
