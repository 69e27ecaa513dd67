------------------------------ MODULE MCMemory ------------------------------
(***************************************************************************)
(* Memory for TLC: two programs, a text file and the clock's device file.  *)
(***************************************************************************)
EXTENDS Memory

MCdentry ==
  [shell  |-> [filetype |-> 2, idx_inode |-> 1, magic |-> TRUE],
   fish   |-> [filetype |-> 2, idx_inode |-> 2, magic |-> TRUE],
   frame0 |-> [filetype |-> 2, idx_inode |-> 3, magic |-> FALSE],
   rtc    |-> [filetype |-> 0, idx_inode |-> 0, magic |-> FALSE]]
=============================================================================
