--------------------------- MODULE TerminalStacks ---------------------------
(***************************************************************************)
(* What execute, halt and the scheduler promise together: every terminal   *)
(* has a stack of programs whose top is the one that runs; execute pushes  *)
(* a program nobody else has, halt pops it, and the processor goes round   *)
(* the tops in a fixed order.                                              *)
(***************************************************************************)
EXTENDS Naturals, Sequences

CONSTANTS
  Programs,   \* names of processes
  NTERM,      \* number of stacks
  Limit       \* how many programs there may be at once

VARIABLES
  stacks,     \* the stacks brought up so far
  turn        \* the stack whose top is running

vars == <<stacks, turn>>

Stacked == UNION {{stacks[i][j] : j \in DOMAIN stacks[i]} : i \in DOMAIN stacks}

(* How many programs there are on some stacks.                             *)
Size(some) ==
  LET size[i \in 0..Len(some)] == IF i = 0 THEN 0 ELSE size[i - 1] + Len(some[i])
  IN  size[Len(some)]

Room == Size(stacks) < Limit

Init == stacks = <<>> /\ turn = 0

StartShell ==
  /\ Len(stacks) < NTERM
  /\ \E p \in Programs \ Stacked : stacks' = Append(stacks, <<p>>)
  /\ turn' = Len(stacks')

Push ==
  /\ Len(stacks) = NTERM
  /\ Room
  /\ \E p \in Programs \ Stacked : stacks' = [stacks EXCEPT ![turn] = Append(@, p)]
  /\ UNCHANGED turn

Pop ==
  /\ Len(stacks) = NTERM
  /\ Len(stacks[turn]) > 1
  /\ stacks' = [stacks EXCEPT ![turn] = SubSeq(@, 1, Len(@) - 1)]
  /\ UNCHANGED turn

Rotate ==
  /\ Len(stacks) = NTERM
  /\ turn' = (turn % NTERM) + 1
  /\ UNCHANGED stacks

Next == StartShell \/ Push \/ Pop \/ Rotate

Safety == Init /\ [][Next]_vars

Fairness == WF_vars(StartShell) /\ WF_vars(Rotate)
=============================================================================
