------------------------------ MODULE Userland ------------------------------
(***************************************************************************)
(* All the user programs, one after the other on a terminal: when one has  *)
(* ended the next is executed, in a new process with a table, arguments,   *)
(* data and stack of its own.  (How execute and halt do that, and several  *)
(* processes at once, is Kernel's.)                                        *)
(***************************************************************************)
EXTENDS Programs, SysErr, Fish

CONSTANT Commands    \* <<program, arguments>> typed at the shell

NoLocals == [none |-> 0]

Executed(command) ==
  /\ program' = command[1]
  /\ args' = command[2]
  /\ pc' = "start"
  /\ local' = NoLocals
  /\ out' = <<>>
  /\ status' = 0

UserInit ==
  /\ Init
  /\ BlinkInit
  /\ \E command \in Commands : program = command[1] /\ args = command[2]
  /\ pc = "start"
  /\ local = NoLocals
  /\ out = <<>>
  /\ status = 0

Exec ==
  /\ pc = "done"
  /\ \E command \in Commands : Executed(command)
  /\ NewProcess
  /\ blink_array' = [c \in Cells |-> Zero]
  /\ mp1_list_head' = Null
  /\ vmem' = [p \in Locations |-> " "]
  /\ overlaid' = {}
  /\ synced' = {}

Step ==
  \/ /\ cat \/ ls \/ grep \/ hello \/ testprint \/ counter \/ pingpong \/ shell \/ syserr
     /\ UNCHANGED blinkVars
  \/ fish

UserNext == Step \/ Exec

userVars == <<files, process, blinkVars>>

(* A process that can run does (KernelLive: the scheduler comes to every   *)
(* terminal), and the clock its reads wait for ticks (Rtc).                *)
UserSpec == UserInit /\ [][UserNext]_userVars /\ WF_userVars(Step)
=============================================================================
