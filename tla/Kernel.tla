------------------------------- MODULE Kernel -------------------------------
(***************************************************************************)
(* Process creation, termination and scheduling: execute, halt and         *)
(* PCB_init of system_calls.c, switch_tasks and scheduler_init of          *)
(* schedule.c, page_handler of idt.c and the Alt+Fn keys of keyboard.c.    *)
(*                                                                         *)
(* Every handler runs with interrupts off from its first statement to the  *)
(* iret (or to the return into the parent), so each is one action.  What   *)
(* may happen between two actions is user code.  An exception is a trap    *)
(* gate: its handler spins with interrupts as the process had them, on in  *)
(* user code and off in execute.                                           *)
(*                                                                         *)
(* A process is named by its pid p: its kernel stack, its PCB and its 4 MB *)
(* page are at addresses computed from p, so "the stack of p", "the PCB of *)
(* p" and "the page of p" are p itself.  Slot 0 is the boot stack.         *)
(* current_task, terminal_current_pid and processState are left out: the   *)
(* program writes them and reads none of them (halt reads current_task     *)
(* right after storing the parent's pid in it).                            *)
(***************************************************************************)
EXTENDS Integers, FiniteSets, Sequences

CONSTANTS
  N,            \* length of priority_list_pid and pid_bitpattern (7)
  NTERM,        \* number of terminals, and of base shells (3)
  BootInput,    \* what the user may do before the base shells are up:
                \* type a "command", "switch" terminals
  ShellExit,    \* may a base shell call halt (the user types "exit")?
  GarbagePids   \* what execute's uninitialised pid may hold when no pid is
                \* free; {} leaves out what happens after the last free pid

Pids == 1..N
Slots == 0..(N - 1)
Boot == 0
Free == -1
NoParent == -1

(* active_terminal is a uint32_t: 0 - 1 wraps to 2^32 - 1.  Wrapped stands *)
(* for that value and the ones further ticks count down to from there.     *)
Wrapped == NTERM + 1
Terminals == 0..Wrapped

ASSUME KernelAssumption ==
  /\ N \in Nat
  /\ NTERM \in Nat \ {0}
  /\ NTERM < N
  /\ BootInput \subseteq {"command", "switch"}
  /\ ShellExit \in BOOLEAN
  /\ GarbagePids \subseteq Pids

VARIABLES
  total_tasks,        \* 1 + the number of processes
  pid_bitpattern,     \* pid -> 1 if taken (index pid - 1 in the code)
  priority_list_pid,  \* the ring the scheduler walks: slot -> pid or Free
  current_schedule,   \* the ring slot of the running process
  schedule_started,
  active_terminal,    \* the terminal on screen; the bring-up counts it down
  pcb_terminal,       \* the terminal read and write go to
  exception_halt,
  pcb,                \* pid -> the fields of its PCB that are read
  esp,                \* the process (or Boot) whose stack the CPU is on
  esp0,               \* tss.esp0: the stack the next trap from user mode uses
  page,               \* the process whose page is mapped at CP_INDEX
  saved,              \* processes whose sesp/sebp point to where they stopped
  faulted,            \* processes spinning in an exception handler
  live,               \* processes executed and not yet halted
  ret,                \* the last value execute returned, and to whom
  interrupts,         \* IF outside the handlers: 0 once a process spins with
                      \* interrupts off
  crashed             \* a live process's stack was taken by another, or a
                      \* stale one resumed: no further step is defined

procVars == <<total_tasks, pid_bitpattern, priority_list_pid, pcb, live>>
schedVars == <<current_schedule, schedule_started, active_terminal, pcb_terminal>>
cpuVars == <<esp, esp0, page, saved, crashed>>
errVars == <<exception_halt, faulted, ret, interrupts>>
vars == <<procVars, schedVars, cpuVars, errVars>>

PCB == [parent : {NoParent} \cup 0..N, terminal_id : Terminals, stdio : BOOLEAN]
RetVal == {"none", "failed", "status", "256"}

NoPCB == [parent |-> NoParent, terminal_id |-> 0, stdio |-> FALSE]

(* The globals' initial values, then scheduler_init, up to entry's sti and *)
(* hlt loop on the boot stack.                                             *)
Init ==
  /\ total_tasks = 1
  /\ pid_bitpattern = [p \in Pids |-> 0]
  /\ priority_list_pid = [i \in Slots |-> Free]
  /\ current_schedule = -1
  /\ schedule_started = FALSE
  /\ active_terminal = NTERM
  /\ pcb_terminal = 0
  /\ exception_halt = 0
  /\ pcb = [p \in 0..N |-> NoPCB]
  /\ esp = Boot
  /\ esp0 = Boot
  /\ page = Boot
  /\ saved = {}
  /\ faulted = {}
  /\ live = {}
  /\ ret = [to |-> Boot, val |-> "none"]
  /\ interrupts = 1
  /\ crashed = FALSE
-----------------------------------------------------------------------------
(* Map p's page at CP_INDEX (page_allocate, flush_TLB), put its stack in   *)
(* the TSS and continue on it.                                             *)
RunOn(p) == page' = p /\ esp0' = p /\ esp' = p

First(S) == {i \in S : \A j \in S : i <= j}

NewPidUnmarked(bits) == First(Pids)

(* The pid loop of execute: the first free index, or whatever the local    *)
(* variable held when there is none.                                       *)
NewPid(bits) ==
  LET free == {p \in Pids : bits[p] = 0}
  IN  IF free # {} THEN First(free) ELSE GarbagePids

SlotsForAnyone(pid) == {i \in Slots : priority_list_pid[i] <= 0}

(* Where PCB_init puts the new pid: a child takes its parent's ring slot,  *)
(* a base shell the first slot that is not taken.                          *)
SlotsFor(pid) ==
  {i \in Slots : IF pid > NTERM THEN priority_list_pid[i] = esp
                                ELSE priority_list_pid[i] <= 0}

ActiveTerminal(pid, term) == term

(* A child is on its parent's terminal, a base shell on the active one.    *)
TerminalFor(pid, term) == IF pid > NTERM THEN pcb[esp].terminal_id ELSE term

(* PCB_init, called on the stack of esp while active_terminal is term.     *)
(* A base shell that finds the ring full returns before fds 0 and 1 are    *)
(* written; a child whose parent is in no slot leaves the loop with i = N  *)
(* and writes past the end of the list.                                    *)
PCB_init(pid, term) ==
  LET child == pid > NTERM
      slots == First(SlotsFor(pid))
  IN  \E stdio \in (IF slots = {} /\ ~child THEN BOOLEAN ELSE {TRUE}) :
        /\ pcb' = [pcb EXCEPT ![pid] =
             [parent      |-> IF child THEN esp ELSE NoParent,
              terminal_id |-> TerminalFor(pid, term),
              stdio       |-> stdio]]
        /\ priority_list_pid' = [i \in Slots |->
             IF i \in slots THEN pid ELSE priority_list_pid[i]]
        /\ \/ current_schedule' \in slots
           \/ /\ slots = {}
              /\ current_schedule' = IF child THEN N ELSE current_schedule

(* execute of an executable file, past its early returns, on the stack of  *)
(* esp; tasks, bits, term, ctx and alive are total_tasks, pid_bitpattern,  *)
(* active_terminal, saved and live as the caller left them.                *)
execute(tasks, bits, term, ctx, alive) ==
  \E pid \in NewPid(bits) :
    /\ total_tasks' = tasks + 1
    /\ pid_bitpattern' = [bits EXCEPT ![pid] = 1]
    /\ PCB_init(pid, term)
    /\ RunOn(pid)
    /\ saved' = ctx \ {pid}
    /\ live' = alive \cup {pid}
    /\ faulted' = faulted \ {pid}
    /\ crashed' = (pid \in alive)
    /\ UNCHANGED <<pcb_terminal, exception_halt, ret, interrupts>>

(* Is there a next step?                                                   *)
Going == ~crashed /\ interrupts = 1

(* Is the running process in user code, able to call execute or halt?      *)
(* While only base shells run that takes a line from keyboard_read, which  *)
(* waits until pcb_terminal is the terminal on screen.                     *)
UserCode ==
  /\ Going
  /\ esp # Boot
  /\ esp \notin faulted
  /\ \/ schedule_started
     \/ "command" \in BootInput /\ pcb_terminal = active_terminal

(* The execute system call; the parent stays inside it, its context not    *)
(* saved by the scheduler.                                                 *)
Execute ==
  /\ UserCode
  /\ total_tasks < N
  /\ execute(total_tasks, pid_bitpattern, active_terminal, saved, live)
  /\ UNCHANGED <<schedule_started, active_terminal>>

(* Its early returns: an empty command, too many tasks, no such program.   *)
ExecuteFails ==
  /\ UserCode
  /\ ret' = [to |-> esp, val |-> "failed"]
  /\ UNCHANGED <<procVars, schedVars, cpuVars, exception_halt, faulted, interrupts>>

(* execute of a command that is not mapped: strlen, after the cli, raises  *)
(* a page fault, and page_handler spins with interrupts off.  Nothing of   *)
(* the kernel runs again.                                                  *)
ExecuteFaults ==
  /\ UserCode
  /\ exception_halt' = 1
  /\ faulted' = faulted \cup {esp}
  /\ interrupts' = 0
  /\ UNCHANGED <<procVars, schedVars, cpuVars, ret>>

GiveSlotAway(parent) ==
  [i \in Slots |-> IF priority_list_pid[i] = esp THEN Free ELSE priority_list_pid[i]]

(* The ring after halt: the first slot of the halting process is given to  *)
(* its parent.                                                             *)
GiveSlotTo(parent) ==
  LET slots == First({i \in Slots : priority_list_pid[i] = esp})
  IN  [i \in Slots |-> IF i \in slots THEN parent ELSE priority_list_pid[i]]

SameTasks == total_tasks

(* halt counts the process out before it knows which path it will take.    *)
OneTaskLess == total_tasks - 1

(* What halt makes the parent's execute return.                            *)
HaltStatus == IF exception_halt = 1 THEN "256" ELSE "status"

(* halt of a process with a parent: back into the parent's execute frame,  *)
(* the parent in the first ring slot that held the process.                *)
HaltChild ==
  /\ UserCode
  /\ esp > NTERM
  /\ LET parent == pcb[esp].parent
     IN  /\ total_tasks' = OneTaskLess
         /\ pcb' = [pcb EXCEPT ![esp].stdio = FALSE]
         /\ priority_list_pid' = GiveSlotTo(parent)
         /\ RunOn(parent)
         /\ saved' = saved \ {parent}
         /\ live' = live \ {esp}
         /\ ret' = [to |-> parent, val |-> HaltStatus]
         /\ exception_halt' = 0
  /\ UNCHANGED <<pid_bitpattern, schedVars, faulted, crashed, interrupts>>

(* halt of a base shell: its pid is freed and execute("shell") runs on its *)
(* stack; the rest of halt is not reached.                                 *)
HaltShell ==
  /\ UserCode
  /\ ShellExit
  /\ esp <= NTERM
  /\ execute(OneTaskLess, [pid_bitpattern EXCEPT ![esp] = 0],
             active_terminal, saved, live \ {esp})
  /\ UNCHANGED <<schedule_started, active_terminal>>
-----------------------------------------------------------------------------
(* active_terminal - 1 in 32 bits.                                         *)
Dec(t) == IF t \in {0, Wrapped} THEN Wrapped ELSE t - 1

NotSuspended == saved

(* Every tick first stores esp and ebp in the PCB of the running process.  *)
Suspended == saved \cup {esp}

(* switch_tasks before schedule_started: each PIT tick starts one shell.   *)
BringUp ==
  /\ Going
  /\ ~schedule_started
  /\ active_terminal' = Dec(active_terminal)
  /\ schedule_started' = (active_terminal' = 0)
  /\ total_tasks < N
  /\ execute(total_tasks, pid_bitpattern, active_terminal',
             Suspended, live)

(* The same with execute refusing: the interrupted process goes on.        *)
BringUpRefused ==
  /\ Going
  /\ ~schedule_started
  /\ active_terminal' = Dec(active_terminal)
  /\ schedule_started' = (active_terminal' = 0)
  /\ total_tasks >= N
  /\ UNCHANGED <<procVars, current_schedule, pcb_terminal, cpuVars, errVars>>

StepsFromCurrent(s) == (s - current_schedule) % N

(* Slots the search of switch_tasks passes over before it looks at s.      *)
Steps(s) == (s - (current_schedule + 1)) % N

Occupied(s) == priority_list_pid[s] >= 0

NextSlots ==
  {s \in Slots : Occupied(s) /\ \A t \in Slots : Occupied(t) => Steps(s) <= Steps(t)}

TerminalIn(next) == pcb[next].terminal_id

(* What pcb_terminal becomes when next is switched in: the terminal of the *)
(* process that is switched out.                                           *)
TerminalOut(next) == pcb[esp].terminal_id

(* switch_tasks afterwards: save the running context, map the next         *)
(* process's page, point the TSS and the CPU at its stack.                 *)
SwitchTasks ==
  /\ Going
  /\ schedule_started
  /\ \E s \in NextSlots :
       LET next == priority_list_pid[s]
       IN  /\ current_schedule' = s
           /\ pcb_terminal' = TerminalOut(next)
           /\ RunOn(next)
           /\ saved' = Suspended \ {next}
           /\ crashed' = (next \notin Suspended)
  /\ UNCHANGED <<procVars, schedule_started, active_terminal, errVars>>

Tick == BringUp \/ BringUpRefused \/ SwitchTasks
-----------------------------------------------------------------------------
(* page_handler in code that runs with interrupts on, the system calls     *)
(* other than execute included: the flag is set and the process spins.     *)
PageFault ==
  /\ Going
  /\ esp \notin {Boot} \cup faulted
  /\ exception_halt' = 1
  /\ faulted' = faulted \cup {esp}
  /\ UNCHANGED <<procVars, schedVars, cpuVars, ret, interrupts>>

(* The handlers made by the HANDLER macro: a message, then the same spin.  *)
OtherException ==
  /\ Going
  /\ esp \notin {Boot} \cup faulted
  /\ faulted' = faulted \cup {esp}
  /\ UNCHANGED <<procVars, schedVars, cpuVars, exception_halt, ret, interrupts>>

(* Alt+F1, Alt+F2, Alt+F3 in keyboard_handler.                             *)
AltFn ==
  /\ Going
  /\ schedule_started \/ "switch" \in BootInput
  /\ active_terminal' \in 0..(NTERM - 1)
  /\ UNCHANGED <<procVars, current_schedule, schedule_started, pcb_terminal,
                 cpuVars, errVars>>

Next ==
  \/ Execute
  \/ ExecuteFails
  \/ ExecuteFaults
  \/ HaltChild
  \/ HaltShell
  \/ Tick
  \/ PageFault
  \/ OtherException
  \/ AltFn

Spec == Init /\ [][Next]_vars

(* The PIT interrupts for ever, and the tick is taken whenever interrupts  *)
(* are on, also by a process that spins.                                   *)
FairSpec == Spec /\ WF_vars(Tick)
-----------------------------------------------------------------------------
(* Types.                                                                  *)
TypeOK ==
  /\ total_tasks \in 1..N
  /\ pid_bitpattern \in [Pids -> 0..1]
  /\ priority_list_pid \in [Slots -> {Free} \cup Pids]
  /\ current_schedule \in -1..N
  /\ schedule_started \in BOOLEAN
  /\ active_terminal \in Terminals
  /\ pcb_terminal \in Terminals
  /\ exception_halt \in 0..1
  /\ pcb \in [0..N -> PCB]
  /\ esp \in 0..N
  /\ esp0 \in 0..N
  /\ page \in 0..N
  /\ saved \subseteq 0..N
  /\ faulted \subseteq Pids
  /\ live \subseteq Pids
  /\ ret \in [to : 0..N, val : RetVal]
  /\ interrupts \in 0..1
  /\ crashed \in BOOLEAN

Ring == {priority_list_pid[i] : i \in {j \in Slots : Occupied(j)}}

(* The address space and the trap stack are those of the process that      *)
(* runs, after any sequence of execute, halt and switch_tasks and whatever *)
(* the environment does.                                                   *)
AddressSpace == page = esp /\ esp0 = esp

(* The running process is in the ring slot the scheduler thinks it is in,  *)
(* so the ring is never empty and the search in switch_tasks ends.         *)
RunningSlot ==
  ~crashed /\ esp # Boot =>
    /\ current_schedule \in Slots
    /\ priority_list_pid[current_schedule] = esp

(* Whatever switch_tasks picks next can be resumed: every process in the   *)
(* ring that is not running was suspended by switch_tasks and has not run  *)
(* since, so its sesp and sebp are the ones to load.                       *)
Resumable == \A p \in Ring \ {esp} : p \in saved

(* execute hands "off the processor to the new program until it            *)
(* terminates": while a child lives, the process that executed it is not   *)
(* in the ring.                                                            *)
HandOff == \A c \in live : pcb[c].parent # NoParent => pcb[c].parent \notin Ring

(* No process is in two ring slots, so each gets one time slice a round    *)
(* and halt and PCB_init, which look for the first slot of a pid, find the *)
(* only one.                                                               *)
OneSlotEach ==
  \A i, j \in Slots :
    Occupied(i) /\ priority_list_pid[i] = priority_list_pid[j] => i = j

(* total_tasks, which execute compares with its limit, counts the          *)
(* processes there are: halt undoes exactly what execute counted, on each  *)
(* of its paths.                                                           *)
TaskCount == ~crashed => total_tasks = 1 + Cardinality(live)

(* Once the base shells are up, each terminal belongs to exactly one       *)
(* process of the ring.                                                    *)
TerminalOwners ==
  schedule_started =>
    \A t \in 0..(NTERM - 1) :
      Cardinality({p \in Ring : pcb[p].terminal_id = t}) = 1

(* "assigns a unique pid": execute never gives a new process the pid, and  *)
(* with it the stack, PCB and page, of a process that has not halted.      *)
UniquePid == [][total_tasks' > total_tasks => esp' \notin live]_vars

(* "return 256 if program dies by exception": a process gets 256 from      *)
(* execute only if the program it executed raised an exception.            *)
ExceptionReport ==
  ret.val = "256" => \E c \in faulted : pcb[c].parent = ret.to

(* "When a process is started, the kernel should automatically open stdin  *)
(* and stdout": every process has file descriptors 0 and 1 open.           *)
StdioOpen == \A p \in live : pcb[p].stdio

(* halt "terminates the current process and replace it with it's parent":  *)
(* a process started by the execute system call knows its parent.          *)
ChildHasParent == [][Execute => pcb'[esp'].parent = esp]_vars

(* The shells switch_tasks starts are "base shells": none has a parent, so *)
(* halt resets it instead of returning to whatever the tick interrupted.   *)
BaseShells == [][BringUp => pcb'[esp'].parent = NoParent]_vars

(* The three ticks of the bring-up always end with all base shells in the  *)
(* ring and scheduling switched on.                                        *)
BringUpCompletes == <>(schedule_started /\ Cardinality(Ring) = NTERM)

(* No starvation: every process in the ring gets the processor again,      *)
(* whatever the others execute, halt or spin on, unless one of them faults *)
(* in execute and stops the machine.                                       *)
RoundRobin == \A p \in Pids : p \in Ring ~> esp = p \/ interrupts = 0

(* The same without the exception: switch_tasks gives every process of the *)
(* ring the processor again.                                               *)
RoundRobinEver == \A p \in Pids : p \in Ring ~> esp = p

(* switch_tasks gives pcb_terminal the terminal of the process it switches *)
(* out.  Because the ring has a fixed order this ends in a fixed           *)
(* assignment: a process reads and writes the terminal of its predecessor  *)
(* in the ring, so no two processes ever share one.  Only a machine that   *)
(* stops before the first round never gets there.                          *)
OutputRotation ==
  <>[](interrupts = 1 =>
         /\ schedule_started
         /\ pcb_terminal =
              pcb[priority_list_pid[(current_schedule + NTERM - 1) % NTERM]].terminal_id)
-----------------------------------------------------------------------------
(* How many base shells the bring-up has started.                          *)
Shells == IF schedule_started THEN NTERM ELSE NTERM - active_terminal

(* What makes the properties above inductive, when nothing is typed during *)
(* the bring-up, no base shell exits and the pids do not run out.  The     *)
(* processes form one chain of parents per base shell: the ring holds the  *)
(* ends of the chains, one in each of the first Shells slots, and nobody   *)
(* has two children.                                                       *)
Chains ==
  /\ ~crashed
  /\ ~schedule_started => active_terminal \in 1..NTERM
  /\ \A i \in Slots : Occupied(i) <=> i < Shells
  /\ \A p \in Pids :
       /\ p <= Shells => pid_bitpattern[p] = 1
       /\ ~schedule_started /\ p > Shells => pid_bitpattern[p] = 0
  /\ \A p \in live : pid_bitpattern[p] = 1
  /\ Ring \subseteq live
  /\ esp = Boot <=> Shells = 0
  /\ \A c \in live :
       /\ c <= NTERM => pcb[c].parent = NoParent
       /\ c > NTERM  => /\ pcb[c].parent \in live
                       /\ pcb[c].terminal_id = pcb[pcb[c].parent].terminal_id
  /\ \A p \in live : p \in Ring <=> \A c \in live : pcb[c].parent # p
  /\ \A c, d \in live : pcb[c].parent = pcb[d].parent /\ c > NTERM => c = d
  /\ \A i \in Slots : i < Shells =>
       pcb[priority_list_pid[i]].terminal_id = NTERM - 1 - i

(* The inductive invariant: each ring entry can be resumed, is there once, *)
(* and is the end of its shell's chain of parents.                         *)
IInv ==
  /\ TypeOK
  /\ Chains
  /\ RunningSlot
  /\ Resumable
  /\ OneSlotEach
  /\ TaskCount
-----------------------------------------------------------------------------
(* The mapping under which Kernel implements TerminalStacks: the stack of  *)
(* a ring slot is the chain of parents of the process in it.               *)
StackOf(pcbs) ==
  LET stack[p \in 0..N] ==
        IF pcbs[p].parent = NoParent THEN <<p>> ELSE Append(stack[pcbs[p].parent], p)
  IN  stack

RingStacks ==
  [i \in 1..Cardinality({s \in Slots : Occupied(s)}) |-> StackOf(pcb)[priority_list_pid[i - 1]]]

Stacks == INSTANCE TerminalStacks WITH
  Programs <- Pids,
  Limit <- N - 1,
  stacks <- RingStacks,
  turn <- current_schedule + 1

(* execute, halt, the bring-up and the scheduler together do what          *)
(* TerminalStacks says: a fresh program on top of the running terminal's   *)
(* stack, the parent again when it halts, and the tops in turn for ever    *)
(* if nobody faults in execute.                                            *)
ImplementsStacks == Stacks!Safety /\ ([](interrupts = 1) => Stacks!Fairness)
=============================================================================
