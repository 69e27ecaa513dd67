---------------------------- MODULE KernelProofs ----------------------------
(***************************************************************************)
(* Proofs about Kernel for every number of terminals and every length of   *)
(* the ring and pid tables: its invariants, and that it implements the     *)
(* stacks of TerminalStacks.                                               *)
(***************************************************************************)
EXTENDS Kernel, FiniteSetTheorems, SequenceTheorems, WellFoundedInduction, TLAPS

(* In every environment, the page mapped at CP_INDEX and the stack in the  *)
(* TSS are those of the process whose stack the CPU is on: execute, both   *)
(* paths of halt and switch_tasks change the three together.               *)
THEOREM AddressSpaceAlways == Spec => []AddressSpace
<1>1. Init => AddressSpace
  BY DEF Init, AddressSpace
<1>2. AddressSpace /\ [Next]_vars => AddressSpace'
  <2> SUFFICES ASSUME AddressSpace, [Next]_vars PROVE AddressSpace'
    OBVIOUS
  <2> USE DEF AddressSpace, RunOn
  <2>1. CASE Execute
    BY <2>1 DEF Execute, execute
  <2>2. CASE ExecuteFails
    BY <2>2 DEF ExecuteFails, cpuVars
  <2>3. CASE HaltChild
    BY <2>3 DEF HaltChild
  <2>4. CASE HaltShell
    BY <2>4 DEF HaltShell, execute
  <2>5. CASE BringUp
    BY <2>5 DEF BringUp, execute
  <2>6. CASE BringUpRefused
    BY <2>6 DEF BringUpRefused, cpuVars
  <2>7. CASE SwitchTasks
    BY <2>7 DEF SwitchTasks
  <2>8. CASE ExecuteFaults \/ PageFault \/ OtherException \/ AltFn
    BY <2>8 DEF ExecuteFaults, PageFault, OtherException, AltFn, cpuVars
  <2>9. CASE UNCHANGED vars
    BY <2>9 DEF vars, cpuVars
  <2> QED
    BY <2>1, <2>2, <2>3, <2>4, <2>5, <2>6, <2>7, <2>8, <2>9 DEF Next, Tick
<1> QED
  BY <1>1, <1>2, PTL DEF Spec
-----------------------------------------------------------------------------
(* The environment the rest is about: nothing is typed before the base     *)
(* shells are up, none of them exits, and the pids do not run out.         *)
Calm == BootInput = {} /\ ~ShellExit /\ GarbagePids = {}

USE DEF Free, NoParent, Boot, Slots, Pids

(* Membership in the ring, without the set constructor.                    *)
LEMMA InRing ==
  ASSUME NEW p
  PROVE  p \in Ring <=> \E i \in Slots : Occupied(i) /\ priority_list_pid[i] = p
BY DEF Ring

(* The same in the next state.                                             *)
LEMMA InRingNext ==
  ASSUME NEW p
  PROVE  p \in Ring' <=> \E i \in Slots : Occupied(i)' /\ priority_list_pid'[i] = p
BY DEF Ring, Occupied

(* An element known to be the only one is the first.                       *)
LEMMA FirstSingleton ==
  ASSUME NEW S, NEW x \in Int, S = {x}
  PROVE  First(S) = {x}
BY DEF First

(* A set of pids is finite, so total_tasks can count it.                   *)
LEMMA LiveFinite ==
  ASSUME NEW S \in SUBSET Pids
  PROVE  IsFiniteSet(S) /\ Cardinality(S) \in Nat
<1>1. IsFiniteSet(Pids)
  BY KernelAssumption, FS_Interval
<1>2. IsFiniteSet(S)
  BY Zenon, <1>1, FS_Subset
<1> QED
  BY <1>2, FS_CardinalityType

(* What scheduler_init leaves behind satisfies the invariant.              *)
LEMMA InitIInv == Init => IInv
<1> SUFFICES ASSUME Init PROVE IInv
  OBVIOUS
<1> USE KernelAssumption DEF Init
<1>1. TypeOK
  <2>1. NoPCB \in PCB
    BY DEF NoPCB, PCB, Terminals, Wrapped
  <2>2. pcb \in [0..N -> PCB]
    BY <2>1
  <2>3. ret \in [to : 0..N, val : RetVal]
    BY DEF RetVal
  <2>4. pid_bitpattern \in [Pids -> 0..1]
    OBVIOUS
  <2>5. priority_list_pid \in [Slots -> {Free} \cup Pids]
    OBVIOUS
  <2>6. schedule_started \in BOOLEAN /\ crashed \in BOOLEAN
    BY Zenon
  <2>7. /\ total_tasks \in 1..N
        /\ current_schedule \in -1..N
        /\ esp \in 0..N /\ esp0 \in 0..N /\ page \in 0..N
    OBVIOUS
  <2>8. active_terminal \in Terminals /\ pcb_terminal \in Terminals
    BY DEF Terminals, Wrapped
  <2>9. /\ exception_halt \in 0..1 /\ interrupts \in 0..1 /\ saved \subseteq 0..N
        /\ faulted \subseteq Pids /\ live \subseteq Pids
    OBVIOUS
  <2> QED
    BY <2>2, <2>3, <2>4, <2>5, <2>6, <2>7, <2>8, <2>9 DEF TypeOK
<1>2. Ring = {}
  BY InRing DEF Occupied
<1>3. Shells = 0
  BY DEF Shells
<1>4. Chains
  BY <1>2, <1>3 DEF Chains, Occupied
<1>5. TaskCount
  BY FS_EmptySet DEF TaskCount
<1> QED
  BY <1>1, <1>2, <1>4, <1>5 DEF IInv, RunningSlot, Resumable, OneSlotEach, Occupied
(* Writing a pid that is not in the ring into slot k replaces what was     *)
(* there, and keeps the entries distinct.                                  *)
LEMMA RingPut ==
  ASSUME TypeOK, OneSlotEach,
         NEW k \in Slots, NEW q \in Pids, q \notin Ring,
         priority_list_pid' = [priority_list_pid EXCEPT ![k] = q]
  PROVE  /\ Ring' = (Ring \ {priority_list_pid[k]}) \cup {q}
         /\ OneSlotEach'
         /\ \A i \in Slots : Occupied(i)' <=> Occupied(i) \/ i = k
         /\ priority_list_pid' \in [Slots -> {Free} \cup Pids]
<1> USE KernelAssumption
<1>1. priority_list_pid \in [Slots -> {Free} \cup Pids]
  BY DEF TypeOK
<1>2. \A i \in Slots : priority_list_pid'[i] = IF i = k THEN q ELSE priority_list_pid[i]
  BY <1>1
<1>3. \A i \in Slots : Occupied(i) => priority_list_pid[i] # q
  BY InRing
<1>4. \A i \in Slots : Occupied(i)' <=> Occupied(i) \/ i = k
  BY <1>1, <1>2 DEF Occupied
<1>5. OneSlotEach'
  BY <1>1, <1>2, <1>3 DEF OneSlotEach, Occupied
<1>6. ASSUME NEW p PROVE p \in Ring' <=> p \in (Ring \ {priority_list_pid[k]}) \cup {q}
  <2>1. p \in Ring' <=> p = q \/ \E i \in Slots \ {k} : Occupied(i) /\ priority_list_pid[i] = p
    BY <1>2, <1>4, InRingNext
  <2>2. ASSUME NEW i \in Slots \ {k}, Occupied(i)
        PROVE  priority_list_pid[i] # priority_list_pid[k]
    BY <2>2 DEF OneSlotEach
  <2> QED
    BY <2>1, <2>2, InRing
<1> QED
  BY <1>1, <1>4, <1>5, <1>6

(* What the pid loop finds: a pid that no process has, and during the      *)
(* bring-up the next of the base shells' pids.                             *)
LEMMA FreshPid ==
  ASSUME Calm, IInv, NEW pid \in NewPid(pid_bitpattern)
  PROVE  /\ pid \in Pids
         /\ pid_bitpattern[pid] = 0
         /\ pid \notin live
         /\ pid > Shells
         /\ ~schedule_started => pid = Shells + 1
<1> USE KernelAssumption
<1>1. /\ pid \in Pids
      /\ pid_bitpattern[pid] = 0
      /\ \A j \in Pids : pid_bitpattern[j] = 0 => pid <= j
  BY DEF Calm, NewPid, First
<1>2. pid \notin live
  BY <1>1 DEF IInv, Chains
<1>3. Shells \in 0..NTERM
  BY DEF IInv, Chains, Shells
<1>4. pid > Shells
  BY <1>1, <1>3 DEF IInv, Chains
<1>5. ASSUME ~schedule_started PROVE pid = Shells + 1
  <2>1. Shells + 1 \in Pids /\ Shells + 1 > Shells
    BY <1>5 DEF IInv, Chains, Shells
  <2>2. pid_bitpattern[Shells + 1] = 0
    BY <1>5, <2>1 DEF IInv, Chains
  <2> QED
    BY <1>1, <1>3, <1>4, <2>1, <2>2
<1> QED
  BY <1>1, <1>2, <1>4, <1>5

(* What execute does once the pid and the ring slot k are known.           *)
Starts(pid, k, par, term, ctx) ==
  /\ total_tasks < N
  /\ total_tasks' = total_tasks + 1
  /\ pid_bitpattern' = [pid_bitpattern EXCEPT ![pid] = 1]
  /\ pcb' = [pcb EXCEPT ![pid] =
       [parent |-> par, terminal_id |-> term, stdio |-> TRUE]]
  /\ priority_list_pid' = [priority_list_pid EXCEPT ![k] = pid]
  /\ current_schedule' = k
  /\ page' = pid /\ esp0' = pid /\ esp' = pid
  /\ saved' = ctx \ {pid}
  /\ live' = live \cup {pid}
  /\ faulted' = faulted \ {pid}
  /\ crashed' = FALSE
  /\ UNCHANGED <<pcb_terminal, exception_halt, ret, interrupts>>

(* PCB_init's write to one ring slot, as an update of the list.            *)
LEMMA PutInOneSlot ==
  ASSUME TypeOK, NEW k \in Slots, NEW x,
         NEW f, f = [i \in Slots |-> IF i \in {k} THEN x ELSE priority_list_pid[i]]
  PROVE  f = [priority_list_pid EXCEPT ![k] = x]
BY Zenon DEF TypeOK

(* The execute system call replaces the caller by its child in the         *)
(* caller's own ring slot.                                                 *)
LEMMA ExecuteIs ==
  ASSUME Calm, IInv, Execute
  PROVE  /\ schedule_started
         /\ esp # Boot
         /\ UNCHANGED <<schedule_started, active_terminal>>
         /\ \E pid \in NewPid(pid_bitpattern) :
              Starts(pid, current_schedule, esp, pcb[esp].terminal_id, saved)
<1> USE KernelAssumption
<1>1. /\ schedule_started /\ esp # Boot /\ ~crashed
      /\ UNCHANGED <<schedule_started, active_terminal>>
      /\ total_tasks < N
  BY DEF Calm, Execute, UserCode, Going
<1>2. PICK pid \in NewPid(pid_bitpattern) :
        /\ total_tasks' = total_tasks + 1
        /\ pid_bitpattern' = [pid_bitpattern EXCEPT ![pid] = 1]
        /\ PCB_init(pid, active_terminal)
        /\ RunOn(pid)
        /\ saved' = saved \ {pid}
        /\ live' = live \cup {pid}
        /\ faulted' = faulted \ {pid}
        /\ crashed' = (pid \in live)
        /\ UNCHANGED <<pcb_terminal, exception_halt, ret, interrupts>>
  BY Zenon DEF Execute, execute
<1>3. pid \in Pids /\ pid > NTERM /\ pid \notin live
  BY <1>1, FreshPid DEF Shells
<1>4. current_schedule \in Slots /\ priority_list_pid[current_schedule] = esp
  BY <1>1 DEF IInv, RunningSlot
<1>5. SlotsFor(pid) = {current_schedule}
  <2>1. Occupied(current_schedule)
    BY <1>1, <1>4 DEF IInv, TypeOK, Occupied
  <2>2. \A i \in Slots : priority_list_pid[i] = esp => i = current_schedule
    BY <1>4, <2>1 DEF IInv, OneSlotEach
  <2> QED
    BY <1>3, <1>4, <2>2 DEF SlotsFor
<1>6. First(SlotsFor(pid)) = {current_schedule}
  BY <1>4, <1>5, FirstSingleton
<1>7. /\ pcb' = [pcb EXCEPT ![pid] =
           [parent |-> esp, terminal_id |-> pcb[esp].terminal_id, stdio |-> TRUE]]
      /\ priority_list_pid' = [i \in Slots |->
           IF i \in {current_schedule} THEN pid ELSE priority_list_pid[i]]
      /\ current_schedule' = current_schedule
  BY <1>2, <1>3, <1>6 DEF PCB_init, TerminalFor
<1>8. priority_list_pid' = [priority_list_pid EXCEPT ![current_schedule] = pid]
  BY Zenon, <1>4, <1>7, PutInOneSlot DEF IInv
<1>9. crashed' = FALSE
  <2>1. (pid \in live) = FALSE
    BY <1>3
  <2> QED
    BY Zenon, <1>2, <2>1
<1>10. Starts(pid, current_schedule, esp, pcb[esp].terminal_id, saved)
  BY Zenon, <1>1, <1>2, <1>7, <1>8, <1>9 DEF Starts, RunOn
<1> QED
  BY <1>1, <1>10

(* A tick of the bring-up starts shell number Shells + 1 in ring slot      *)
(* Shells, with no parent.                                                 *)
LEMMA BringUpIs ==
  ASSUME Calm, IInv, BringUp
  PROVE  /\ ~schedule_started
         /\ active_terminal' = active_terminal - 1
         /\ schedule_started' = (active_terminal' = 0)
         /\ Shells \in 0..(NTERM - 1)
         /\ Starts(Shells + 1, Shells, NoParent, active_terminal - 1, Suspended)
<1> USE KernelAssumption
<1>1. /\ ~schedule_started /\ ~crashed
      /\ schedule_started' = (active_terminal' = 0)
      /\ total_tasks < N
  BY DEF BringUp, Going
<1>2. active_terminal \in 1..NTERM
  BY <1>1 DEF IInv, Chains
<1>3. active_terminal' = active_terminal - 1
  BY <1>2 DEF BringUp, Dec, Wrapped
<1>4. Shells \in 0..(NTERM - 1) /\ Shells \in Slots
  BY <1>1, <1>2 DEF Shells
<1>5. PICK pid \in NewPid(pid_bitpattern) :
        /\ total_tasks' = total_tasks + 1
        /\ pid_bitpattern' = [pid_bitpattern EXCEPT ![pid] = 1]
        /\ PCB_init(pid, active_terminal')
        /\ RunOn(pid)
        /\ saved' = Suspended \ {pid}
        /\ live' = live \cup {pid}
        /\ faulted' = faulted \ {pid}
        /\ crashed' = (pid \in live)
        /\ UNCHANGED <<pcb_terminal, exception_halt, ret, interrupts>>
  BY Zenon DEF BringUp, execute
<1>6. pid = Shells + 1 /\ pid \notin live
  BY <1>1, FreshPid
<1>7. First(SlotsFor(pid)) = {Shells}
  <2>1. \A i \in Slots : priority_list_pid[i] <= 0 <=> i >= Shells
    <3>1. priority_list_pid \in [Slots -> {Free} \cup Pids]
      BY DEF IInv, TypeOK
    <3>2. \A i \in Slots : priority_list_pid[i] >= 0 <=> i < Shells
      BY DEF IInv, Chains, Occupied
    <3> QED
      BY <1>4, <3>1, <3>2
  <2>2. SlotsFor(pid) = {i \in Slots : i >= Shells}
    BY <1>4, <1>6, <2>1 DEF SlotsFor
  <2> QED
    BY <1>4, <2>2 DEF First
<1>8. /\ pcb' = [pcb EXCEPT ![pid] =
           [parent |-> NoParent, terminal_id |-> active_terminal', stdio |-> TRUE]]
      /\ priority_list_pid' = [i \in Slots |->
           IF i \in {Shells} THEN pid ELSE priority_list_pid[i]]
      /\ current_schedule' = Shells
  <2>1. ~(pid > NTERM)
    BY <1>4, <1>6
  <2>2. {Shells} # {}
    OBVIOUS
  <2> QED
    BY Zenon, <1>5, <1>7, <2>1, <2>2 DEF PCB_init, TerminalFor
<1>9. priority_list_pid' = [priority_list_pid EXCEPT ![Shells] = pid]
  BY Zenon, <1>4, <1>8, PutInOneSlot DEF IInv
<1>10. crashed' = FALSE
  <2>1. (pid \in live) = FALSE
    BY <1>6
  <2> QED
    BY Zenon, <1>5, <2>1
<1> QED
  BY Zenon, <1>1, <1>3, <1>4, <1>5, <1>6, <1>8, <1>9, <1>10 DEF Starts, RunOn

(* Starting a process keeps the types.                                     *)
LEMMA StartsType ==
  ASSUME TypeOK, NEW pid \in Pids, NEW k \in Slots,
         NEW par \in {NoParent} \cup 0..N, NEW term \in Terminals,
         NEW ctx \in SUBSET (0..N),
         Starts(pid, k, par, term, ctx),
         active_terminal' \in Terminals, schedule_started' \in BOOLEAN
  PROVE  TypeOK'
<1> USE KernelAssumption DEF Starts
<1>1. total_tasks' \in 1..N /\ current_schedule' \in -1..N
  BY DEF TypeOK
<1>2. pid_bitpattern' \in [Pids -> 0..1]
  BY DEF TypeOK
<1>3. priority_list_pid' \in [Slots -> {Free} \cup Pids]
  BY DEF TypeOK
<1>4. pcb' \in [0..N -> PCB]
  <2>1. [parent |-> par, terminal_id |-> term, stdio |-> TRUE] \in PCB
    BY DEF PCB
  <2> QED
    BY <2>1 DEF TypeOK
<1>5. /\ esp' \in 0..N /\ esp0' \in 0..N /\ page' \in 0..N
      /\ saved' \subseteq 0..N /\ faulted' \subseteq Pids /\ live' \subseteq Pids
  BY DEF TypeOK
<1>6. /\ pcb_terminal' \in Terminals /\ exception_halt' \in 0..1
      /\ ret' \in [to : 0..N, val : RetVal] /\ interrupts' \in 0..1
  BY DEF TypeOK
<1>7. crashed' \in BOOLEAN
  BY Zenon
<1> QED
  BY Zenon, <1>1, <1>2, <1>3, <1>4, <1>5, <1>6, <1>7 DEF TypeOK

(* Starting a process under a pid that is not in use keeps total_tasks the *)
(* number of processes.                                                    *)
LEMMA StartsCount ==
  ASSUME IInv, NEW pid \in Pids \ live, NEW k, NEW par, NEW term, NEW ctx,
         Starts(pid, k, par, term, ctx)
  PROVE  TaskCount'
<1>1. live \subseteq Pids /\ ~crashed /\ total_tasks = 1 + Cardinality(live)
  BY DEF IInv, TypeOK, Chains, TaskCount
<1>2. IsFiniteSet(live) /\ Cardinality(live) \in Nat
  BY <1>1, LiveFinite
<1>3. Cardinality(live \cup {pid}) = Cardinality(live) + 1
  BY <1>2, FS_AddElement
<1> QED
  BY <1>1, <1>2, <1>3 DEF TaskCount, Starts

(* The execute system call keeps the invariant: the caller's chain grows   *)
(* by one and its new end takes over the caller's ring slot.               *)
LEMMA ExecuteInv ==
  ASSUME Calm, IInv, Execute
  PROVE  IInv'
<1> USE KernelAssumption
<1>1. /\ schedule_started /\ schedule_started' /\ Shells = NTERM /\ Shells' = NTERM
      /\ esp # Boot
      /\ active_terminal' = active_terminal
  BY ExecuteIs DEF Shells
<1>2. PICK pid \in NewPid(pid_bitpattern) :
        Starts(pid, current_schedule, esp, pcb[esp].terminal_id, saved)
  BY ExecuteIs
<1>3. pid \in Pids /\ pid \notin live /\ pid > NTERM
  BY <1>1, FreshPid
<1> DEFINE k == current_schedule
<1>4. k \in Slots /\ priority_list_pid[k] = esp /\ Occupied(k)
  BY <1>1 DEF IInv, RunningSlot, Chains, TypeOK, Occupied
<1>5. esp \in Ring /\ esp \in live /\ esp # pid
  BY <1>3, <1>4, InRing DEF IInv, Chains
<1>6. pcb[esp].terminal_id \in Terminals
  BY DEF IInv, TypeOK, PCB
<1>7. TypeOK'
  <2>1. active_terminal' \in Terminals /\ schedule_started' \in BOOLEAN
    BY ExecuteIs DEF IInv, TypeOK
  <2>2. esp \in {NoParent} \cup 0..N /\ saved \in SUBSET (0..N)
    BY DEF IInv, TypeOK
  <2> QED
    BY <1>2, <1>3, <1>4, <1>6, <2>1, <2>2, StartsType DEF IInv
<1>8. TaskCount'
  BY <1>2, <1>3, StartsCount
<1>9. pid \notin Ring
  BY <1>3 DEF IInv, Chains
<1>10. /\ Ring' = (Ring \ {esp}) \cup {pid}
       /\ OneSlotEach'
       /\ \A i \in Slots : Occupied(i)' <=> Occupied(i) \/ i = k
  BY Zenon, <1>2, <1>3, <1>4, <1>9, RingPut DEF Starts, IInv
<1>11. RunningSlot'
  BY <1>2, <1>3, <1>4 DEF RunningSlot, Starts, IInv, TypeOK
<1>12. Resumable'
  BY <1>2, <1>9, <1>10 DEF Resumable, Starts, IInv
<1>13. Chains'
  <2>1. /\ esp' = pid /\ crashed' = FALSE /\ live' = live \cup {pid}
        /\ pid_bitpattern' = [pid_bitpattern EXCEPT ![pid] = 1]
        /\ priority_list_pid' = [priority_list_pid EXCEPT ![k] = pid]
    BY <1>2 DEF Starts
  <2>2. /\ pcb'[pid].parent = esp
        /\ pcb'[pid].terminal_id = pcb[esp].terminal_id
        /\ \A p \in 0..N : p # pid => pcb'[p] = pcb[p]
    BY SMTT(30), <1>2, <1>3 DEF Starts, IInv, TypeOK
  <2>3. live \subseteq Pids /\ \A p \in live : pcb'[p] = pcb[p]
    <3>1. live \subseteq Pids
      BY DEF IInv, TypeOK
    <3> QED
      BY <1>3, <2>2, <3>1
  <2>4. \A i \in Slots : Occupied(i)' <=> i < Shells'
    BY <1>1, <1>4, <1>10 DEF IInv, Chains
  <2>5. \A p \in Pids : p <= Shells' => pid_bitpattern'[p] = 1
    BY <1>1, <2>1 DEF IInv, Chains, TypeOK
  <2>6. \A p \in live' : pid_bitpattern'[p] = 1
    BY <1>3, <2>1, <2>3 DEF IInv, Chains, TypeOK
  <2>7. Ring' \subseteq live'
    BY <1>10, <2>1 DEF IInv, Chains
  <2>8. \A c \in live' :
          /\ c <= NTERM => pcb'[c].parent = NoParent
          /\ c > NTERM  => /\ pcb'[c].parent \in live'
                           /\ pcb'[c].terminal_id = pcb'[pcb'[c].parent].terminal_id
    <3>1. ASSUME NEW c \in live
          PROVE  /\ c <= NTERM => pcb'[c].parent = NoParent
                 /\ c > NTERM  => /\ pcb'[c].parent \in live'
                                  /\ pcb'[c].terminal_id = pcb'[pcb'[c].parent].terminal_id
      <4>1. pcb'[c] = pcb[c]
        BY <2>3
      <4>2. c > NTERM => pcb[c].parent \in live /\ pcb'[pcb[c].parent] = pcb[pcb[c].parent]
        BY <2>3 DEF IInv, Chains
      <4> QED
        BY <2>1, <4>1, <4>2 DEF IInv, Chains
    <3>2. pcb'[pid].terminal_id = pcb'[pcb'[pid].parent].terminal_id
      BY <1>5, <2>2, <2>3
    <3> QED
      BY <1>3, <1>5, <2>1, <2>2, <3>1, <3>2
  <2>9. \A c \in live : pcb'[c].parent = pcb[c].parent /\ pcb[c].parent # pid
    <3>1. \A c \in live : pcb[c].parent = NoParent \/ pcb[c].parent \in live
      BY <2>3 DEF IInv, Chains
    <3> QED
      BY <1>3, <2>3, <3>1
  <2>10. \A p \in live' : p \in Ring' <=> \A c \in live' : pcb'[c].parent # p
    BY SMTT(30), <1>3, <1>5, <1>10, <2>1, <2>2, <2>9 DEF IInv, Chains
  <2>11. \A c, d \in live' : pcb'[c].parent = pcb'[d].parent /\ c > NTERM => c = d
    <3>1. \A c \in live : pcb[c].parent # esp
      BY <1>5 DEF IInv, Chains
    <3> QED
      BY <2>1, <2>2, <2>9, <3>1 DEF IInv, Chains
  <2>12. \A i \in Slots : i < Shells' =>
           pcb'[priority_list_pid'[i]].terminal_id = NTERM - 1 - i
    <3> SUFFICES ASSUME NEW i \in Slots, i < NTERM
                 PROVE  pcb'[priority_list_pid'[i]].terminal_id = NTERM - 1 - i
      BY <1>1
    <3>1. pcb[priority_list_pid[i]].terminal_id = NTERM - 1 - i
      BY <1>1 DEF IInv, Chains
    <3>2. CASE i = k
      BY <1>4, <2>1, <2>2, <3>1, <3>2 DEF IInv, TypeOK
    <3>3. CASE i # k
      <4>1. Occupied(i)
        BY <1>1 DEF IInv, Chains
      <4>2. priority_list_pid[i] \in live
        BY <4>1, InRing DEF IInv, Chains
      <4>3. priority_list_pid'[i] = priority_list_pid[i]
        BY <2>1, <3>3 DEF IInv, TypeOK
      <4> QED
        BY Zenon, <2>3, <3>1, <4>2, <4>3
    <3> QED
      BY <3>2, <3>3
  <2> QED
    BY <1>1, <1>3, <2>1, <2>4, <2>5, <2>6, <2>7, <2>8, <2>10, <2>11, <2>12 DEF Chains
<1> QED
  BY <1>7, <1>8, <1>10, <1>11, <1>12, <1>13 DEF IInv

(* A tick of the bring-up keeps the invariant: it adds one chain, a base   *)
(* shell alone, in the next slot.                                          *)
LEMMA BringUpInv ==
  ASSUME Calm, IInv, BringUp
  PROVE  IInv'
<1> USE KernelAssumption
<1>1. /\ ~schedule_started
      /\ active_terminal' = active_terminal - 1
      /\ schedule_started' = (active_terminal' = 0)
      /\ Shells \in 0..(NTERM - 1)
      /\ Starts(Shells + 1, Shells, NoParent, active_terminal - 1, Suspended)
  BY BringUpIs
<1>2. PICK pid \in Pids, k \in Slots :
        /\ pid = Shells + 1 /\ k = Shells /\ pid = k + 1 /\ pid <= NTERM
        /\ Starts(pid, k, NoParent, active_terminal - 1, Suspended)
  BY <1>1
<1>3. /\ active_terminal \in 1..NTERM /\ k = NTERM - active_terminal
      /\ pid_bitpattern[pid] = 0
  BY <1>1, <1>2 DEF IInv, Chains, Shells
<1>4. Shells' = pid
  <2>1. CASE active_terminal' = 0
    <3>1. schedule_started'
      BY Zenon, <1>1, <2>1
    <3>2. Shells' = NTERM
      BY <3>1 DEF Shells
    <3> QED
      BY <1>1, <1>2, <1>3, <2>1, <3>2
  <2>2. CASE active_terminal' # 0
    <3>1. ~schedule_started'
      BY Zenon, <1>1, <2>2
    <3>2. Shells' = NTERM - active_terminal'
      BY <3>1 DEF Shells
    <3> QED
      BY <1>1, <1>2, <1>3, <3>2
  <2> QED
    BY <2>1, <2>2
<1>5. pid \notin live /\ pid \notin Ring
  BY <1>3 DEF IInv, Chains
<1>6. TypeOK'
  <2>1. schedule_started' \in BOOLEAN
    BY <1>1
  <2>2. active_terminal' \in Terminals /\ active_terminal - 1 \in Terminals
    BY <1>1, <1>3 DEF Terminals, Wrapped
  <2>3. Suspended \in SUBSET (0..N) /\ NoParent \in {NoParent} \cup 0..N
    BY DEF Suspended, IInv, TypeOK
  <2> QED
    BY <1>2, <2>1, <2>2, <2>3, StartsType DEF IInv
<1>7. TaskCount'
  BY <1>2, <1>5, StartsCount
<1>8. ~Occupied(k) /\ priority_list_pid[k] \notin Ring
  <2>1. ~Occupied(k)
    BY <1>2 DEF IInv, Chains
  <2> QED
    BY <2>1, InRing DEF Occupied
<1>9. /\ Ring' = Ring \cup {pid}
      /\ OneSlotEach'
      /\ \A i \in Slots : Occupied(i)' <=> Occupied(i) \/ i = k
  <2>1. priority_list_pid' = [priority_list_pid EXCEPT ![k] = pid]
    BY <1>2 DEF Starts
  <2>2. Ring' = (Ring \ {priority_list_pid[k]}) \cup {pid}
    BY Zenon, <1>5, <2>1, RingPut DEF IInv
  <2>3. Ring' = Ring \cup {pid}
    BY <1>8, <2>2
  <2> QED
    BY Zenon, <1>5, <2>1, <2>3, RingPut DEF IInv
<1>10. RunningSlot'
  BY <1>2 DEF RunningSlot, Starts, IInv, TypeOK
<1>11. Resumable'
  BY SMTT(30), <1>2, <1>9 DEF Resumable, Starts, Suspended, IInv
<1>12. Chains'
  <2>1. /\ esp' = pid /\ crashed' = FALSE /\ live' = live \cup {pid}
        /\ pid_bitpattern' = [pid_bitpattern EXCEPT ![pid] = 1]
        /\ priority_list_pid' = [priority_list_pid EXCEPT ![k] = pid]
    BY <1>2 DEF Starts
  <2>2. /\ pcb'[pid].parent = NoParent
        /\ pcb'[pid].terminal_id = active_terminal - 1
        /\ \A p \in 0..N : p # pid => pcb'[p] = pcb[p]
    BY <1>2 DEF Starts, IInv, TypeOK
  <2>3. live \subseteq Pids /\ \A p \in live : pcb'[p] = pcb[p]
    <3>1. live \subseteq Pids /\ \A p \in Pids : p \in 0..N
      BY DEF IInv, TypeOK
    <3>2. \A p \in live : p \in 0..N /\ p # pid
      BY Zenon, <1>5, <3>1
    <3> QED
      BY Zenon, <2>2, <3>1, <3>2
  <2>4. \A i \in Slots : Occupied(i)' <=> i < Shells'
    BY <1>2, <1>4, <1>9 DEF IInv, Chains
  <2>5. \A p \in Pids :
          /\ p <= Shells' => pid_bitpattern'[p] = 1
          /\ ~schedule_started' /\ p > Shells' => pid_bitpattern'[p] = 0
    <3>1. \A p \in Pids : pid_bitpattern'[p] = IF p = pid THEN 1 ELSE pid_bitpattern[p]
      BY SMTT(30), <2>1 DEF IInv, TypeOK
    <3>2. \A p \in Pids : /\ p <= k => pid_bitpattern[p] = 1
                          /\ p > k => pid_bitpattern[p] = 0
      BY <1>1, <1>2 DEF IInv, Chains
    <3> SUFFICES ASSUME NEW p \in Pids
                 PROVE  /\ p <= pid => pid_bitpattern'[p] = 1
                        /\ p > pid => pid_bitpattern'[p] = 0
      BY SMTT(30), <1>4
    <3> QED
      BY <1>2, <3>1, <3>2
  <2>6. \A p \in live' : pid_bitpattern'[p] = 1
    BY SMTT(30), <2>1, <2>3 DEF IInv, Chains, TypeOK
  <2>7. Ring' \subseteq live'
    BY <1>9, <2>1 DEF IInv, Chains
  <2>8. \A c \in live' :
          /\ c <= NTERM => pcb'[c].parent = NoParent
          /\ c > NTERM  => /\ pcb'[c].parent \in live'
                           /\ pcb'[c].terminal_id = pcb'[pcb'[c].parent].terminal_id
    <3>1. ASSUME NEW c \in live
          PROVE  /\ c <= NTERM => pcb'[c].parent = NoParent
                 /\ c > NTERM  => /\ pcb'[c].parent \in live'
                                  /\ pcb'[c].terminal_id = pcb'[pcb'[c].parent].terminal_id
      <4>1. pcb'[c] = pcb[c]
        BY <2>3
      <4>2. c > NTERM => pcb[c].parent \in live /\ pcb'[pcb[c].parent] = pcb[pcb[c].parent]
        BY <2>3 DEF IInv, Chains
      <4> QED
        BY <2>1, <4>1, <4>2 DEF IInv, Chains
    <3>2. ~(pid > NTERM)
      BY <1>2
    <3> QED
      BY <2>1, <2>2, <3>1, <3>2
  <2>9. \A c \in live : /\ pcb'[c].parent = pcb[c].parent
                        /\ pcb[c].parent # pid
                        /\ c > NTERM => pcb[c].parent # NoParent
    <3>1. \A c \in live : /\ pcb[c].parent = NoParent \/ pcb[c].parent \in live
                          /\ c > NTERM => pcb[c].parent # NoParent
      BY <2>3 DEF IInv, Chains
    <3> QED
      BY <1>5, <2>3, <3>1
  <2>10. \A p \in live' : p \in Ring' <=> \A c \in live' : pcb'[c].parent # p
    BY SMTT(30), <1>5, <1>9, <2>1, <2>2, <2>3, <2>9 DEF IInv, Chains
  <2>11. \A c, d \in live' : pcb'[c].parent = pcb'[d].parent /\ c > NTERM => c = d
    BY <1>2, <2>1, <2>2, <2>9 DEF IInv, Chains
  <2>12. \A i \in Slots : i < Shells' =>
           pcb'[priority_list_pid'[i]].terminal_id = NTERM - 1 - i
    <3> SUFFICES ASSUME NEW i \in Slots, i < pid
                 PROVE  pcb'[priority_list_pid'[i]].terminal_id = NTERM - 1 - i
      BY <1>4
    <3>1. CASE i = k
      <4>1. priority_list_pid'[i] = pid
        BY <2>1, <3>1 DEF IInv, TypeOK
      <4> QED
        BY <1>3, <2>2, <3>1, <4>1
    <3>2. CASE i # k
      <4>1. i < Shells
        BY <1>2, <3>2
      <4>2. Occupied(i) /\ pcb[priority_list_pid[i]].terminal_id = NTERM - 1 - i
        BY <4>1 DEF IInv, Chains
      <4>3. priority_list_pid[i] \in live
        BY <4>2, InRing DEF IInv, Chains
      <4>4. priority_list_pid'[i] = priority_list_pid[i]
        BY <2>1, <3>2 DEF IInv, TypeOK
      <4> QED
        BY Zenon, <2>3, <4>2, <4>3, <4>4
    <3> QED
      BY <3>1, <3>2
  <2>13. /\ ~schedule_started' => active_terminal' \in 1..NTERM
         /\ esp' = Boot <=> Shells' = 0
    <3>1. active_terminal' = 0 \/ active_terminal' \in 1..NTERM
      BY <1>1, <1>3
    <3>2. esp' # Boot /\ Shells' # 0
      BY <1>4, <2>1
    <3> QED
      BY Zenon, <1>1, <3>1, <3>2
  <2> QED
    BY <2>1, <2>4, <2>5, <2>6, <2>7, <2>8, <2>10, <2>11, <2>12, <2>13 DEF Chains
<1> QED
  BY <1>6, <1>7, <1>9, <1>10, <1>11, <1>12 DEF IInv

(* halt of a child undoes its execute: the parent takes over its slot.     *)
LEMMA HaltChildIs ==
  ASSUME Calm, IInv, HaltChild
  PROVE  /\ schedule_started /\ schedule_started' = schedule_started
         /\ esp \in Ring /\ esp \in live /\ esp > NTERM
         /\ current_schedule \in Slots
         /\ priority_list_pid[current_schedule] = esp
         /\ pcb[esp].parent \in live \ Ring
         /\ priority_list_pid' =
              [priority_list_pid EXCEPT ![current_schedule] = pcb[esp].parent]
<1> USE KernelAssumption
<1>1. schedule_started /\ esp # Boot /\ esp > NTERM
  BY DEF Calm, HaltChild, UserCode, Going
<1>2. schedule_started' = schedule_started
  BY DEF HaltChild, schedVars
<1>3. /\ current_schedule \in Slots
      /\ priority_list_pid[current_schedule] = esp
      /\ Occupied(current_schedule)
  BY SMTT(30), <1>1 DEF IInv, RunningSlot, Chains, TypeOK, Occupied
<1>4. esp \in Ring /\ esp \in live
  BY <1>3, InRing DEF IInv, Chains
<1>5. pcb[esp].parent \in live
  BY <1>1, <1>4 DEF IInv, Chains
<1>6. pcb[esp].parent \notin Ring
  BY <1>4, <1>5 DEF IInv, Chains
<1>7. {i \in Slots : priority_list_pid[i] = esp} = {current_schedule}
  BY <1>3 DEF IInv, OneSlotEach
<1>8. First({i \in Slots : priority_list_pid[i] = esp}) = {current_schedule}
  BY <1>3, <1>7, FirstSingleton
<1>9. priority_list_pid' = [i \in Slots |->
        IF i \in {current_schedule} THEN pcb[esp].parent ELSE priority_list_pid[i]]
  BY <1>8 DEF HaltChild, GiveSlotTo
<1>10. priority_list_pid' =
         [priority_list_pid EXCEPT ![current_schedule] = pcb[esp].parent]
  BY Zenon, <1>3, <1>9, PutInOneSlot DEF IInv
<1> QED
  BY <1>1, <1>2, <1>3, <1>4, <1>5, <1>6, <1>10

(* halt of a child keeps the invariant: its chain shrinks by one and the   *)
(* parent, now the end, takes over the slot.                               *)
LEMMA HaltChildInv ==
  ASSUME Calm, IInv, HaltChild
  PROVE  IInv'
<1> USE KernelAssumption
<1> DEFINE k == current_schedule
<1>1. PICK q \in live \ Ring :
        /\ q = pcb[esp].parent
        /\ priority_list_pid' = [priority_list_pid EXCEPT ![k] = q]
  BY HaltChildIs
<1>2. /\ esp \in Ring /\ esp \in live /\ esp > NTERM
      /\ k \in Slots /\ priority_list_pid[k] = esp
      /\ schedule_started /\ schedule_started'
  BY HaltChildIs
<1>3. /\ live \subseteq Pids /\ q \in Pids /\ q # esp
  BY <1>1, <1>2 DEF IInv, TypeOK
<1>4. /\ total_tasks' = total_tasks - 1
      /\ pcb' = [pcb EXCEPT ![esp].stdio = FALSE]
      /\ page' = q /\ esp0' = q /\ esp' = q
      /\ saved' = saved \ {q}
      /\ live' = live \ {esp}
      /\ ret' = [to |-> q, val |-> HaltStatus]
      /\ exception_halt' = 0
      /\ UNCHANGED <<pid_bitpattern, current_schedule, active_terminal,
                     pcb_terminal, faulted, crashed, interrupts>>
  BY <1>1 DEF HaltChild, OneTaskLess, RunOn, schedVars
<1>5. Shells = NTERM /\ Shells' = NTERM
  BY <1>2 DEF Shells
<1>6. /\ Ring' = (Ring \ {esp}) \cup {q}
      /\ OneSlotEach'
      /\ \A i \in Slots : Occupied(i)' <=> Occupied(i) \/ i = k
      /\ priority_list_pid' \in [Slots -> {Free} \cup Pids]
  BY Zenon, <1>1, <1>2, <1>3, RingPut DEF IInv
<1>7. TaskCount' /\ total_tasks' \in 1..N
  <2>1. ~crashed /\ ~crashed' /\ total_tasks = 1 + Cardinality(live) /\ total_tasks \in 1..N
    BY <1>4 DEF IInv, Chains, TaskCount, TypeOK
  <2>2. IsFiniteSet(live) /\ Cardinality(live) \in Nat
    BY <1>3, LiveFinite
  <2>3. Cardinality(live \ {esp}) = Cardinality(live) - 1
    BY Zenon, <1>2, <2>2, FS_RemoveElement
  <2>4. Cardinality(live \ {esp}) \in Nat
    BY <1>3, LiveFinite
  <2> QED
    BY <1>4, <2>1, <2>2, <2>3, <2>4 DEF TaskCount
<1>8. TypeOK'
  <2>1. pcb' \in [0..N -> PCB]
    <3>1. pcb[esp] \in PCB /\ pcb \in [0..N -> PCB]
      BY DEF IInv, TypeOK
    <3>2. [pcb[esp] EXCEPT !.stdio = FALSE] \in PCB
      BY Zenon, <3>1 DEF PCB
    <3> QED
      BY Zenon, <1>4, <3>1, <3>2
  <2>2. ret' \in [to : 0..N, val : RetVal]
    BY <1>3, <1>4 DEF HaltStatus, RetVal
  <2>3. /\ esp' \in 0..N /\ esp0' \in 0..N /\ page' \in 0..N
        /\ saved' \subseteq 0..N /\ live' \subseteq Pids /\ faulted' \subseteq Pids
    BY SMTT(30), <1>3, <1>4 DEF IInv, TypeOK
  <2>4. /\ pid_bitpattern' \in [Pids -> 0..1] /\ current_schedule' \in -1..N
        /\ active_terminal' \in Terminals /\ pcb_terminal' \in Terminals
        /\ exception_halt' \in 0..1 /\ interrupts' \in 0..1
    BY <1>4 DEF IInv, TypeOK
  <2>5. crashed' \in BOOLEAN /\ schedule_started' \in BOOLEAN
    BY SMTT(30), <1>4, HaltChildIs DEF IInv, TypeOK
  <2> QED
    BY SMTT(30), <1>6, <1>7, <2>1, <2>2, <2>3, <2>4, <2>5 DEF TypeOK
<1>9. RunningSlot'
  BY <1>1, <1>2, <1>4 DEF RunningSlot, IInv, TypeOK
<1>10. Resumable'
  BY <1>4, <1>6 DEF Resumable, IInv
<1>11. Chains'
  <2>1. \A p \in live : /\ pcb'[p].parent = pcb[p].parent
                        /\ pcb'[p].terminal_id = pcb[p].terminal_id
    BY SMTT(30), <1>3, <1>4 DEF IInv, TypeOK, PCB
  <2>2. \A c \in live : pcb[c].parent # esp
    BY SMTT(30), <1>2 DEF IInv, Chains
  <2>3. \A c \in live \ {esp} : pcb[c].parent # q
    <3>1. \A c \in live : pcb[c].parent = q => c > NTERM
      BY SMTT(30), <1>3 DEF IInv, Chains, TypeOK
    <3> QED
      BY SMTT(30), <1>1, <1>2, <3>1 DEF IInv, Chains
  <2>4. \A i \in Slots : Occupied(i)' <=> i < Shells'
    <3>1. Occupied(k)
      BY <1>2, <1>3 DEF Occupied
    <3> QED
      BY <1>5, <1>6, <3>1 DEF IInv, Chains
  <2>5. \A p \in Pids : p <= Shells' => pid_bitpattern'[p] = 1
    BY <1>4, <1>5 DEF IInv, Chains
  <2>6. \A p \in live' : pid_bitpattern'[p] = 1
    BY <1>4 DEF IInv, Chains
  <2>7. Ring' \subseteq live'
    BY <1>1, <1>3, <1>4, <1>6 DEF IInv, Chains
  <2>8. \A c \in live' :
          /\ c <= NTERM => pcb'[c].parent = NoParent
          /\ c > NTERM  => /\ pcb'[c].parent \in live'
                           /\ pcb'[c].terminal_id = pcb'[pcb'[c].parent].terminal_id
    <3> SUFFICES ASSUME NEW c \in live, c # esp
                 PROVE  /\ c <= NTERM => pcb'[c].parent = NoParent
                        /\ c > NTERM  => /\ pcb'[c].parent \in live'
                                         /\ pcb'[c].terminal_id = pcb'[pcb'[c].parent].terminal_id
      BY SMTT(30), <1>4
    <3>1. c > NTERM => pcb[c].parent \in live /\ pcb[c].parent # esp
      BY <2>2 DEF IInv, Chains
    <3> QED
      BY <1>4, <2>1, <3>1 DEF IInv, Chains
  <2>9. \A p \in live' : p \in Ring' <=> \A c \in live' : pcb'[c].parent # p
    <3> SUFFICES ASSUME NEW p \in live, p # esp
                 PROVE  p \in Ring' <=> \A c \in live \ {esp} : pcb[c].parent # p
      BY <1>4, <2>1
    <3>1. CASE p = q
      BY SMTT(30), <1>6, <2>3, <3>1
    <3>2. CASE p # q
      BY <1>1, <1>6, <3>2 DEF IInv, Chains
    <3> QED
      BY <3>1, <3>2
  <2>10. \A c, d \in live' : pcb'[c].parent = pcb'[d].parent /\ c > NTERM => c = d
    BY <1>4, <2>1 DEF IInv, Chains
  <2>11. \A i \in Slots : i < Shells' =>
           pcb'[priority_list_pid'[i]].terminal_id = NTERM - 1 - i
    <3> SUFFICES ASSUME NEW i \in Slots, i < NTERM
                 PROVE  pcb'[priority_list_pid'[i]].terminal_id = NTERM - 1 - i
      BY SMTT(30), <1>5
    <3>1. pcb[priority_list_pid[i]].terminal_id = NTERM - 1 - i /\ Occupied(i)
      BY SMTT(30), <1>5 DEF IInv, Chains
    <3>2. CASE i = k
      <4>1. priority_list_pid'[i] = q
        BY SMTT(30), <1>1, <3>2 DEF IInv, TypeOK
      <4>2. pcb[esp].terminal_id = pcb[q].terminal_id
        BY SMTT(30), <1>1, <1>2 DEF IInv, Chains
      <4> QED
        BY <1>1, <1>2, <2>1, <3>1, <3>2, <4>1, <4>2
    <3>3. CASE i # k
      <4>1. priority_list_pid'[i] = priority_list_pid[i]
        BY SMTT(30), <1>1, <3>3 DEF IInv, TypeOK
      <4>2. priority_list_pid[i] \in live
        BY <3>1, InRing DEF IInv, Chains
      <4> QED
        BY Zenon, <2>1, <3>1, <4>1, <4>2
    <3> QED
      BY <3>2, <3>3
  <2>12. ~crashed' /\ esp' # Boot /\ Shells' # 0
    BY <1>3, <1>4, <1>5 DEF IInv, Chains
  <2> QED
    BY <1>2, <2>4, <2>5, <2>6, <2>7, <2>8, <2>9, <2>10, <2>11, <2>12 DEF Chains
<1> QED
  BY <1>6, <1>7, <1>8, <1>9, <1>10, <1>11 DEF IInv

(* switch_tasks picks a process that is in the ring, and that process can  *)
(* be resumed.                                                             *)
LEMMA SwitchTasksInv ==
  ASSUME Calm, IInv, SwitchTasks
  PROVE  IInv'
<1> USE KernelAssumption
<1>1. PICK s \in NextSlots :
        /\ current_schedule' = s
        /\ pcb_terminal' = pcb[esp].terminal_id
        /\ RunOn(priority_list_pid[s])
        /\ saved' = Suspended \ {priority_list_pid[s]}
        /\ crashed' = (priority_list_pid[s] \notin Suspended)
  BY DEF SwitchTasks, TerminalOut
<1>2. PICK next : next = priority_list_pid[s]
  OBVIOUS
<1>3. s \in Slots /\ Occupied(s) /\ next \in Ring
  BY <1>2, InRing DEF NextSlots
<1>4. Ring \subseteq live /\ live \subseteq Pids /\ next \in Pids
  BY <1>3 DEF IInv, TypeOK, Chains
<1>5. /\ schedule_started
      /\ UNCHANGED <<procVars, schedule_started, active_terminal, errVars>>
  BY DEF SwitchTasks
<1>6. Shells = NTERM /\ Shells' = NTERM
  BY <1>5 DEF Shells
<1>7. Ring' = Ring
  BY <1>5 DEF Ring, Occupied, procVars
<1>8. Ring \subseteq Suspended
  BY DEF IInv, Resumable, Suspended
<1>9. crashed' = FALSE
  <2>1. (next \notin Suspended) = FALSE
    BY <1>3, <1>8
  <2> QED
    BY Zenon, <1>1, <1>2, <2>1
<1>10. TypeOK'
  <2>1. /\ page' \in 0..N /\ esp0' \in 0..N /\ esp' \in 0..N
        /\ current_schedule' \in -1..N
    BY <1>1, <1>2, <1>3, <1>4 DEF RunOn
  <2>3. saved' \subseteq 0..N
    BY Zenon, <1>1 DEF Suspended, IInv, TypeOK
  <2>2. pcb_terminal' \in Terminals
    BY <1>1 DEF IInv, TypeOK, PCB
  <2> QED
    BY Zenon, <1>5, <1>9, <2>1, <2>2, <2>3 DEF IInv, TypeOK, procVars, errVars
<1>11. RunningSlot'
  BY <1>1, <1>3, <1>5 DEF RunningSlot, RunOn, procVars
<1>12. Resumable'
  BY SMTT(30), <1>1, <1>2, <1>7, <1>8 DEF Resumable, RunOn
<1>13. OneSlotEach' /\ TaskCount'
  BY SMTT(40), <1>5 DEF IInv, Chains, OneSlotEach, Occupied, TaskCount, procVars
<1>14. Chains'
  <2>1. esp' # Boot /\ Shells' # 0
    BY <1>1, <1>2, <1>4, <1>6 DEF RunOn
  <2>2. \A i \in Slots : Occupied(i)' <=> Occupied(i)
    BY <1>5 DEF Occupied, procVars
  <2> QED
    BY <1>5, <1>6, <1>7, <1>9, <2>1, <2>2 DEF IInv, Chains, procVars
<1> QED
  BY <1>10, <1>11, <1>12, <1>13, <1>14 DEF IInv

(* Steps that leave the processes, the ring and the CPU alone; the screen  *)
(* may change once the bring-up is over.                                   *)
LEMMA QuietInv ==
  ASSUME IInv, TypeOK',
         UNCHANGED <<procVars, current_schedule, schedule_started, cpuVars>>,
         ~schedule_started => UNCHANGED active_terminal
  PROVE  IInv'
<1>1. Ring' = Ring /\ Shells' = Shells /\ \A i \in Slots : Occupied(i)' <=> Occupied(i)
  BY DEF Ring, Occupied, Shells, procVars
<1>2. RunningSlot' /\ OneSlotEach' /\ TaskCount'
  BY DEF IInv, RunningSlot, OneSlotEach, Occupied, TaskCount, procVars, cpuVars
<1>3. Resumable'
  BY SMTT(30), <1>1 DEF IInv, Resumable, cpuVars
<1>4. Chains'
  BY <1>1 DEF IInv, Chains, procVars, cpuVars
<1> QED
  BY <1>2, <1>3, <1>4 DEF IInv

(* execute never refuses a base shell: there are at most NTERM - 1 tasks   *)
(* when the last of them is started.                                       *)
LEMMA NeverRefused == ASSUME IInv PROVE ~BringUpRefused
<1> SUFFICES ASSUME BringUpRefused PROVE FALSE
  OBVIOUS
<1> USE KernelAssumption
<1>1. ~schedule_started /\ ~crashed /\ total_tasks >= N
  BY SMTT(30) DEF BringUpRefused, Going
<1>2. Shells \in 0..(NTERM - 1)
  BY SMTT(30), <1>1 DEF IInv, Chains, Shells
<1>3. live \subseteq 1..Shells
  BY <1>1, <1>2 DEF IInv, Chains, TypeOK
<1>4. IsFiniteSet(1..Shells) /\ Cardinality(1..Shells) = Shells
  BY <1>2, FS_Interval
<1>5. Cardinality(live) <= Shells
  BY Zenon, <1>3, <1>4, FS_Subset
<1>6. total_tasks = 1 + Cardinality(live) /\ Cardinality(live) \in Nat
  BY <1>1, LiveFinite DEF IInv, TaskCount, TypeOK
<1> QED
  BY <1>1, <1>2, <1>5, <1>6

(* So does every step.                                                     *)
LEMMA NextIInv ==
  ASSUME Calm, IInv, [Next]_vars
  PROVE  IInv'
<1>1. CASE Execute
  BY <1>1, ExecuteInv
<1>2. CASE ExecuteFails
  <2>1. TypeOK'
    <3>1. ret' \in [to : 0..N, val : RetVal]
      BY <1>2 DEF ExecuteFails, IInv, TypeOK, RetVal
    <3> QED
      BY SMTT(30), <1>2, <3>1 DEF ExecuteFails, IInv, TypeOK, procVars, schedVars, cpuVars
  <2> QED
    BY SMTT(30), <1>2, <2>1, QuietInv DEF ExecuteFails, schedVars
<1>3. CASE HaltChild
  BY <1>3, HaltChildInv
<1>4. CASE HaltShell
  BY <1>4 DEF HaltShell, Calm
<1>5. CASE BringUp
  BY <1>5, BringUpInv
<1>6. CASE BringUpRefused
  BY <1>6, NeverRefused
<1>7. CASE SwitchTasks
  BY <1>7, SwitchTasksInv
<1>8. CASE ExecuteFaults \/ PageFault \/ OtherException
  <2>1. /\ faulted' = faulted \cup {esp}
        /\ esp \in Pids
        /\ exception_halt' \in 0..1 /\ interrupts' \in 0..1
        /\ UNCHANGED <<procVars, schedVars, cpuVars, ret>>
    BY <1>8, KernelAssumption DEF UserCode, ExecuteFaults, PageFault, OtherException, IInv, TypeOK
  <2>2. TypeOK'
    BY <2>1 DEF IInv, TypeOK, procVars, schedVars, cpuVars
  <2> QED
    BY <2>1, <2>2, QuietInv DEF schedVars
<1>9. CASE AltFn
  <2>1. TypeOK'
    BY <1>9, KernelAssumption
       DEF AltFn, IInv, TypeOK, Terminals, Wrapped, procVars, cpuVars, errVars
  <2>2. schedule_started
    BY <1>9 DEF AltFn, Calm
  <2> QED
    BY SMTT(30), <1>9, <2>1, <2>2, QuietInv DEF AltFn
<1>10. CASE UNCHANGED vars
  <2>1. TypeOK'
    BY <1>10 DEF IInv, TypeOK, vars, procVars, schedVars, cpuVars, errVars
  <2> QED
    BY <1>10, <2>1, QuietInv DEF vars, schedVars
<1> QED
  BY <1>1, <1>2, <1>3, <1>4, <1>5, <1>6, <1>7, <1>8, <1>9, <1>10 DEF Next, Tick
-----------------------------------------------------------------------------
(* The processes are one chain of parents per terminal, with the ends of   *)
(* the chains in the ring, after any number of execute, halt and           *)
(* switch_tasks calls, page faults and terminal switches.                  *)
THEOREM ChainsAlways ==
  ASSUME Calm PROVE Spec => []IInv
<1>1. IInv /\ [Next]_vars => IInv'
  BY NextIInv
<1> QED
  BY <1>1, InitIInv, PTL DEF Spec

(* The variables of Kernel keep their types: total_tasks never leaves      *)
(* 1..N, the ring holds pids, active_terminal never wraps.                 *)
THEOREM TypesAlways ==
  ASSUME Calm PROVE Spec => []TypeOK
<1>1. IInv => TypeOK
  BY DEF IInv
<1> QED
  BY <1>1, ChainsAlways, PTL

(* current_schedule is the slot of the running process, so the search in   *)
(* switch_tasks always finds a process.                                    *)
THEOREM RunningSlotAlways ==
  ASSUME Calm PROVE Spec => []RunningSlot
<1>1. IInv => RunningSlot
  BY DEF IInv
<1> QED
  BY <1>1, ChainsAlways, PTL

(* Whatever switch_tasks resumes has a saved context that is its latest.   *)
THEOREM ResumableAlways ==
  ASSUME Calm PROVE Spec => []Resumable
<1>1. IInv => Resumable
  BY DEF IInv
<1> QED
  BY <1>1, ChainsAlways, PTL

(* No process is in two ring slots.                                        *)
THEOREM OneSlotEachAlways ==
  ASSUME Calm PROVE Spec => []OneSlotEach
<1>1. IInv => OneSlotEach
  BY SMTT(30) DEF IInv
<1> QED
  BY <1>1, ChainsAlways, PTL

(* execute hands off the processor to the new program until it halts: no   *)
(* process with a live child is ever in the ring.                          *)
THEOREM HandOffAlways ==
  ASSUME Calm PROVE Spec => []HandOff
<1>1. IInv => HandOff
  <2> SUFFICES ASSUME IInv, NEW c \in live, pcb[c].parent # NoParent
               PROVE  pcb[c].parent \notin Ring
    BY SMTT(30) DEF HandOff
  <2>1. pcb[c].parent \in live
    BY KernelAssumption DEF IInv, Chains, TypeOK
  <2> QED
    BY SMTT(30), <2>1 DEF IInv, Chains
<1> QED
  BY <1>1, ChainsAlways, PTL

(* total_tasks counts the processes there are.                             *)
THEOREM TaskCountAlways ==
  ASSUME Calm PROVE Spec => []TaskCount
<1>1. IInv => TaskCount
  BY DEF IInv
<1> QED
  BY <1>1, ChainsAlways, PTL

(* Each terminal has exactly one process of the ring, once scheduling has  *)
(* started.                                                                *)
THEOREM TerminalOwnersAlways ==
  ASSUME Calm PROVE Spec => []TerminalOwners
<1>1. IInv => TerminalOwners
  <2> SUFFICES ASSUME IInv, schedule_started, NEW t \in 0..(NTERM - 1)
               PROVE  Cardinality({p \in Ring : pcb[p].terminal_id = t}) = 1
    BY DEF TerminalOwners
  <2> USE KernelAssumption
  <2>1. PICK i \in Slots : i = NTERM - 1 - t
    OBVIOUS
  <2>2. /\ \A j \in Slots : Occupied(j) <=> j < NTERM
        /\ \A j \in Slots : j < NTERM =>
             pcb[priority_list_pid[j]].terminal_id = NTERM - 1 - j
    BY DEF IInv, Chains, Shells
  <2>3. {p \in Ring : pcb[p].terminal_id = t} = {priority_list_pid[i]}
    BY <2>1, <2>2, InRing
  <2> QED
    BY Zenon, <2>3, FS_Singleton
<1> QED
  BY <1>1, ChainsAlways, PTL

(* execute never hands out the pid of a process that has not halted.       *)
THEOREM UniquePidAlways ==
  ASSUME Calm PROVE Spec => UniquePid
<1>1. IInv /\ [Next]_vars => [total_tasks' > total_tasks => esp' \notin live]_vars
  <2> SUFFICES ASSUME IInv, Next, total_tasks' > total_tasks
               PROVE  esp' \notin live
    OBVIOUS
  <2>1. total_tasks \in Int
    BY KernelAssumption DEF IInv, TypeOK
  <2>2. CASE Execute
    <3>1. PICK pid \in NewPid(pid_bitpattern) : esp' = pid
      BY Zenon, <2>2, ExecuteIs DEF Starts
    <3> QED
      BY <3>1, FreshPid
  <2>3. CASE BringUp
    <3>1. PICK pid \in NewPid(pid_bitpattern) : esp' = pid
      BY <2>3 DEF BringUp, execute, RunOn
    <3> QED
      BY <3>1, FreshPid
  <2>4. CASE HaltShell
    BY <2>4 DEF HaltShell, Calm
  <2>5. CASE HaltChild
    BY <2>1, <2>5 DEF HaltChild, OneTaskLess
  <2>6. CASE SwitchTasks
    BY <2>1, <2>6 DEF SwitchTasks, procVars
  <2>7. CASE ExecuteFails \/ ExecuteFaults \/ BringUpRefused \/ PageFault \/ OtherException \/ AltFn
    BY <2>1, <2>7
       DEF ExecuteFails, ExecuteFaults, BringUpRefused, PageFault, OtherException, AltFn, procVars
  <2> QED
    BY <2>2, <2>3, <2>4, <2>5, <2>6, <2>7 DEF Next, Tick
<1> QED
  BY <1>1, ChainsAlways, PTL DEF Spec, UniquePid

-----------------------------------------------------------------------------
(* The refinement of TerminalStacks.  First the chains of parents, by      *)
(* induction on the pid: a process has a smaller pid than its children.    *)

(* A set of natural numbers that is not empty has a least element.         *)
LEMMA Least == ASSUME NEW T, T \subseteq Nat, T # {} PROVE \E x \in T : \A y \in T : x <= y
<1> DEFINE R == OpToRel(<, Nat)
<1>1. IsWellFoundedOn(R, Nat)
  BY NatLessThanWellFounded
<1>2. \A x, y \in Nat : y < x => <<y, x>> \in R
  BY DEF OpToRel
<1> HIDE DEF R
<1>3. \E x \in T : \A y \in T : ~(<<y, x>> \in R)
  BY <1>1, WFMin
<1>4. PICK x \in T : \A y \in T : ~(<<y, x>> \in R)
  BY <1>3
<1>5. \A y \in T : ~(y < x)
  BY <1>2, <1>4
<1> QED
  BY <1>5

(* Induction, on the set of the numbers that have the property.            *)
LEMMA ByInduction ==
  ASSUME NEW S, 0 \in S, \A n \in Nat : n \in S => n + 1 \in S
  PROVE  Nat \subseteq S
<1> SUFFICES ASSUME ~(Nat \subseteq S) PROVE FALSE
  OBVIOUS
<1> DEFINE T == {n \in Nat : n \notin S}
<1>1. PICK x \in T : \A y \in T : x <= y
  <2>1. T \subseteq Nat /\ T # {}
    OBVIOUS
  <2> HIDE DEF T
  <2> QED
    BY <2>1, Least
<1>2. x # 0 /\ x \in Nat
  OBVIOUS
<1>3. x - 1 \in Nat /\ x - 1 \in S
  BY <1>1, <1>2
<1>4. (x - 1) + 1 \in S
  BY <1>3
<1> QED
  BY <1>1, <1>2, <1>4

(* Each process has a smaller pid than the ones it executed.               *)
Rising(P) == \A p \in 0..N : P[p].parent = NoParent \/ P[p].parent \in 0..(p - 1)

(* What StackOf computes.                                                  *)
LEMMA StackIs ==
  ASSUME NEW P, Rising(P), NEW p \in 0..N
  PROVE  StackOf(P)[p] = IF P[p].parent = NoParent THEN <<p>> ELSE Append(StackOf(P)[P[p].parent], p)
<1> DEFINE val(f, q) == IF P[q].parent = NoParent THEN <<q>> ELSE Append(f[P[q].parent], q)
           IsStack(m, f) == f = [q \in 0..m |-> val(f, q)]
           S == {m \in Nat : m <= N => \E f : IsStack(m, f)}
<1>0. N \in Nat
  BY KernelAssumption
<1>1. 0 \in S
  <2>1. P[0].parent = NoParent
    BY <1>0 DEF Rising
  <2>2. IsStack(0, [q \in 0..0 |-> <<q>>])
    BY <2>1
  <2> HIDE DEF IsStack
  <2> QED
    BY <2>2
<1>2. ASSUME NEW m \in Nat, m \in S PROVE m + 1 \in S
  <2> SUFFICES ASSUME m + 1 <= N PROVE \E f : IsStack(m + 1, f)
    <3> HIDE DEF IsStack
    <3> QED
      OBVIOUS
  <2>1. PICK f : IsStack(m, f)
    <3>1. m <= N
      BY <1>0
    <3> HIDE DEF IsStack
    <3> QED
      BY <1>2, <3>1
  <2> DEFINE g == [q \in 0..(m + 1) |-> IF q = m + 1 THEN val(f, q) ELSE f[q]]
  <2>2. \A q \in 0..(m + 1) : P[q].parent = NoParent \/ P[q].parent \in 0..(q - 1)
    BY <1>0 DEF Rising
  <2>3. \A q \in 0..(m + 1) : g[q] = val(g, q)
    <3> TAKE q \in 0..(m + 1)
    <3>1. P[q].parent # NoParent => P[q].parent \in 0..m /\ P[q].parent # m + 1 /\ P[q].parent \in 0..(m + 1)
      BY <2>2
    <3>2. P[q].parent # NoParent => g[P[q].parent] = f[P[q].parent]
      BY <3>1
    <3>3. CASE q = m + 1
      BY <3>2, <3>3
    <3>4. CASE q # m + 1
      <4>1. q \in 0..m /\ g[q] = f[q]
        BY <3>4
      <4>2. f[q] = val(f, q)
        BY <2>1, <4>1
      <4> QED
        BY <3>2, <4>1, <4>2
    <3> QED
      BY <3>3, <3>4
  <2>4. g = [q \in 0..(m + 1) |-> g[q]]
    OBVIOUS
  <2> HIDE DEF g
  <2>5. IsStack(m + 1, g)
    BY <2>3, <2>4
  <2> HIDE DEF IsStack
  <2> QED
    BY <2>5
<1> HIDE DEF S
<1>3. N \in S
  BY <1>0, <1>1, <1>2, ByInduction
<1>4. IsStack(N, StackOf(P))
  <2>1. \E f : IsStack(N, f)
    <3> HIDE DEF IsStack
    <3> QED
      BY <1>0, <1>3 DEF S
  <2>2. StackOf(P) = CHOOSE f : IsStack(N, f)
    BY DEF StackOf
  <2> HIDE DEF IsStack
  <2> QED
    BY <2>1, <2>2
<1> QED
  BY <1>4

(* The stacks of the pids up to m depend on their parents only.            *)
LEMMA StackSame ==
  ASSUME NEW P, NEW Q, Rising(P), Rising(Q), NEW m \in 0..N,
         \A p \in 0..m : P[p].parent = Q[p].parent
  PROVE  \A p \in 0..m : StackOf(P)[p] = StackOf(Q)[p]
<1> DEFINE Same(k) == \A p \in 0..k : StackOf(P)[p] = StackOf(Q)[p]
           S == {k \in Nat : k <= m => Same(k)}
<1>0. N \in Nat /\ m \in Nat /\ m <= N
  BY KernelAssumption
<1>a. ASSUME NEW p \in 0..m
      PROVE  /\ StackOf(P)[p] = IF P[p].parent = NoParent THEN <<p>> ELSE Append(StackOf(P)[P[p].parent], p)
             /\ StackOf(Q)[p] = IF P[p].parent = NoParent THEN <<p>> ELSE Append(StackOf(Q)[P[p].parent], p)
  <2>1. p \in 0..N
    BY <1>0
  <2>2. P[p].parent = Q[p].parent
    OBVIOUS
  <2> QED
    BY <2>1, <2>2, StackIs
<1>b. ASSUME NEW p \in 0..m
      PROVE  P[p].parent = NoParent \/ P[p].parent \in 0..(p - 1)
  BY <1>0 DEF Rising
<1>1. 0 \in S
  <2>1. 0 \in 0..m
    BY <1>0
  <2>2. P[0].parent = NoParent
    BY <1>b, <2>1
  <2>3. StackOf(P)[0] = StackOf(Q)[0]
    BY <1>a, <2>1, <2>2
  <2> QED
    BY <2>3
<1>2. ASSUME NEW k \in Nat, k \in S PROVE k + 1 \in S
  <2> SUFFICES ASSUME k + 1 <= m PROVE Same(k + 1)
    <3> HIDE DEF Same
    <3> QED
      OBVIOUS
  <2>1. Same(k)
    BY <1>0, <1>2
  <2>2. k + 1 \in 0..m
    BY <1>0
  <2>3. P[k + 1].parent = NoParent \/ P[k + 1].parent \in 0..k
    <3>1. P[k + 1].parent = NoParent \/ P[k + 1].parent \in 0..((k + 1) - 1)
      BY <1>b, <2>2
    <3> QED
      BY <3>1
  <2>4. StackOf(P)[k + 1] = StackOf(Q)[k + 1]
    <3>1. P[k + 1].parent # NoParent => StackOf(P)[P[k + 1].parent] = StackOf(Q)[P[k + 1].parent]
      BY <2>1, <2>3
    <3> QED
      BY <1>a, <2>2, <3>1
  <2> QED
    BY <2>1, <2>4
<1> HIDE DEF S
<1>3. m \in S
  BY <1>0, <1>1, <1>2, ByInduction
<1> QED
  BY <1>0, <1>3 DEF S

(* A stack is made of the process at its end and its ancestors.            *)
LEMMA StackElements ==
  ASSUME NEW P, Rising(P), NEW T \in SUBSET Pids,
         \A p \in T : P[p].parent = NoParent \/ P[p].parent \in T
  PROVE  \A p \in T : StackOf(P)[p] \in Seq(T) /\ Len(StackOf(P)[p]) >= 1
<1> DEFINE Good(q) == StackOf(P)[q] \in Seq(T) /\ Len(StackOf(P)[q]) >= 1
           S == {k \in Nat : \A q \in T : q <= k => Good(q)}
<1>0. N \in Nat /\ T \subseteq 1..N
  BY KernelAssumption
<1>1. 0 \in S
  BY <1>0
<1>2. ASSUME NEW k \in Nat, k \in S PROVE k + 1 \in S
  <2> SUFFICES ASSUME NEW q \in T, q = k + 1 PROVE Good(q)
    <3> HIDE DEF Good
    <3> QED
      BY <1>0, <1>2
  <2>1. q \in 0..N /\ q \in T
    BY <1>0
  <2>2. StackOf(P)[q] = IF P[q].parent = NoParent THEN <<q>> ELSE Append(StackOf(P)[P[q].parent], q)
    BY <2>1, StackIs
  <2>3. CASE P[q].parent = NoParent
    BY <2>2, <2>3
  <2>4. CASE P[q].parent # NoParent
    <3>1. P[q].parent \in T /\ P[q].parent \in 0..(q - 1)
      BY <2>1, <2>4 DEF Rising
    <3>2. P[q].parent <= k
      BY <3>1
    <3>3. Good(P[q].parent)
      BY <1>2, <3>1, <3>2
    <3> QED
      BY <2>1, <2>2, <2>4, <3>3
  <2> QED
    BY <2>3, <2>4
<1> HIDE DEF S
<1>3. Nat \subseteq S
  BY <1>1, <1>2, ByInduction
<1> QED
  BY <1>0, <1>3 DEF S

(* The running totals of the lengths of n stacks.                          *)
Totals(n, some, f) ==
  /\ f \in [0..n -> Int]
  /\ f[0] = 0
  /\ \A i \in 1..n : f[i] = f[i - 1] + Len(some[i])

(* The totals exist, by induction on the number of stacks.                 *)
LEMMA TotalsExist ==
  ASSUME NEW n \in Nat, NEW some, \A i \in 1..n : Len(some[i]) \in Nat
  PROVE  \E f : Totals(n, some, f)
<1> DEFINE S == {m \in Nat : m <= n => \E f : Totals(m, some, f)}
<1>1. 0 \in S
  <2>1. Totals(0, some, [i \in 0..0 |-> 0])
    BY DEF Totals
  <2> QED
    BY <2>1
<1>2. ASSUME NEW m \in Nat, m \in S PROVE m + 1 \in S
  <2> SUFFICES ASSUME m + 1 <= n PROVE \E f : Totals(m + 1, some, f)
    OBVIOUS
  <2>1. PICK f : Totals(m, some, f)
    BY <1>2
  <2> DEFINE g == [i \in 0..(m + 1) |-> IF i = m + 1 THEN f[m] + Len(some[m + 1]) ELSE f[i]]
  <2>2. f[m] \in Int /\ Len(some[m + 1]) \in Nat
    BY <2>1 DEF Totals
  <2>3. g \in [0..(m + 1) -> Int] /\ g[0] = 0
    BY <2>1, <2>2 DEF Totals
  <2>4. ASSUME NEW i \in 1..(m + 1) PROVE g[i] = g[i - 1] + Len(some[i])
    <3>1. CASE i = m + 1
      BY <2>2, <3>1
    <3>2. CASE i # m + 1
      <4>1. i \in 1..m /\ f[i] = f[i - 1] + Len(some[i])
        BY <2>1, <3>2 DEF Totals
      <4> QED
        BY <3>2, <4>1
    <3> QED
      BY <3>1, <3>2
  <2>5. Totals(m + 1, some, g)
    BY <2>3, <2>4 DEF Totals
  <2> QED
    BY <2>5
<1> HIDE DEF S
<1>3. n \in S
  BY <1>1, <1>2, ByInduction
<1> QED
  BY <1>3 DEF S

(* The totals are unique: two that agree so far agree on the next.         *)
LEMMA TotalsAgree ==
  ASSUME NEW n \in Nat, NEW some, NEW f, NEW g, f[0] = g[0],
         \A i \in 1..n : f[i] = f[i - 1] + Len(some[i]) /\ g[i] = g[i - 1] + Len(some[i])
  PROVE  f[n] = g[n]
<1> DEFINE S == {m \in Nat : m <= n => f[m] = g[m]}
<1>1. 0 \in S
  OBVIOUS
<1>2. ASSUME NEW m \in Nat, m \in S PROVE m + 1 \in S
  <2> SUFFICES ASSUME m + 1 <= n PROVE f[m + 1] = g[m + 1]
    OBVIOUS
  <2>1. f[m] = g[m] /\ m + 1 \in 1..n /\ (m + 1) - 1 = m
    BY <1>2
  <2> QED
    BY <2>1
<1> HIDE DEF S
<1>3. n \in S
  BY <1>1, <1>2, ByInduction
<1> QED
  BY <1>3 DEF S

(* Size is the last total.                                                 *)
LEMMA SizeIs ==
  ASSUME NEW some, NEW n \in Nat, Len(some) = n, \A i \in 1..n : Len(some[i]) \in Nat,
         NEW f, Totals(n, some, f)
  PROVE  Stacks!Size(some) = f[n]
<1> DEFINE IsSize(g) == g = [i \in 0..Len(some) |-> IF i = 0 THEN 0 ELSE g[i - 1] + Len(some[i])]
           chosen == CHOOSE g : IsSize(g)
<1>1. IsSize(f)
  <2>1. \A i \in 0..n : f[i] = IF i = 0 THEN 0 ELSE f[i - 1] + Len(some[i])
    BY DEF Totals
  <2>2. f = [i \in 0..n |-> f[i]]
    BY DEF Totals
  <2> QED
    BY <2>1, <2>2
<1>2. IsSize(chosen)
  <2> HIDE DEF IsSize
  <2> QED
    BY <1>1
<1>3. Stacks!Size(some) = chosen[n]
  BY DEF Stacks!Size
<1> HIDE DEF chosen
<1>4. /\ chosen[0] = 0
      /\ \A i \in 1..n : chosen[i] = chosen[i - 1] + Len(some[i])
  BY <1>2
<1>5. /\ f[0] = chosen[0]
      /\ \A i \in 1..n : f[i] = f[i - 1] + Len(some[i]) /\ chosen[i] = chosen[i - 1] + Len(some[i])
  BY <1>4 DEF Totals
<1>6. f[n] = chosen[n]
  BY ONLY n \in Nat, <1>5, TotalsAgree
<1> QED
  BY <1>3, <1>6

(* Only stack k changes its length.                                        *)
LEMMA SizeChange ==
  ASSUME NEW n \in Nat, NEW some, NEW other, Len(some) = n, Len(other) = n,
         \A i \in 1..n : Len(some[i]) \in Nat /\ Len(other[i]) \in Nat,
         NEW k \in 1..n, \A i \in 1..n : i # k => other[i] = some[i]
  PROVE  /\ Stacks!Size(some) \in Int
         /\ Stacks!Size(other) = Stacks!Size(some) + (Len(other[k]) - Len(some[k]))
<1>0. PICK d \in Int : d = Len(other[k]) - Len(some[k])
  <2>1. Len(other[k]) - Len(some[k]) \in Int
    OBVIOUS
  <2> QED
    BY <2>1
<1>1. PICK f : Totals(n, some, f)
  BY TotalsExist
<1> DEFINE g == [i \in 0..n |-> IF i < k THEN f[i] ELSE f[i] + d]
<1>2. \A i \in 0..n : f[i] \in Int
  BY <1>1 DEF Totals
<1>3. g \in [0..n -> Int] /\ g[0] = 0
  BY <1>1, <1>2 DEF Totals
<1>4. ASSUME NEW i \in 1..n PROVE g[i] = g[i - 1] + Len(other[i])
  <2>1. /\ i \in 0..n /\ i - 1 \in 0..n
        /\ f[i] = f[i - 1] + Len(some[i])
        /\ f[i] \in Int /\ f[i - 1] \in Int /\ Len(some[i]) \in Nat
    BY <1>1, <1>2 DEF Totals
  <2>2. CASE i = k
    <3>1. Len(other[i]) = Len(some[i]) + d
      BY <1>0, <2>2
    <3> QED
      BY <2>1, <2>2, <3>1
  <2>3. CASE i # k
    <3>1. other[i] = some[i]
      BY <2>3
    <3>2. CASE i < k
      BY <2>1, <3>1, <3>2
    <3>3. CASE i > k
      BY SMTT(40), <2>1, <3>1, <3>3
    <3> QED
      BY <2>3, <3>2, <3>3
  <2> QED
    BY <2>2, <2>3
<1>5. Totals(n, other, g)
  BY <1>3, <1>4 DEF Totals
<1>6. \A i \in 1..n : Len(other[i]) \in Nat
  OBVIOUS
<1>7. g[n] = f[n] + d /\ f[n] \in Int
  BY <1>2
<1> HIDE DEF g
<1>8. Stacks!Size(some) = f[n]
  BY <1>1, SizeIs
<1>9. Stacks!Size(other) = g[n]
  BY <1>5, <1>6, SizeIs
<1> QED
  BY <1>0, <1>7, <1>8, <1>9

(* One more stack.                                                         *)
LEMMA SizeMore ==
  ASSUME NEW n \in Nat, NEW some, NEW other, Len(some) = n, Len(other) = n + 1,
         \A i \in 1..n : Len(some[i]) \in Nat /\ other[i] = some[i],
         Len(other[n + 1]) \in Nat
  PROVE  Stacks!Size(some) \in Int /\ Stacks!Size(other) = Stacks!Size(some) + Len(other[n + 1])
<1>1. PICK g : Totals(n + 1, other, g)
  <2>1. \A i \in 1..(n + 1) : Len(other[i]) \in Nat
    OBVIOUS
  <2> QED
    BY <2>1, TotalsExist
<1> DEFINE f == [i \in 0..n |-> g[i]]
<1>2. Totals(n, some, f)
  BY <1>1 DEF Totals
<1>3. g[n + 1] = f[n] + Len(other[n + 1]) /\ f[n] \in Int
  <2>1. n + 1 \in 1..(n + 1) /\ (n + 1) - 1 = n /\ n \in 0..(n + 1) /\ n \in 0..n
    OBVIOUS
  <2> QED
    BY <1>1, <2>1 DEF Totals
<1> HIDE DEF f
<1>4. Stacks!Size(some) = f[n]
  BY <1>2, SizeIs
<1>5. Stacks!Size(other) = g[n + 1]
  <2>1. \A i \in 1..(n + 1) : Len(other[i]) \in Nat
    OBVIOUS
  <2> QED
    BY <1>1, <2>1, SizeIs
<1> QED
  BY <1>3, <1>4, <1>5

-----------------------------------------------------------------------------
(* What the refinement needs besides IInv: a parent has a smaller pid than *)
(* its children, because halt of a child leaves its bit set and execute    *)
(* takes the pids in order; and total_tasks counts what is on the stacks.  *)
StackInv ==
  /\ Rising(pcb)
  /\ \A p, q \in Pids : pid_bitpattern[p] = 0 /\ p < q => pid_bitpattern[q] = 0
  /\ Stacks!Size(RingStacks) = total_tasks - 1

(* A list with exactly its first m slots taken has m taken slots.          *)
LEMMA OccupiedCount ==
  ASSUME NEW L, NEW m \in 0..N, \A i \in Slots : L[i] >= 0 <=> i < m
  PROVE  Cardinality({s \in Slots : L[s] >= 0}) = m
<1>1. {s \in Slots : L[s] >= 0} = 0..(m - 1)
  BY KernelAssumption
<1>2. Cardinality(0..(m - 1)) = m
  BY KernelAssumption, FS_Interval
<1> QED
  BY <1>1, <1>2

(* There is one stack per base shell.                                      *)
LEMMA StacksAre ==
  ASSUME IInv
  PROVE  /\ Shells \in 0..NTERM
         /\ RingStacks = [i \in 1..Shells |-> StackOf(pcb)[priority_list_pid[i - 1]]]
         /\ Len(RingStacks) = Shells
<1>1. Shells \in 0..NTERM /\ Shells \in 0..N
  BY KernelAssumption DEF IInv, Chains, Shells
<1>2. \A i \in Slots : priority_list_pid[i] >= 0 <=> i < Shells
  BY DEF IInv, Chains, Occupied
<1>3. Cardinality({s \in Slots : priority_list_pid[s] >= 0}) = Shells
  BY ONLY <1>1, <1>2, OccupiedCount
<1>4. RingStacks = [i \in 1..Shells |-> StackOf(pcb)[priority_list_pid[i - 1]]]
  BY <1>3 DEF RingStacks, Occupied
<1>5. Len(RingStacks) = Shells
  BY <1>1, <1>4
<1> QED
  BY <1>1, <1>4, <1>5

(* The same in the next state.                                             *)
LEMMA StacksAreNext ==
  ASSUME IInv'
  PROVE  /\ RingStacks' = [i \in 1..Shells' |-> StackOf(pcb')[priority_list_pid'[i - 1]]]
         /\ Len(RingStacks') = Shells'
<1>1. Shells' \in 0..NTERM /\ Shells' \in 0..N
  BY KernelAssumption DEF IInv, Chains, Shells
<1>2. \A i \in Slots : priority_list_pid'[i] >= 0 <=> i < Shells'
  BY DEF IInv, Chains, Occupied
<1>3. Cardinality({s \in Slots : priority_list_pid'[s] >= 0}) = Shells'
  BY ONLY <1>1, <1>2, OccupiedCount
<1>4. RingStacks' = [i \in 1..Shells' |-> StackOf(pcb')[priority_list_pid'[i - 1]]]
  BY <1>3 DEF RingStacks, Occupied
<1>5. Len(RingStacks') = Shells'
  BY <1>1, <1>4
<1> QED
  BY <1>4, <1>5

(* What is on the stacks is live.                                          *)
LEMMA StacksHold ==
  ASSUME IInv, StackInv
  PROVE  /\ \A p \in live : StackOf(pcb)[p] \in Seq(live) /\ Len(StackOf(pcb)[p]) \in Nat \ {0}
         /\ \A i \in 1..Shells : /\ priority_list_pid[i - 1] \in live
                                 /\ RingStacks[i] = StackOf(pcb)[priority_list_pid[i - 1]]
                                 /\ Len(RingStacks[i]) \in Nat \ {0}
         /\ Stacks!Stacked \subseteq live
<1>1. live \in SUBSET Pids /\ \A p \in live : pcb[p].parent = NoParent \/ pcb[p].parent \in live
  BY KernelAssumption DEF IInv, TypeOK, Chains
<1>2. \A p \in live : StackOf(pcb)[p] \in Seq(live) /\ Len(StackOf(pcb)[p]) >= 1
  BY <1>1, StackElements DEF StackInv
<1>3. \A p \in live : Len(StackOf(pcb)[p]) \in Nat \ {0}
  BY <1>2
<1>4. ASSUME NEW i \in 1..Shells
      PROVE  /\ priority_list_pid[i - 1] \in live
             /\ RingStacks[i] = StackOf(pcb)[priority_list_pid[i - 1]]
  <2>1. Shells \in 0..NTERM /\ RingStacks = [j \in 1..Shells |-> StackOf(pcb)[priority_list_pid[j - 1]]]
    BY StacksAre
  <2>2. i - 1 \in Slots /\ i - 1 < Shells
    BY KernelAssumption, <2>1
  <2>3. Occupied(i - 1)
    BY <2>2 DEF IInv, Chains
  <2>4. priority_list_pid[i - 1] \in Ring
    BY <2>2, <2>3, InRing
  <2>5. priority_list_pid[i - 1] \in live
    BY <2>4 DEF IInv, Chains
  <2> QED
    BY <2>1, <2>5
<1>5. Stacks!Stacked \subseteq live
  <2>1. DOMAIN RingStacks = 1..Shells
    BY StacksAre
  <2>2. ASSUME NEW i \in 1..Shells, NEW j \in DOMAIN RingStacks[i] PROVE RingStacks[i][j] \in live
    <3>1. RingStacks[i] \in Seq(live)
      BY <1>2, <1>4
    <3> QED
      BY <3>1, <2>2
  <2> QED
    BY <2>1, <2>2 DEF Stacks!Stacked
<1> QED
  BY <1>2, <1>3, <1>4, <1>5

(* A pid with its bit set is below the pid the loop of execute finds.      *)
LEMMA BelowFresh ==
  ASSUME Calm, IInv, StackInv, NEW pid \in NewPid(pid_bitpattern)
  PROVE  /\ pid \in Pids /\ pid \notin live
         /\ \A q \in live : q \in 1..(pid - 1)
         /\ \A q \in Pids : q < pid => pid_bitpattern[q] = 1
<1> USE KernelAssumption
<1>1. pid \in Pids /\ pid_bitpattern[pid] = 0 /\ pid \notin live
  BY FreshPid
<1>2. ASSUME NEW q \in live PROVE q \in 1..(pid - 1)
  <2>1. q \in Pids /\ pid_bitpattern[q] = 1
    BY DEF IInv, TypeOK, Chains
  <2> QED
    BY <1>1, <2>1 DEF StackInv
<1>3. \A j \in Pids : pid_bitpattern[j] = 0 => pid <= j
  BY DEF Calm, NewPid, First
<1>4. \A q \in Pids : q < pid => pid_bitpattern[q] = 1
  BY <1>1, <1>3 DEF IInv, TypeOK
<1> QED
  BY <1>1, <1>2, <1>4

(* Starting a process leaves the stacks of the live ones as they are and   *)
(* gives the new one its parent's with itself on top.                      *)
LEMMA StartsStack ==
  ASSUME Calm, IInv, StackInv, NEW pid \in NewPid(pid_bitpattern),
         NEW k, NEW par, par = NoParent \/ par \in live, NEW term, NEW ctx,
         Starts(pid, k, par, term, ctx)
  PROVE  /\ Rising(pcb')
         /\ \A p, q \in Pids : pid_bitpattern'[p] = 0 /\ p < q => pid_bitpattern'[q] = 0
         /\ \A p \in live : StackOf(pcb')[p] = StackOf(pcb)[p]
         /\ StackOf(pcb')[pid] = IF par = NoParent THEN <<pid>> ELSE Append(StackOf(pcb)[par], pid)
<1> USE KernelAssumption
<1>1. /\ pid \in Pids /\ pid \notin live
      /\ \A q \in live : q \in 1..(pid - 1)
      /\ \A q \in Pids : q < pid => pid_bitpattern[q] = 1
  BY BelowFresh
<1>2. /\ pcb \in [0..N -> PCB] /\ pid_bitpattern \in [Pids -> 0..1]
      /\ Rising(pcb)
      /\ \A p, q \in Pids : pid_bitpattern[p] = 0 /\ p < q => pid_bitpattern[q] = 0
  BY DEF IInv, TypeOK, StackInv
<1>3. \A p \in 0..N : pcb'[p].parent = IF p = pid THEN par ELSE pcb[p].parent
  BY <1>1, <1>2 DEF Starts
<1>4. Rising(pcb')
  BY <1>1, <1>2, <1>3 DEF Rising
<1>5. \A p, q \in Pids : pid_bitpattern'[p] = 0 /\ p < q => pid_bitpattern'[q] = 0
  <2>1. \A p \in Pids : pid_bitpattern'[p] = IF p = pid THEN 1 ELSE pid_bitpattern[p]
    BY <1>1, <1>2 DEF Starts
  <2> QED
    BY <1>1, <1>2, <2>1
<1>6. \A p \in 0..(pid - 1) : StackOf(pcb')[p] = StackOf(pcb)[p]
  <2>1. pid - 1 \in 0..N
    BY <1>1
  <2>2. \A p \in 0..(pid - 1) : pcb'[p].parent = pcb[p].parent
    BY <1>1, <1>3
  <2>3. Rising(pcb)
    BY <1>2
  <2> QED
    BY ONLY <1>4, <2>1, <2>2, <2>3, StackSame
<1>7. \A p \in live : StackOf(pcb')[p] = StackOf(pcb)[p]
  BY <1>1, <1>6
<1>8. pid \in 0..N /\ pcb'[pid].parent = par
  BY <1>1, <1>3
<1>9. StackOf(pcb')[pid] = IF par = NoParent THEN <<pid>> ELSE Append(StackOf(pcb')[par], pid)
  BY <1>4, <1>8, StackIs
<1> QED
  BY <1>4, <1>5, <1>7, <1>9

(* A tick of the bring-up starts the stack of the next terminal.           *)
LEMMA BringUpStarts ==
  ASSUME Calm, IInv, StackInv, IInv', BringUp
  PROVE  Stacks!StartShell /\ StackInv'
<1> USE KernelAssumption
<1>1. /\ ~schedule_started /\ active_terminal' = active_terminal - 1
      /\ schedule_started' = (active_terminal' = 0)
      /\ Shells \in 0..(NTERM - 1)
      /\ Starts(Shells + 1, Shells, NoParent, active_terminal - 1, Suspended)
  BY BringUpIs
<1> DEFINE n == Shells
           pid == n + 1
<1>2. pid \in NewPid(pid_bitpattern)
  <2>1. PICK q \in NewPid(pid_bitpattern) : TRUE
    BY Zenon DEF BringUp, execute
  <2> QED
    BY <1>1, <2>1, FreshPid
<1>3. pid \in Pids /\ pid \notin live
  BY <1>2, BelowFresh
<1>4. Shells' = n + 1
  <2>1. n = NTERM - active_terminal /\ active_terminal \in 1..NTERM
    BY <1>1 DEF Shells, IInv, Chains
  <2>2. schedule_started' <=> active_terminal' = 0
    BY Zenon, <1>1
  <2>3. Shells' = NTERM - active_terminal'
    BY <1>1, <2>1, <2>2 DEF Shells
  <2> QED
    BY <1>1, <2>1, <2>3
<1>5. /\ Rising(pcb')
      /\ \A p, q \in Pids : pid_bitpattern'[p] = 0 /\ p < q => pid_bitpattern'[q] = 0
      /\ \A p \in live : StackOf(pcb')[p] = StackOf(pcb)[p]
      /\ StackOf(pcb')[pid] = <<pid>>
  BY <1>1, <1>2, StartsStack
<1>6. /\ RingStacks = [i \in 1..n |-> StackOf(pcb)[priority_list_pid[i - 1]]]
      /\ Len(RingStacks) = n
  BY StacksAre
<1>7. /\ RingStacks' = [i \in 1..(n + 1) |-> StackOf(pcb')[priority_list_pid'[i - 1]]]
      /\ Len(RingStacks') = n + 1
  BY <1>4, StacksAreNext
<1>8. /\ \A i \in 1..n : /\ priority_list_pid[i - 1] \in live
                         /\ RingStacks[i] = StackOf(pcb)[priority_list_pid[i - 1]]
                         /\ Len(RingStacks[i]) \in Nat \ {0}
      /\ Stacks!Stacked \subseteq live
  BY StacksHold
<1>9. \A i \in Slots : priority_list_pid'[i] = IF i = n THEN pid ELSE priority_list_pid[i]
  BY <1>1 DEF Starts, IInv, TypeOK
<1> HIDE DEF n, pid
<1>10. \A i \in 1..n : RingStacks'[i] = RingStacks[i]
  <2> TAKE i \in 1..n
  <2>1. n \in 0..(NTERM - 1)
    BY <1>1 DEF n
  <2>2. i - 1 \in Slots /\ i - 1 # n /\ i \in 1..(n + 1)
    BY <2>1
  <2>3. RingStacks'[i] = StackOf(pcb')[priority_list_pid[i - 1]]
    BY <1>7, <1>9, <2>2
  <2> QED
    BY <1>5, <1>8, <2>3
<1>11. RingStacks'[n + 1] = <<pid>>
  <2>1. n \in 0..(NTERM - 1)
    BY <1>1 DEF n
  <2>2. (n + 1) - 1 = n /\ n \in Slots /\ n + 1 \in 1..(n + 1)
    BY <2>1
  <2> QED
    BY <1>5, <1>7, <1>9, <2>2
<1>12. RingStacks' = Append(RingStacks, <<pid>>)
  <2>1. n \in Nat
    BY <1>1 DEF n
  <2>2. Append(RingStacks, <<pid>>) = [i \in 1..(n + 1) |-> IF i = n + 1 THEN <<pid>> ELSE RingStacks[i]]
    BY <1>6, <2>1
  <2>3. RingStacks' = [i \in 1..(n + 1) |-> RingStacks'[i]]
    BY <1>7
  <2> QED
    BY <1>10, <1>11, <2>1, <2>2, <2>3
<1>13. current_schedule' + 1 = n + 1
  BY <1>1 DEF Starts, n
<1>14. Stacks!StartShell
  <2>1. n < NTERM
    BY <1>1 DEF n
  <2> QED
    BY <1>3, <1>6, <1>7, <1>8, <1>12, <1>13, <2>1 DEF Stacks!StartShell
<1>15. Stacks!Size(RingStacks') = Stacks!Size(RingStacks) + 1 /\ Stacks!Size(RingStacks) \in Int
  <2>1. n \in Nat
    BY <1>1 DEF n
  <2>2. Len(RingStacks'[n + 1]) = 1
    BY <1>11
  <2>3. \A i \in 1..n : Len(RingStacks[i]) \in Nat /\ RingStacks'[i] = RingStacks[i]
    BY <1>8, <1>10
  <2>4. Len(RingStacks'[n + 1]) \in Nat
    BY ONLY <2>2
  <2>6. Len(RingStacks) = n
    BY Zenon, <1>6
  <2>7. Len(RingStacks') = n + 1
    BY Zenon, <1>7
  <2>5. /\ Stacks!Size(RingStacks) \in Int
        /\ Stacks!Size(RingStacks') = Stacks!Size(RingStacks) + Len(RingStacks'[n + 1])
    BY ONLY <2>1, <2>3, <2>4, <2>6, <2>7, SizeMore
  <2> QED
    BY ONLY <2>2, <2>5
<1>16. total_tasks' = total_tasks + 1 /\ total_tasks \in Int
  BY SMTT(40), <1>1 DEF Starts, IInv, TypeOK
<1>17. Stacks!Size(RingStacks') = total_tasks' - 1
  BY <1>15, <1>16 DEF StackInv
<1> QED
  BY <1>5, <1>14, <1>17 DEF StackInv

(* Once the base shells are up there is one stack per terminal, and the    *)
(* running process is on top of the stack whose turn it is.                *)
LEMMA RunningOnTop ==
  ASSUME IInv, StackInv, schedule_started
  PROVE  /\ Shells = NTERM /\ esp # Boot
         /\ current_schedule \in 0..(NTERM - 1)
         /\ priority_list_pid[current_schedule] = esp
         /\ esp \in live
<1> USE KernelAssumption
<1>1. Shells = NTERM /\ esp # Boot
  BY DEF Shells, IInv, Chains
<1>2. current_schedule \in Slots /\ priority_list_pid[current_schedule] = esp
  BY <1>1 DEF IInv, RunningSlot, Chains
<1>3. esp \in 0..N
  BY DEF IInv, TypeOK
<1>4. Occupied(current_schedule)
  BY <1>2, <1>3 DEF Occupied
<1>5. current_schedule \in 0..(NTERM - 1)
  BY <1>1, <1>2, <1>4 DEF IInv, Chains
<1>6. esp \in Ring
  BY <1>2, <1>4, InRing
<1> QED
  BY <1>1, <1>2, <1>5, <1>6 DEF IInv, Chains

(* Changing the process in the running slot changes the one stack.         *)
LEMMA OneStack ==
  ASSUME IInv, StackInv, IInv', schedule_started, schedule_started',
         NEW q, priority_list_pid' = [priority_list_pid EXCEPT ![current_schedule] = q],
         \A p \in live : StackOf(pcb')[p] = StackOf(pcb)[p]
  PROVE  /\ RingStacks' = [RingStacks EXCEPT ![current_schedule + 1] = StackOf(pcb')[q]]
         /\ Len(RingStacks) = NTERM
         /\ Len(RingStacks') = NTERM
         /\ RingStacks[current_schedule + 1] = StackOf(pcb)[esp]
         /\ RingStacks'[current_schedule + 1] = StackOf(pcb')[q]
         /\ \A i \in 1..NTERM : i # current_schedule + 1 => RingStacks'[i] = RingStacks[i]
<1> USE KernelAssumption
<1> DEFINE c == current_schedule
<1>1. Shells = NTERM /\ c \in 0..(NTERM - 1) /\ priority_list_pid[c] = esp
  BY RunningOnTop
<1>2. Shells' = NTERM
  BY DEF Shells
<1>3. /\ RingStacks = [i \in 1..NTERM |-> StackOf(pcb)[priority_list_pid[i - 1]]]
      /\ Len(RingStacks) = NTERM
  BY <1>1, StacksAre
<1>4. /\ RingStacks' = [i \in 1..NTERM |-> StackOf(pcb')[priority_list_pid'[i - 1]]]
      /\ Len(RingStacks') = NTERM
  BY <1>2, StacksAreNext
<1>5. \A i \in Slots : priority_list_pid'[i] = IF i = c THEN q ELSE priority_list_pid[i]
  BY <1>1 DEF IInv, TypeOK
<1>6. \A i \in 1..NTERM : priority_list_pid[i - 1] \in live
  BY <1>1, StacksHold
<1> HIDE DEF c
<1>7. RingStacks[c + 1] = StackOf(pcb)[esp] /\ RingStacks'[c + 1] = StackOf(pcb')[q]
  <2>1. c + 1 \in 1..NTERM /\ (c + 1) - 1 = c /\ c \in Slots
    BY <1>1
  <2> QED
    BY <1>1, <1>3, <1>4, <1>5, <2>1
<1>8. ASSUME NEW i \in 1..NTERM, i # c + 1 PROVE RingStacks'[i] = RingStacks[i]
  <2>1. i - 1 \in Slots /\ i - 1 # c
    BY <1>1, <1>8
  <2>2. priority_list_pid'[i - 1] = priority_list_pid[i - 1]
    BY <1>5, <2>1
  <2> QED
    BY <1>3, <1>4, <1>6, <2>2
<1>9. RingStacks' = [RingStacks EXCEPT ![c + 1] = StackOf(pcb')[q]]
  <2>1. /\ RingStacks = [i \in 1..NTERM |-> RingStacks[i]]
        /\ RingStacks' = [i \in 1..NTERM |-> RingStacks'[i]]
    BY <1>3, <1>4
  <2> QED
    BY <1>7, <1>8, <2>1
<1> QED
  BY <1>3, <1>4, <1>7, <1>8, <1>9 DEF c

(* The execute system call pushes a program nobody has.                    *)
LEMMA ExecutePushes ==
  ASSUME Calm, IInv, StackInv, IInv', Execute
  PROVE  Stacks!Push /\ StackInv'
<1> USE KernelAssumption
<1>1. schedule_started /\ schedule_started'
  BY ExecuteIs
<1>2. PICK pid \in NewPid(pid_bitpattern) :
        Starts(pid, current_schedule, esp, pcb[esp].terminal_id, saved)
  BY ExecuteIs
<1>3. pid \in Pids /\ pid \notin live
  BY BelowFresh
<1>4. esp \in live /\ esp # NoParent /\ current_schedule \in 0..(NTERM - 1)
  BY SMTT(40), <1>1, RunningOnTop DEF IInv, TypeOK
<1>5. /\ Rising(pcb')
      /\ \A p, q \in Pids : pid_bitpattern'[p] = 0 /\ p < q => pid_bitpattern'[q] = 0
      /\ \A p \in live : StackOf(pcb')[p] = StackOf(pcb)[p]
      /\ StackOf(pcb')[pid] = Append(StackOf(pcb)[esp], pid)
  BY <1>2, <1>4, StartsStack
<1> DEFINE t == current_schedule + 1
<1>6. priority_list_pid' = [priority_list_pid EXCEPT ![current_schedule] = pid]
  BY <1>2 DEF Starts
<1>7. /\ RingStacks' = [RingStacks EXCEPT ![t] = StackOf(pcb')[pid]]
      /\ Len(RingStacks) = NTERM
      /\ Len(RingStacks') = NTERM
      /\ RingStacks[t] = StackOf(pcb)[esp]
      /\ RingStacks'[t] = StackOf(pcb')[pid]
      /\ \A i \in 1..NTERM : i # t => RingStacks'[i] = RingStacks[i]
  BY <1>1, <1>5, <1>6, OneStack
<1>8. /\ total_tasks < N /\ total_tasks' = total_tasks + 1 /\ total_tasks \in Int
      /\ current_schedule' = current_schedule
  BY SMTT(40), <1>2 DEF Starts, IInv, TypeOK
<1>9. /\ StackOf(pcb)[esp] \in Seq(live)
      /\ \A i \in 1..NTERM : Len(RingStacks[i]) \in Nat
      /\ Stacks!Stacked \subseteq live
  BY <1>1, <1>4, StacksHold, RunningOnTop
<1>10. Stacks!Push
  <2>1. Stacks!Room
    BY <1>8 DEF Stacks!Room, StackInv
  <2>2. RingStacks' = [RingStacks EXCEPT ![t] = Append(RingStacks[t], pid)]
    BY Zenon, <1>5, <1>7
  <2> QED
    BY <1>3, <1>7, <1>8, <1>9, <2>1, <2>2 DEF Stacks!Push
<1>11. Stacks!Size(RingStacks') = Stacks!Size(RingStacks) + 1
  <2>1. NTERM \in Nat /\ t \in 1..NTERM
    BY <1>4
  <2>2. Len(RingStacks'[t]) = Len(RingStacks[t]) + 1 /\ Len(RingStacks'[t]) \in Nat
    <3>1. Len(Append(StackOf(pcb)[esp], pid)) = Len(StackOf(pcb)[esp]) + 1 /\ Len(StackOf(pcb)[esp]) \in Nat
      BY <1>3, <1>9
    <3>2. RingStacks'[t] = Append(StackOf(pcb)[esp], pid) /\ RingStacks[t] = StackOf(pcb)[esp]
      BY Zenon, <1>5, <1>7
    <3> QED
      BY ONLY <3>1, <3>2
  <2>3. Len(RingStacks) = NTERM /\ Len(RingStacks') = NTERM
    BY Zenon, <1>7
  <2>4. \A i \in 1..NTERM : i # t => RingStacks'[i] = RingStacks[i]
    BY Zenon, <1>7
  <2>5. \A i \in 1..NTERM : Len(RingStacks[i]) \in Nat
    BY <1>9
  <2> HIDE DEF t
  <2>6. \A i \in 1..NTERM : Len(RingStacks[i]) \in Nat /\ Len(RingStacks'[i]) \in Nat
    BY ONLY <2>1, <2>2, <2>4, <2>5
  <2>7. /\ Stacks!Size(RingStacks) \in Int
        /\ Stacks!Size(RingStacks') = Stacks!Size(RingStacks) + (Len(RingStacks'[t]) - Len(RingStacks[t]))
    BY ONLY <2>1, <2>3, <2>4, <2>6, SizeChange
  <2> QED
    BY ONLY <2>1, <2>2, <2>6, <2>7
<1>12. Stacks!Size(RingStacks') = total_tasks' - 1
  BY <1>8, <1>11 DEF StackInv
<1> QED
  BY <1>5, <1>10, <1>12 DEF StackInv

(* halt of a child pops it.                                                *)
LEMMA HaltPops ==
  ASSUME Calm, IInv, StackInv, IInv', HaltChild
  PROVE  Stacks!Pop /\ StackInv'
<1> USE KernelAssumption
<1> DEFINE par == pcb[esp].parent
           t == current_schedule + 1
<1>1. /\ schedule_started /\ schedule_started'
      /\ esp \in live /\ par \in live
      /\ priority_list_pid' = [priority_list_pid EXCEPT ![current_schedule] = par]
  BY HaltChildIs
<1>2. /\ total_tasks' = total_tasks - 1
      /\ pid_bitpattern' = pid_bitpattern
      /\ current_schedule' = current_schedule
      /\ pcb' = [pcb EXCEPT ![esp].stdio = FALSE]
  BY DEF HaltChild, OneTaskLess, schedVars
<1>3. live \subseteq Pids /\ pcb \in [0..N -> PCB] /\ total_tasks \in Int
  BY DEF IInv, TypeOK
<1>4. \A p \in 0..N : pcb'[p].parent = pcb[p].parent
  BY <1>2, <1>3 DEF PCB
<1>5. Rising(pcb) /\ Rising(pcb')
  BY <1>4 DEF StackInv, Rising
<1>6. \A p \in 0..N : StackOf(pcb')[p] = StackOf(pcb)[p]
  <2>1. N \in 0..N
    OBVIOUS
  <2> QED
    BY ONLY <1>4, <1>5, <2>1, StackSame
<1>7. \A p \in live : StackOf(pcb')[p] = StackOf(pcb)[p]
  BY <1>3, <1>6
<1>8. /\ RingStacks' = [RingStacks EXCEPT ![t] = StackOf(pcb')[par]]
      /\ Len(RingStacks) = NTERM
      /\ Len(RingStacks') = NTERM
      /\ RingStacks[t] = StackOf(pcb)[esp]
      /\ RingStacks'[t] = StackOf(pcb')[par]
      /\ \A i \in 1..NTERM : i # t => RingStacks'[i] = RingStacks[i]
  BY <1>1, <1>7, OneStack
<1>9. /\ StackOf(pcb)[par] \in Seq(live) /\ Len(StackOf(pcb)[par]) \in Nat \ {0}
      /\ \A i \in 1..NTERM : Len(RingStacks[i]) \in Nat
      /\ current_schedule \in 0..(NTERM - 1)
  BY <1>1, StacksHold, RunningOnTop
<1>10. StackOf(pcb)[esp] = Append(StackOf(pcb)[par], esp)
  <2>1. esp \in 0..N /\ par # NoParent
    BY <1>1, <1>3
  <2> QED
    BY <1>5, <2>1, StackIs
<1>11. StackOf(pcb')[par] = StackOf(pcb)[par]
  BY <1>1, <1>7
<1>12. /\ Len(StackOf(pcb)[esp]) = Len(StackOf(pcb)[par]) + 1
       /\ SubSeq(StackOf(pcb)[esp], 1, Len(StackOf(pcb)[esp]) - 1) = StackOf(pcb)[par]
  <2> DEFINE s == StackOf(pcb)[par]
  <2>1. s \in Seq(live)
    BY <1>9
  <2>2. StackOf(pcb)[esp] = Append(s, esp)
    BY <1>10
  <2> HIDE DEF s
  <2>3. Len(Append(s, esp)) = Len(s) + 1 /\ Len(s) \in Nat
    BY <1>1, <2>1
  <2>4. SubSeq(Append(s, esp), 1, Len(s)) = s
    BY <1>1, <2>1
  <2> QED
    BY <2>2, <2>3, <2>4 DEF s
<1>13. Stacks!Pop
  <2>1. Len(RingStacks[t]) > 1
    BY <1>8, <1>9, <1>12
  <2>2. RingStacks' = [RingStacks EXCEPT ![t] = SubSeq(RingStacks[t], 1, Len(RingStacks[t]) - 1)]
    BY Zenon, <1>8, <1>11, <1>12
  <2> QED
    BY <1>2, <1>8, <2>1, <2>2 DEF Stacks!Pop
<1>14. Stacks!Size(RingStacks') = Stacks!Size(RingStacks) - 1
  <2>1. NTERM \in Nat /\ t \in 1..NTERM
    BY <1>9
  <2>2. Len(RingStacks'[t]) = Len(RingStacks[t]) - 1 /\ Len(RingStacks'[t]) \in Nat
    <3>1. RingStacks'[t] = StackOf(pcb)[par] /\ RingStacks[t] = StackOf(pcb)[esp]
      BY Zenon, <1>8, <1>11
    <3> QED
      BY ONLY <1>9, <1>12, <3>1
  <2>3. Len(RingStacks) = NTERM /\ Len(RingStacks') = NTERM
    BY Zenon, <1>8
  <2>4. \A i \in 1..NTERM : i # t => RingStacks'[i] = RingStacks[i]
    BY Zenon, <1>8
  <2>5. \A i \in 1..NTERM : Len(RingStacks[i]) \in Nat
    BY <1>9
  <2> HIDE DEF t
  <2>6. \A i \in 1..NTERM : Len(RingStacks[i]) \in Nat /\ Len(RingStacks'[i]) \in Nat
    BY ONLY <2>1, <2>2, <2>4, <2>5
  <2>7. /\ Stacks!Size(RingStacks) \in Int
        /\ Stacks!Size(RingStacks') = Stacks!Size(RingStacks) + (Len(RingStacks'[t]) - Len(RingStacks[t]))
    BY ONLY <2>1, <2>3, <2>4, <2>6, SizeChange
  <2> QED
    BY ONLY <2>1, <2>2, <2>6, <2>7
<1>15. Stacks!Size(RingStacks') = total_tasks' - 1
  BY <1>2, <1>3, <1>14 DEF StackInv
<1> QED
  BY <1>2, <1>5, <1>13, <1>15 DEF StackInv

(* Remainders of the small differences the search of switch_tasks takes.   *)
LEMMA SmallMod ==
  ASSUME NEW n \in Nat \ {0}, NEW a \in Int
  PROVE  /\ a \in 0..(n - 1) => (a % n) = a
         /\ a \in (-n)..(-1) => (a % n) = a + n
OBVIOUS

(* The search of switch_tasks ends at the next terminal's slot, or at slot *)
(* 0 after the last one.                                                   *)
LEMMA NextSlotIs ==
  ASSUME IInv, StackInv, schedule_started, NEW s \in NextSlots
  PROVE  s = IF current_schedule = NTERM - 1 THEN 0 ELSE current_schedule + 1
<1> USE KernelAssumption
<1> DEFINE c == current_schedule
<1>1. Shells = NTERM /\ c \in 0..(NTERM - 1)
  BY RunningOnTop
<1>2. \A i \in Slots : Occupied(i) <=> i \in 0..(NTERM - 1)
  BY <1>1 DEF IInv, Chains
<1>3. s \in 0..(NTERM - 1) /\ \A i \in 0..(NTERM - 1) : Steps(s) <= Steps(i)
  BY <1>2 DEF NextSlots
<1>4. N \in Nat \ {0}
  OBVIOUS
<1>5. ASSUME NEW i \in 0..(NTERM - 1)
      PROVE  Steps(i) = IF i >= c + 1 THEN i - (c + 1) ELSE (i - (c + 1)) + N
  <2>1. i - (c + 1) \in Int
    BY <1>1
  <2>2. i >= c + 1 => i - (c + 1) \in 0..(N - 1)
    BY <1>1
  <2>3. ~(i >= c + 1) => i - (c + 1) \in (-N)..(-1)
    BY <1>1
  <2>4. Steps(i) = (i - (c + 1)) % N
    BY DEF Steps
  <2> HIDE DEF c
  <2>5. PICK a \in Int : a = i - (c + 1)
    BY <2>1
  <2>6. /\ a \in 0..(N - 1) => (a % N) = a
        /\ a \in (-N)..(-1) => (a % N) = a + N
    BY <1>4, SmallMod
  <2> QED
    BY <2>2, <2>3, <2>4, <2>5, <2>6
<1> HIDE DEF c
<1>6. CASE c = NTERM - 1
  <2>1. 0 \in 0..(NTERM - 1) /\ Steps(0) = N - NTERM
    BY <1>5, <1>6
  <2>2. Steps(s) = (s - NTERM) + N
    BY <1>3, <1>5, <1>6
  <2>3. Steps(s) <= Steps(0)
    BY <1>3, <2>1
  <2> QED
    BY <1>3, <1>6, <2>1, <2>2, <2>3 DEF c
<1>7. CASE c # NTERM - 1
  <2>1. c + 1 \in 0..(NTERM - 1)
    BY <1>1, <1>7
  <2>2. Steps(c + 1) = 0
    BY <1>1, <1>5, <2>1
  <2>3. Steps(s) <= 0
    BY <1>3, <2>1, <2>2
  <2>4. Steps(s) = IF s >= c + 1 THEN s - (c + 1) ELSE (s - (c + 1)) + N
    BY <1>3, <1>5
  <2>5. s = c + 1
    BY <1>1, <1>3, <2>1, <2>3, <2>4
  <2> QED
    BY <1>7, <2>5 DEF c
<1> QED
  BY <1>6, <1>7

(* What leaves the list and the parents alone leaves the stacks alone.     *)
LEMMA SameStacks ==
  ASSUME StackInv, UNCHANGED procVars
  PROVE  RingStacks' = RingStacks /\ StackInv'
<1>1. /\ pcb' = pcb /\ priority_list_pid' = priority_list_pid
      /\ pid_bitpattern' = pid_bitpattern /\ total_tasks' = total_tasks
  BY DEF procVars
<1>2. RingStacks' = RingStacks
  BY <1>1 DEF RingStacks, Occupied
<1>3. Rising(pcb')
  BY <1>1 DEF StackInv
<1> QED
  BY <1>1, <1>2, <1>3 DEF StackInv

(* switch_tasks passes the turn to the next stack.                         *)
LEMMA SwitchRotates ==
  ASSUME IInv, StackInv, SwitchTasks
  PROVE  Stacks!Rotate /\ StackInv'
<1> USE KernelAssumption
<1>1. schedule_started /\ UNCHANGED procVars
  BY DEF SwitchTasks
<1>2. PICK s \in NextSlots : current_schedule' = s
  BY DEF SwitchTasks
<1>3. s = IF current_schedule = NTERM - 1 THEN 0 ELSE current_schedule + 1
  BY <1>1, NextSlotIs
<1>4. Shells = NTERM /\ current_schedule \in 0..(NTERM - 1)
  BY <1>1, RunningOnTop
<1>5. Len(RingStacks) = NTERM
  BY <1>4, StacksAre
<1>6. RingStacks' = RingStacks /\ StackInv'
  BY <1>1, SameStacks
<1>7. current_schedule' + 1 = ((current_schedule + 1) % NTERM) + 1
  <2>1. PICK a \in Int : a = current_schedule + 1
    BY <1>4
  <2>2. a \in 0..(NTERM - 1) => (a % NTERM) = a
    BY SmallMod
  <2>3. CASE current_schedule = NTERM - 1
    <3>1. a = NTERM /\ s = 0
      BY <1>3, <2>1, <2>3
    <3>2. (NTERM % NTERM) = 0
      OBVIOUS
    <3> QED
      BY <1>2, <2>1, <3>1, <3>2
  <2>4. CASE current_schedule # NTERM - 1
    <3>1. a \in 0..(NTERM - 1) /\ s = a
      BY <1>3, <1>4, <2>1, <2>4
    <3> QED
      BY <1>2, <2>1, <2>2, <3>1
  <2> QED
    BY <2>3, <2>4
<1>8. Stacks!Rotate
  BY <1>5, <1>6, <1>7 DEF Stacks!Rotate
<1> QED
  BY <1>6, <1>8

(* Before the first tick there are no stacks.                              *)
LEMMA InitStacks == Init => Stacks!Init /\ StackInv
<1> SUFFICES ASSUME Init PROVE Stacks!Init /\ StackInv
  OBVIOUS
<1> USE KernelAssumption
<1>1. IInv
  BY InitIInv
<1>2. Shells = 0
  BY DEF Init, Shells
<1>3. RingStacks = <<>> /\ Len(RingStacks) = 0
  BY <1>1, <1>2, StacksAre
<1>4. Stacks!Init
  BY <1>3 DEF Init, Stacks!Init
<1>5. Rising(pcb)
  BY DEF Init, NoPCB, Rising
<1>6. \A p, q \in Pids : pid_bitpattern[p] = 0 /\ p < q => pid_bitpattern[q] = 0
  BY DEF Init
<1>7. Stacks!Size(RingStacks) = 0
  <2>1. Totals(0, RingStacks, [i \in 0..0 |-> 0])
    BY DEF Totals
  <2>2. \A i \in 1..0 : Len(RingStacks[i]) \in Nat
    OBVIOUS
  <2>3. 0 \in Nat /\ [i \in 0..0 |-> 0][0] = 0
    OBVIOUS
  <2> QED
    BY <1>3, <2>1, <2>2, <2>3, SizeIs
<1>8. total_tasks = 1
  BY DEF Init
<1> QED
  BY <1>4, <1>5, <1>6, <1>7, <1>8 DEF StackInv

(* Every step of the kernel is a step of TerminalStacks or leaves the      *)
(* stacks alone.                                                           *)
LEMMA NextStacks ==
  ASSUME Calm, IInv, IInv', StackInv, [Next]_vars
  PROVE  StackInv' /\ [Stacks!Next]_(Stacks!vars)
<1>1. CASE Execute
  BY <1>1, ExecutePushes DEF Stacks!Next
<1>2. CASE HaltChild
  BY <1>2, HaltPops DEF Stacks!Next
<1>3. CASE HaltShell
  BY <1>3 DEF HaltShell, Calm
<1>4. CASE BringUp
  BY <1>4, BringUpStarts DEF Stacks!Next
<1>5. CASE BringUpRefused
  BY <1>5, NeverRefused
<1>6. CASE SwitchTasks
  BY <1>6, SwitchRotates DEF Stacks!Next
<1>7. ASSUME UNCHANGED procVars, current_schedule' = current_schedule
      PROVE  StackInv' /\ [Stacks!Next]_(Stacks!vars)
  BY <1>7, SameStacks DEF Stacks!vars
<1>8. CASE ExecuteFails \/ ExecuteFaults \/ PageFault \/ OtherException
  BY <1>7, <1>8 DEF ExecuteFails, ExecuteFaults, PageFault, OtherException, schedVars
<1>9. CASE AltFn
  BY <1>7, <1>9 DEF AltFn
<1>10. CASE UNCHANGED vars
  BY <1>7, <1>10 DEF vars, schedVars
<1> QED
  BY <1>1, <1>2, <1>3, <1>4, <1>5, <1>6, <1>8, <1>9, <1>10 DEF Next, Tick

(* execute, halt, the bring-up and the scheduler implement the safety part *)
(* of TerminalStacks: execute puts a program nobody has on top of the      *)
(* running terminal's stack and only when there is room, halt uncovers the *)
(* parent, and every tick passes the turn to the next terminal.            *)
THEOREM StacksImplemented ==
  ASSUME Calm PROVE Spec => Stacks!Safety
<1>1. Init => Stacks!Init /\ StackInv
  BY InitStacks
<1>2. Spec => []IInv
  BY ChainsAlways
<1>3. IInv /\ IInv' /\ StackInv /\ [Next]_vars => StackInv' /\ [Stacks!Next]_(Stacks!vars)
  BY NextStacks
<1> QED
  BY <1>1, <1>2, <1>3, PTL DEF Spec, Stacks!Safety
=============================================================================
