---------------------------- MODULE MemoryProofs ----------------------------
(***************************************************************************)
(* Proofs about Memory for any number of pids, base shells and files.      *)
(***************************************************************************)
EXTENDS Memory, TLAPS

USE DEF Pids, Boot, NoParent, Pages, LOW, KERNELADDR, CP_INDEX, USRVIDMAP,
        VIDMEM, KERNEL, ProcessFrames, FrameOf

(* Page-table entries: their fields, and that a present one is not 0.      *)
LEMMA EntryFacts ==
  /\ NotPresent \in Entries
  /\ NotPresent.user = 0
  /\ \A f \in 0..(N + 1), u \in 0..1 :
       /\ Maps(f, u) \in Entries
       /\ Maps(f, u).frame = f
       /\ Maps(f, u).user = u
       /\ Maps(f, u) # NotPresent
BY MemoryAssumption DEF Maps, NotPresent, Entries

(* The directory paging_exec builds.                                       *)
LEMMA Directory ==
  /\ paging_exec \in [Pages -> Entries]
  /\ paging_exec[LOW] = Maps(VIDMEM, 0)
  /\ paging_exec[KERNELADDR] = Maps(KERNEL, 0)
  /\ paging_exec[CP_INDEX] = NotPresent
  /\ paging_exec[USRVIDMAP] = Maps(VIDMEM, 1)
<1>1. /\ Maps(VIDMEM, 0) \in Entries
      /\ Maps(KERNEL, 0) \in Entries
      /\ Maps(VIDMEM, 1) \in Entries
  BY EntryFacts, MemoryAssumption
<1> QED
  BY <1>1, EntryFacts DEF paging_exec

(* The tables paging_exec builds satisfy the invariant.                    *)
LEMMA InitIInv == Init => IInv
<1> SUFFICES ASSUME Init PROVE IInv
  OBVIOUS
<1>1. TypeOK
  BY MemoryAssumption, Directory, EntryFacts DEF Init, TypeOK
<1>2. Tables
  BY Directory DEF Init, Tables
<1>3. ProgramsKept
  BY DEF Init, ProgramsKept
<1> QED
  BY <1>1, <1>2, <1>3 DEF IInv

(* Mapping the page of a process and flushing keeps the tables in order,   *)
(* when nothing starts a vidmap meanwhile.                                 *)
LEMMA SwitchTables ==
  ASSUME IInv, NEW pid \in Pids, SwitchTo(pid),
         shown' \subseteq shown,
         \A p \in Pids : at'[p] \in {at[p], "user"}
  PROVE  /\ pageDir' \in [Pages -> Entries]
         /\ pageTableUserVideo' \in Entries
         /\ tlb' \in [Pages -> Entries]
         /\ running' \in 0..N
         /\ Tables'
<1> DEFINE own == Maps(FrameOf(pid), 1)
<1>1. own \in Entries
  BY EntryFacts, MemoryAssumption
<1>2. pageDir' = [pageDir EXCEPT ![CP_INDEX] = own] /\ pageDir \in [Pages -> Entries]
  BY DEF SwitchTo, page_allocate, IInv, TypeOK
<1> HIDE DEF own
<1>3. pageDir' \in [Pages -> Entries]
  BY <1>1, <1>2
<1>4. /\ tlb' = flush_TLB
      /\ running' = pid
      /\ pageTableUserVideo' = pageTableUserVideo
  BY DEF SwitchTo
<1>5. tlb' \in [Pages -> Entries] /\ \A i \in Pages : tlb'[i] = NotPresent
  BY <1>4, EntryFacts DEF flush_TLB
<1>6. \A p \in Pids : p \in shown' \/ at'[p] \in {"flush", "store"} =>
        pageTableUserVideo' = VideoEntry
  BY <1>4 DEF IInv, Tables
<1>7. \A i \in Pages \ {CP_INDEX} : pageDir'[i] = paging_exec[i]
  BY <1>2 DEF IInv, Tables
<1>8. pageDir'[CP_INDEX] = Maps(FrameOf(running'), 1) /\ running' # Boot
  BY <1>2, <1>4, MemoryAssumption DEF own
<1>9. Tables'
  BY <1>4, <1>5, <1>6, <1>7, <1>8 DEF IInv, Tables
<1> QED
  BY <1>3, <1>4, <1>5, <1>9 DEF IInv, TypeOK

(* After the switch loadProcess writes to the frame of the new process.    *)
LEMMA LoadsOwnFrame ==
  ASSUME IInv, NEW pid \in Pids, SwitchTo(pid)
  PROVE  LoadFrame = FrameOf(pid)
<1>1. tlb'[CP_INDEX] = NotPresent
  BY DEF SwitchTo, flush_TLB
<1>2. pageDir'[CP_INDEX] = Maps(FrameOf(pid), 1)
  BY DEF SwitchTo, page_allocate, IInv, TypeOK
<1>3. Maps(FrameOf(pid), 1).frame = FrameOf(pid)
  BY EntryFacts, MemoryAssumption
<1> QED
  BY <1>1, <1>2, <1>3 DEF LoadFrame, Translation, Walk

(* execute, whoever calls it.                                              *)
LEMMA ExecuteIInv ==
  ASSUME IInv, NEW file \in Files, NEW taken \in SUBSET Pids, NEW others \in SUBSET live,
         execute(file, taken, others), shells' \in 0..NTERM
  PROVE  IInv'
<1>1. PICK pid \in NewPid(taken) :
        /\ pid_bitpattern' = taken \cup {pid}
        /\ live' = others \cup {pid}
        /\ SwitchTo(pid)
        /\ memory' = [memory EXCEPT ![LoadFrame] = file]
        /\ program' = [program EXCEPT ![pid] = file]
        /\ parent' = [parent EXCEPT ![pid] = IF pid > NTERM THEN running ELSE NoParent]
        /\ at' = [at EXCEPT ![pid] = "user"]
        /\ shown' = shown \ {pid}
  BY DEF execute
<1>2. pid \in Pids
  BY DEF NewPid
<1>3. at' \in [Pids -> {"user", "flush", "store", "fault"}]
      /\ \A p \in Pids : at'[p] \in {at[p], "user"}
  BY <1>1, <1>2 DEF IInv, TypeOK
<1>4. shown' \subseteq shown
  BY <1>1
<1>5. LoadFrame = FrameOf(pid)
  BY <1>1, <1>2, LoadsOwnFrame
<1>6. memory' = [memory EXCEPT ![pid + 1] = file]
  BY <1>1, <1>2, <1>5, MemoryAssumption
<1>7. memory' \in [ProcessFrames -> Files] /\ program' \in [Pids -> Files]
  BY <1>1, <1>2, <1>6, MemoryAssumption DEF IInv, TypeOK
<1>8. ProgramsKept'
  <2> SUFFICES ASSUME NEW p \in live' PROVE memory'[FrameOf(p)] = program'[p]
    BY DEF ProgramsKept
  <2>1. /\ memory \in [ProcessFrames -> Files] /\ program \in [Pids -> Files]
        /\ p \in Pids
    BY <1>1, <1>2 DEF IInv, TypeOK
  <2>2. CASE p = pid
    BY <2>1, <2>2, <1>1, <1>6, MemoryAssumption
  <2>3. CASE p # pid
    <3>1. memory[FrameOf(p)] = program[p]
      BY <2>3, <1>1 DEF IInv, ProgramsKept
    <3> QED
      BY <3>1, <2>1, <2>3, <1>1, <1>2, <1>6, MemoryAssumption
  <2> QED
    BY <2>2, <2>3
<1>9. /\ pageDir' \in [Pages -> Entries]
      /\ pageTableUserVideo' \in Entries
      /\ tlb' \in [Pages -> Entries]
      /\ running' \in 0..N
      /\ Tables'
  BY <1>1, <1>2, <1>3, <1>4, SwitchTables
<1>10. /\ parent' \in [Pids -> 0..N] /\ shown' \subseteq Pids
       /\ live' \subseteq Pids /\ pid_bitpattern' \subseteq Pids
  BY <1>1, <1>2, MemoryAssumption DEF IInv, TypeOK
<1> QED
  BY <1>3, <1>7, <1>8, <1>9, <1>10 DEF IInv, TypeOK

(* A switch to a process that was executed before.                         *)
LEMMA SwitchIInv ==
  ASSUME IInv, NEW pid \in live, SwitchTo(pid), live' \subseteq live,
         UNCHANGED <<pid_bitpattern, parent, shells, progVars>>
  PROVE  IInv'
<1>1. pid \in Pids
  BY DEF IInv, TypeOK
<1>2. /\ pageDir' \in [Pages -> Entries]
      /\ pageTableUserVideo' \in Entries
      /\ tlb' \in [Pages -> Entries]
      /\ running' \in 0..N
      /\ Tables'
  BY <1>1, SwitchTables DEF progVars
<1>3. ProgramsKept'
  BY DEF IInv, ProgramsKept, progVars
<1> QED
  BY <1>2, <1>3 DEF IInv, TypeOK, progVars

(* What the tables say about the user's video page.                        *)
LEMMA WalkVideo ==
  ASSUME IInv
  PROVE  /\ pageTableUserVideo = NotPresent => Walk(USRVIDMAP) = NotPresent
         /\ pageTableUserVideo = VideoEntry => Walk(USRVIDMAP) = Maps(VIDMEM, 1)
         /\ \A i \in Pages : Walk(i) \in Entries
<1>1. Maps(VIDMEM, 1).frame = VIDMEM /\ Maps(VIDMEM, 1).user = 1
      /\ Maps(VIDMEM, 1) # NotPresent /\ Maps(VIDMEM, 1) \in Entries
  BY EntryFacts, MemoryAssumption
<1>2. pageDir[USRVIDMAP] = Maps(VIDMEM, 1)
  BY Directory DEF IInv, Tables
<1>3. pageTableUserVideo = NotPresent => Walk(USRVIDMAP) = NotPresent
  BY DEF Walk
<1>4. pageTableUserVideo = VideoEntry => Walk(USRVIDMAP) = Maps(VIDMEM, 1)
  BY <1>1, <1>2 DEF Walk, VideoEntry
<1>5. Walk(USRVIDMAP) \in Entries
  BY <1>1, <1>3, <1>4, EntryFacts DEF IInv, Tables
<1>6. \A i \in Pages \ {USRVIDMAP} : Walk(i) \in Entries
  BY DEF Walk, IInv, TypeOK
<1> QED
  BY <1>3, <1>4, <1>5, <1>6

(* A step of a process that leaves processes, memory and tables alone.     *)
LEMMA Keeps ==
  ASSUME IInv, UNCHANGED <<procVars, pageVars, memory, program>>,
         at' \in [Pids -> {"user", "flush", "store", "fault"}],
         shown' \subseteq Pids,
         \A p \in Pids : p \in shown' \/ at'[p] \in {"flush", "store"} =>
           pageTableUserVideo = VideoEntry
  PROVE  IInv'
<1>1. \A i \in Pages : Walk(i)' = Walk(i)
  BY DEF Walk, pageVars
<1>2. Tables'
  BY <1>1 DEF IInv, Tables, procVars, pageVars
<1>3. TypeOK'
  BY DEF IInv, TypeOK, procVars, pageVars
<1>4. ProgramsKept'
  BY DEF IInv, ProgramsKept, procVars
<1> QED
  BY <1>2, <1>3, <1>4 DEF IInv

(* The processor caches what it finds in the tables.                       *)
LEMMA CacheIInv == IInv /\ Cache => IInv'
<1> SUFFICES ASSUME IInv, Cache PROVE IInv'
  OBVIOUS
<1>1. PICK i \in Pages : tlb[i] = NotPresent /\ tlb' = [tlb EXCEPT ![i] = Walk(i)]
  BY DEF Cache
<1>2. UNCHANGED <<procVars, pageDir, pageTableUserVideo, progVars>>
  BY DEF Cache
<1>3. tlb \in [Pages -> Entries] /\ Walk(i) \in Entries
  BY WalkVideo DEF IInv, TypeOK
<1>4. tlb' \in [Pages -> Entries]
  BY <1>1, <1>3
<1>5. \A j \in Pages : tlb[j] \in {NotPresent, Walk(j)} /\ Walk(j)' = Walk(j)
  BY <1>2 DEF IInv, Tables, Walk
<1>6. \A j \in Pages : tlb'[j] \in {NotPresent, Walk(j)'}
  BY <1>1, <1>3, <1>5
<1>7. Tables'
  BY <1>2, <1>6 DEF IInv, Tables, procVars, progVars
<1>8. TypeOK'
  BY <1>2, <1>4 DEF IInv, TypeOK, procVars, progVars
<1>9. ProgramsKept'
  BY <1>2 DEF IInv, ProgramsKept, procVars, progVars
<1> QED
  BY <1>7, <1>8, <1>9 DEF IInv

(* vidmap writes an entry that was 0 or is the same: what is cached stays  *)
(* right even before the flush.                                            *)
LEMMA VidmapEntryIInv == IInv /\ VidmapEntry => IInv'
<1> SUFFICES ASSUME IInv, VidmapEntry PROVE IInv'
  OBVIOUS
<1>1. /\ UNCHANGED <<procVars, pageDir, tlb, memory, program, shown>>
      /\ pageTableUserVideo' = VideoEntry
  BY DEF VidmapEntry
<1>2. VideoEntry \in Entries
  BY EntryFacts, MemoryAssumption DEF VideoEntry
<1>3. at' \in [Pids -> {"user", "flush", "store", "fault"}]
  BY DEF VidmapEntry, IInv, TypeOK
<1>4. TypeOK'
  BY <1>1, <1>2, <1>3 DEF IInv, TypeOK, procVars
<1>5. \A i \in Pages \ {USRVIDMAP} : Walk(i)' = Walk(i)
  BY <1>1 DEF Walk
<1>6. tlb[USRVIDMAP] = NotPresent \/ Walk(USRVIDMAP)' = Walk(USRVIDMAP)
  <2>1. CASE pageTableUserVideo = NotPresent
    BY <2>1, WalkVideo DEF IInv, Tables
  <2>2. CASE pageTableUserVideo = VideoEntry
    BY <2>2, <1>1 DEF Walk
  <2> QED
    BY <2>1, <2>2 DEF IInv, Tables
<1>7. \A i \in Pages : tlb'[i] \in {NotPresent, Walk(i)'}
  BY <1>1, <1>5, <1>6 DEF IInv, Tables
<1>8. Tables'
  BY <1>1, <1>7 DEF IInv, Tables, procVars
<1>9. ProgramsKept'
  BY <1>1 DEF IInv, ProgramsKept, procVars
<1> QED
  BY <1>4, <1>8, <1>9 DEF IInv

(* The flush of vidmap.                                                    *)
LEMMA VidmapFlushIInv == IInv /\ VidmapFlush => IInv'
<1> SUFFICES ASSUME IInv, VidmapFlush PROVE IInv'
  OBVIOUS
<1>1. /\ UNCHANGED <<procVars, pageDir, pageTableUserVideo, memory, program, shown>>
      /\ tlb' = flush_TLB
      /\ running \in Pids /\ at[running] = "flush"
      /\ at' = [at EXCEPT ![running] = "store"]
  BY DEF VidmapFlush, IInv, TypeOK
<1>2. tlb' \in [Pages -> Entries] /\ \A i \in Pages : tlb'[i] = NotPresent
  BY <1>1, EntryFacts DEF flush_TLB
<1>3. at' \in [Pids -> {"user", "flush", "store", "fault"}]
  BY <1>1 DEF IInv, TypeOK
<1>4. TypeOK'
  BY <1>1, <1>2, <1>3 DEF IInv, TypeOK, procVars
<1>5. pageTableUserVideo = VideoEntry
  BY <1>1 DEF IInv, Tables
<1>6. Tables'
  BY <1>1, <1>2, <1>5 DEF IInv, Tables, procVars
<1>7. ProgramsKept'
  BY <1>1 DEF IInv, ProgramsKept, procVars
<1> QED
  BY <1>4, <1>6, <1>7 DEF IInv

(* Every step of user code, kernel and processor keeps the invariant.      *)
LEMMA NextIInv == IInv /\ [Next]_vars => IInv'
<1> SUFFICES ASSUME IInv, [Next]_vars PROVE IInv'
  OBVIOUS
<1>1. CASE Cache
  BY <1>1, CacheIInv
<1>2. CASE Execute
  <2>1. PICK file \in Files : execute(file, pid_bitpattern, live)
    BY <1>2 DEF Execute
  <2>2. shells' \in 0..NTERM /\ pid_bitpattern \in SUBSET Pids
    BY <1>2 DEF Execute, IInv, TypeOK
  <2> QED
    BY <2>1, <2>2, ExecuteIInv
<1>3. CASE HaltChild
  <2>1. parent[running] \in live /\ SwitchTo(parent[running]) /\ live' \subseteq live
        /\ UNCHANGED <<pid_bitpattern, parent, shells, progVars>>
    BY <1>3 DEF HaltChild
  <2> QED
    BY <2>1, SwitchIInv
<1>4. CASE HaltShell
  <2>1. execute(Shell, pid_bitpattern \ {running}, live \ {running})
    BY <1>4 DEF HaltShell
  <2>2. /\ Shell \in Files /\ shells' \in 0..NTERM
        /\ pid_bitpattern \ {running} \in SUBSET Pids
        /\ live \ {running} \in SUBSET live
    BY <1>4, MemoryAssumption DEF HaltShell, IInv, TypeOK
  <2> QED
    BY <2>1, <2>2, ExecuteIInv
<1>5. CASE BringUp
  <2>1. execute(Shell, pid_bitpattern, live)
    BY <1>5 DEF BringUp
  <2>2. Shell \in Files /\ shells' \in 0..NTERM /\ pid_bitpattern \in SUBSET Pids
    BY <1>5, MemoryAssumption DEF BringUp, IInv, TypeOK
  <2> QED
    BY <2>1, <2>2, ExecuteIInv
<1>6. CASE BringUpRefused
  <2>1. /\ UNCHANGED <<running, pid_bitpattern, live, parent, pageVars, progVars>>
        /\ shells' \in 0..NTERM
    BY <1>6, MemoryAssumption DEF BringUpRefused, IInv, TypeOK
  <2>2. \A i \in Pages : Walk(i)' = Walk(i)
    BY <2>1 DEF Walk, pageVars
  <2>3. Tables'
    BY <2>1, <2>2 DEF IInv, Tables, pageVars, progVars
  <2>4. TypeOK' /\ ProgramsKept'
    BY <2>1 DEF IInv, TypeOK, ProgramsKept, pageVars, progVars
  <2> QED
    BY <2>3, <2>4 DEF IInv
<1>7. CASE SwitchTasks
  BY <1>7, SwitchIInv DEF SwitchTasks
<1>8. CASE Fault \/ VidmapFault
  <2>1. /\ UNCHANGED <<procVars, pageVars, memory, program, shown>>
        /\ at' = [at EXCEPT ![running] = "fault"]
    BY <1>8 DEF Fault, VidmapFault
  <2>2. at' \in [Pids -> {"user", "flush", "store", "fault"}]
        /\ \A p \in Pids : at'[p] \in {"flush", "store"} => at'[p] = at[p]
    BY <2>1 DEF IInv, TypeOK
  <2>3. shown' \subseteq Pids
    BY <2>1 DEF IInv, TypeOK
  <2>4. \A p \in Pids : p \in shown' \/ at'[p] \in {"flush", "store"} =>
          pageTableUserVideo = VideoEntry
    BY <2>1, <2>2 DEF IInv, Tables
  <2> QED
    BY <2>1, <2>2, <2>3, <2>4, Keeps
<1>9. CASE VidmapEntry
  BY <1>9, VidmapEntryIInv
<1>10. CASE VidmapFlush
  BY <1>10, VidmapFlushIInv
<1>11. CASE VidmapReturn
  <2>1. /\ UNCHANGED <<procVars, pageVars, memory, program>>
        /\ at' = [at EXCEPT ![running] = "user"]
        /\ shown' = shown \cup {running}
        /\ running \in Pids /\ at[running] = "store"
    BY <1>11 DEF VidmapReturn, IInv, TypeOK
  <2>2. at' \in [Pids -> {"user", "flush", "store", "fault"}] /\ shown' \subseteq Pids
    BY <2>1 DEF IInv, TypeOK
  <2>3. pageTableUserVideo = VideoEntry
    BY <2>1 DEF IInv, Tables
  <2> QED
    BY <2>1, <2>2, <2>3, Keeps
<1>12. CASE UNCHANGED vars
  <2>1. UNCHANGED <<procVars, pageVars, memory, program>> /\ at' = at /\ shown' = shown
    BY <1>12 DEF vars, progVars
  <2> QED
    BY <2>1, Keeps DEF IInv, TypeOK, Tables
<1> QED
  BY <1>1, <1>2, <1>3, <1>4, <1>5, <1>6, <1>7, <1>8, <1>9, <1>10, <1>11, <1>12 DEF Next

(* The types and the state of the tables, in every execution.              *)
THEOREM TablesAlways == Spec => []IInv
BY InitIInv, NextIInv, PTL DEF Spec

(* Types.                                                                  *)
THEOREM TypesAlways == Spec => []TypeOK
<1>1. IInv => TypeOK
  BY DEF IInv
<1> QED
  BY <1>1, TablesAlways, PTL

(* Whatever the TLB holds, the running process works on its own frame.     *)
THEOREM OwnPageAlways == Spec => []OwnPage
<1>1. IInv => OwnPage
  BY DEF IInv, Tables, OwnPage, Translation, Walk
<1> QED
  BY <1>1, TablesAlways, PTL

(* User code never reaches the kernel or the frame of another process, and *)
(* the video memory only after a vidmap.                                   *)
THEOREM UserReachAlways == Spec => []UserReach
<1>1. IInv => UserReach
  <2> SUFFICES ASSUME IInv, NEW i \in Pages, Translation(i).user = 1
               PROVE  \/ Translation(i).frame = FrameOf(running)
                      \/ Translation(i).frame = VIDMEM /\ pageTableUserVideo # NotPresent
    BY DEF UserReach
  <2>1. Translation(i) = Walk(i)
    BY DEF IInv, Tables, Translation
  <2>2. /\ Maps(VIDMEM, 0).user = 0 /\ Maps(KERNEL, 0).user = 0 /\ NotPresent.user = 0
        /\ Maps(VIDMEM, 1).frame = VIDMEM
    BY EntryFacts, MemoryAssumption
  <2>3. CASE i \in {LOW, KERNELADDR}
    BY <2>1, <2>2, <2>3, Directory DEF Walk, IInv, Tables
  <2>4. CASE i = CP_INDEX
    <3>1. running # Boot
      BY <2>1, <2>2, <2>4 DEF Walk, IInv, Tables
    <3>2. Maps(FrameOf(running), 1).frame = FrameOf(running)
      BY <3>1, EntryFacts, MemoryAssumption DEF IInv, TypeOK
    <3> QED
      BY <3>1, <3>2, <2>1, <2>4 DEF Walk, IInv, Tables
  <2>5. CASE i = USRVIDMAP
    <3>1. pageTableUserVideo # NotPresent
      BY <2>1, <2>2, <2>5, WalkVideo
    <3>2. Walk(USRVIDMAP) = Maps(VIDMEM, 1)
      BY <3>1, WalkVideo DEF IInv, Tables
    <3> QED
      BY <3>1, <3>2, <2>1, <2>2, <2>5
  <2> QED
    BY <2>3, <2>4, <2>5
<1> QED
  BY <1>1, TablesAlways, PTL

(* The loader writes to no frame but that of the process it loads.         *)
THEOREM ProgramsKeptAlways == Spec => []ProgramsKept
<1>1. IInv => ProgramsKept
  BY DEF IInv
<1> QED
  BY <1>1, TablesAlways, PTL

(* The video page stays mapped for whoever asked for it.                   *)
THEOREM VideoStaysAlways == Spec => []VideoStays
<1>1. IInv => VideoStays
  <2> SUFFICES ASSUME IInv, running \in shown
               PROVE  Translation(USRVIDMAP) = Maps(VIDMEM, 1)
    BY DEF VideoStays
  <2>1. pageTableUserVideo = VideoEntry
    BY DEF IInv, Tables, TypeOK
  <2> QED
    BY <2>1, WalkVideo DEF IInv, Tables, Translation
<1> QED
  BY <1>1, TablesAlways, PTL
=============================================================================
