------------------------------- MODULE Memory -------------------------------
(***************************************************************************)
(* The address space of a process: the page tables of paging.c, the TLB,   *)
(* the program loader behind execute, and the vidmap system call.          *)
(*                                                                         *)
(* Which process runs when is the subject of Kernel; here switch_tasks may *)
(* pick any process, so what holds here does not depend on the ring.  What *)
(* execute does when no pid is left is in Kernel too.                      *)
(*                                                                         *)
(* Physical memory is counted in frames of 4 MB: 0 holds the text-mode     *)
(* video memory, 1 is the kernel, the rest belong to the processes.  A     *)
(* page is named by its index in the page directory.  Of the two tables    *)
(* the directory points to, pageTable never changes and its entries have   *)
(* the rights of pageDir[0]; pageTableUserVideo has one entry in use.      *)
(***************************************************************************)
EXTENDS Integers, FiniteSets

CONSTANTS
  N,         \* the number of pids
  NTERM,     \* the number of base shells (3, also the 3 of pid > 3)
  Files,     \* the names execute may be given
  Shell,     \* the one the kernel itself executes
  dentry     \* file -> [filetype, idx_inode, magic : has it the ELF bytes?]

Pids == 1..N
Boot == 0
NoParent == 0

(* Indices of the page directory.                                          *)
LOW == 0           \* 0 to 4 MB
KERNELADDR == 1    \* 4 to 8 MB
CP_INDEX == 32     \* the program, at 128 MB
USRVIDMAP == 128   \* USRVIDMAPADDR
Pages == {LOW, KERNELADDR, CP_INDEX, USRVIDMAP}

VIDMEM == 0
KERNEL == 1

(* An entry that is present, with its user bit, and one that is 0.         *)
Maps(frame, user) == [frame |-> frame, user |-> user]
NotPresent == [frame |-> -1, user |-> 0]

REG_FILE == 2

(* is_executable.  (No file of the image is shorter than the four bytes it *)
(* looks at.)                                                              *)
is_executable(file) ==
  dentry[file].filetype = REG_FILE /\ dentry[file].idx_inode # 0 /\ dentry[file].magic

ASSUME MemoryAssumption ==
  /\ N \in Nat /\ NTERM \in Nat
  /\ Shell \in Files
  /\ is_executable(Shell)

VARIABLES
  running,             \* the process that runs, or Boot
  pid_bitpattern,      \* the pids that are taken
  live,                \* the processes executed and not yet halted
  parent,              \* pid -> parent_addr, NoParent for -1
  shells,              \* base shells the bring-up has started
  pageDir,             \* Pages -> entry
  pageTableUserVideo,  \* its entry 0
  tlb,                 \* Pages -> the translation cached, or NotPresent
  memory,              \* frame of a process -> the file last loaded there
  program,             \* pid -> the file it was executed from
  at,                  \* pid -> where it is: user code, vidmap, a fault
  shown                \* the processes vidmap has returned 0 to

procVars == <<running, pid_bitpattern, live, parent, shells>>
pageVars == <<pageDir, pageTableUserVideo, tlb>>
progVars == <<memory, program, at, shown>>
vars == <<procVars, pageVars, progVars>>

(* The frame of a process: (pid - 1) * FOURMB + EIGHTMB.                   *)
FrameOf(pid) == (pid - 1) + 2

ProcessFrames == 2..(N + 1)

UserKernelPage ==
  [i \in Pages |-> CASE i = LOW        -> Maps(VIDMEM, 0)
                     [] i = KERNELADDR -> Maps(KERNEL, 1)
                     [] i = CP_INDEX   -> NotPresent
                     [] i = USRVIDMAP  -> Maps(VIDMEM, 1)]

(* paging_exec: the video pages and the kernel, and the empty table of the *)
(* user's video page; only the last is for the user.                       *)
paging_exec ==
  [i \in Pages |-> CASE i = LOW        -> Maps(VIDMEM, 0)
                     [] i = KERNELADDR -> Maps(KERNEL, 0)
                     [] i = CP_INDEX   -> NotPresent
                     [] i = USRVIDMAP  -> Maps(VIDMEM, 1)]

Init ==
  /\ running = Boot
  /\ pid_bitpattern = {}
  /\ live = {}
  /\ parent = [p \in Pids |-> NoParent]
  /\ shells = 0
  /\ pageDir = paging_exec
  /\ pageTableUserVideo = NotPresent
  /\ tlb = [i \in Pages |-> NotPresent]
  /\ memory = [f \in ProcessFrames |-> Shell]
  /\ program = [p \in Pids |-> Shell]
  /\ at = [p \in Pids |-> "user"]
  /\ shown = {}
-----------------------------------------------------------------------------
(* What the processor finds in the tables.  Access to a small page needs   *)
(* the rights of both levels.                                              *)
Walk(i) ==
  IF i # USRVIDMAP THEN pageDir[i]
  ELSE IF pageTableUserVideo = NotPresent THEN NotPresent
  ELSE Maps(pageTableUserVideo.frame, pageDir[i].user * pageTableUserVideo.user)

(* What an access uses: the cached translation if there is one.            *)
Translation(i) == IF tlb[i] # NotPresent THEN tlb[i] ELSE Walk(i)

(* The processor may cache a translation it can find at any time.          *)
Cache ==
  /\ \E i \in Pages : tlb[i] = NotPresent /\ tlb' = [tlb EXCEPT ![i] = Walk(i)]
  /\ UNCHANGED <<procVars, pageDir, pageTableUserVideo, progVars>>

NotFlushed == tlb

(* flush_TLB: CR3 is loaded again.                                         *)
flush_TLB == [i \in Pages |-> NotPresent]

(* page_allocate of a process's frame at CP_INDEX with FOURMB_USER_PAGE.   *)
page_allocate(pid) == [pageDir EXCEPT ![CP_INDEX] = Maps(FrameOf(pid), 1)]

(* What execute, halt and switch_tasks do before pid runs.                 *)
SwitchTo(pid) ==
  /\ pageDir' = page_allocate(pid)
  /\ tlb' = flush_TLB
  /\ running' = pid
  /\ UNCHANGED pageTableUserVideo

BeforeTheSwitch == IF running = Boot THEN FrameOf(1) ELSE Translation(CP_INDEX).frame

(* The frame loadProcess writes to: it uses CP_VADDR, after the switch.    *)
LoadFrame == Translation(CP_INDEX)'.frame

(* The lowest pid that is not taken.                                       *)
NewPid(taken) == {p \in Pids \ taken : \A q \in Pids \ taken : p <= q}

(* total_tasks counts from 1 (TaskCount of Kernel).                        *)
TooManyTasks(alive) == Cardinality(alive) + 1 >= N

(* execute of a file, called with these pids taken and processes alive.    *)
(* PCB_init makes a pid above NTERM a child of the process that runs.      *)
execute(file, taken, others) ==
  /\ ~TooManyTasks(others)
  /\ is_executable(file)
  /\ \E pid \in NewPid(taken) :
       /\ pid_bitpattern' = taken \cup {pid}
       /\ live' = others \cup {pid}
       /\ SwitchTo(pid)
       /\ memory' = [memory EXCEPT ![LoadFrame] = file]
       /\ program' = [program EXCEPT ![pid] = file]
       /\ parent' = [parent EXCEPT ![pid] = IF pid > NTERM THEN running ELSE NoParent]
       /\ at' = [at EXCEPT ![pid] = "user"]
       /\ shown' = shown \ {pid}

InUserCode == running # Boot /\ at[running] = "user"

(* The system call.  Where it returns -1 nothing changes.                  *)
Execute ==
  /\ InUserCode
  /\ \E file \in Files : execute(file, pid_bitpattern, live)
  /\ UNCHANGED shells

(* halt of a child, which keeps its pid taken: back to the parent.  (The   *)
(* theorems about Kernel have the parent alive.)                           *)
HaltChild ==
  /\ InUserCode
  /\ running > NTERM
  /\ parent[running] \in live
  /\ SwitchTo(parent[running])
  /\ live' = live \ {running}
  /\ UNCHANGED <<pid_bitpattern, parent, shells, progVars>>

(* halt of a base shell: its pid is freed and a new shell executed.        *)
HaltShell ==
  /\ InUserCode
  /\ running <= NTERM
  /\ execute(Shell, pid_bitpattern \ {running}, live \ {running})
  /\ UNCHANGED shells

(* switch_tasks: a base shell is started, or another process goes on.      *)
BringUp ==
  /\ shells < NTERM
  /\ shells' = shells + 1
  /\ execute(Shell, pid_bitpattern, live)

(* The same with execute refusing, because there are too many processes.   *)
BringUpRefused ==
  /\ shells < NTERM
  /\ shells' = shells + 1
  /\ TooManyTasks(live)
  /\ UNCHANGED <<running, pid_bitpattern, live, parent, pageVars, progVars>>

SwitchTasks ==
  /\ shells = NTERM
  /\ \E pid \in live : SwitchTo(pid)
  /\ UNCHANGED <<pid_bitpattern, live, parent, shells, progVars>>

(* A fault in user code: the process spins in the handler.                 *)
Fault ==
  /\ InUserCode
  /\ at' = [at EXCEPT ![running] = "fault"]
  /\ UNCHANGED <<procVars, pageVars, memory, program, shown>>
-----------------------------------------------------------------------------
KernelVideo == Maps(VIDMEM, 0)

(* VIDMEMADDR | 0x07.                                                      *)
VideoEntry == Maps(VIDMEM, 1)

(* vidmap with a pointer it accepts; with another it returns -1 and        *)
(* changes nothing.  It runs with interrupts on: it writes the entry,      *)
(* clears the screen and flushes, and stores the result.                   *)
VidmapEntry ==
  /\ InUserCode
  /\ pageTableUserVideo' = VideoEntry
  /\ at' = [at EXCEPT ![running] = "flush"]
  /\ UNCHANGED <<procVars, pageDir, tlb, memory, program, shown>>

VidmapFlush ==
  /\ running # Boot /\ at[running] = "flush"
  /\ tlb' = flush_TLB
  /\ at' = [at EXCEPT ![running] = "store"]
  /\ UNCHANGED <<procVars, pageDir, pageTableUserVideo, memory, program, shown>>

(* *screen_start is in the page of the process.                            *)
VidmapReturn ==
  /\ running # Boot /\ at[running] = "store"
  /\ at' = [at EXCEPT ![running] = "user"]
  /\ shown' = shown \cup {running}
  /\ UNCHANGED <<procVars, pageVars, memory, program>>

(* The check accepts USR_LOW_BOUND + FOURMB, which is in no page.          *)
VidmapFault ==
  /\ running # Boot /\ at[running] = "store"
  /\ at' = [at EXCEPT ![running] = "fault"]
  /\ UNCHANGED <<procVars, pageVars, memory, program, shown>>

Next ==
  \/ Cache
  \/ Execute \/ HaltChild \/ HaltShell
  \/ BringUp \/ BringUpRefused \/ SwitchTasks
  \/ Fault
  \/ VidmapEntry \/ VidmapFlush \/ VidmapReturn \/ VidmapFault

Spec == Init /\ [][Next]_vars
-----------------------------------------------------------------------------
Entries == [frame : -1..(N + 1), user : 0..1]

(* Types.                                                                  *)
TypeOK ==
  /\ running \in 0..N
  /\ pid_bitpattern \subseteq Pids
  /\ live \subseteq Pids
  /\ parent \in [Pids -> 0..N]
  /\ shells \in 0..NTERM
  /\ pageDir \in [Pages -> Entries]
  /\ pageTableUserVideo \in Entries
  /\ tlb \in [Pages -> Entries]
  /\ memory \in [ProcessFrames -> Files]
  /\ program \in [Pids -> Files]
  /\ at \in [Pids -> {"user", "flush", "store", "fault"}]
  /\ shown \subseteq Pids

(* Whatever the processor has cached, and whenever it did, a running       *)
(* process's accesses to the program page go to its own frame: no path     *)
(* through execute, halt and switch_tasks leaves another's translation     *)
(* behind.                                                                 *)
OwnPage == running # Boot => Translation(CP_INDEX) = Maps(FrameOf(running), 1)

(* What user code can reach is its own frame and, once somebody has called *)
(* vidmap, the video memory: never the kernel or another process.          *)
UserReach ==
  \A i \in Pages : Translation(i).user = 1 =>
    \/ Translation(i).frame = FrameOf(running)
    \/ Translation(i).frame = VIDMEM /\ pageTableUserVideo # NotPresent

(* The frame of every process holds the program it was executed from,      *)
(* whatever was executed, halted and switched to meanwhile: loadProcess,   *)
(* which writes at one virtual address for everybody, never writes to the  *)
(* frame of another process.                                               *)
ProgramsKept == \A p \in live : memory[FrameOf(p)] = program[p]

(* A process vidmap has returned 0 to can draw on the screen from then on, *)
(* through every switch and every page mapped meanwhile.                   *)
VideoStays == running \in shown => Translation(USRVIDMAP) = Maps(VIDMEM, 1)

(* vidmap will "catch error if out of bounds": a pointer it accepts can be *)
(* written through.                                                        *)
ChecksPointer == [][~VidmapFault]_vars
-----------------------------------------------------------------------------
(* What makes the above inductive: the tables are those of paging_exec but *)
(* for the page of the running process and the entry vidmap writes, and    *)
(* nothing is cached that is not in them.                                  *)
Tables ==
  /\ \A i \in Pages \ {CP_INDEX} : pageDir[i] = paging_exec[i]
  /\ running = Boot => pageDir[CP_INDEX] = NotPresent
  /\ running # Boot => pageDir[CP_INDEX] = Maps(FrameOf(running), 1)
  /\ pageTableUserVideo \in {NotPresent, VideoEntry}
  /\ \A i \in Pages : tlb[i] \in {NotPresent, Walk(i)}
  /\ \A p \in Pids : p \in shown \/ at[p] \in {"flush", "store"} =>
       pageTableUserVideo = VideoEntry

IInv == TypeOK /\ Tables /\ ProgramsKept
=============================================================================
