# A TLA+ verification of the kernel and its user programs

The system is a small x86 kernel: three terminals, a shell on each, at most
six processes, a round-robin scheduler on the timer interrupt, a read-only file
system, and drivers for the real-time clock, the keyboard and the text screen;
and the user programs that run on it.  This directory models the boot sequence,
the parts of the kernel in which order and interleaving matter, and the user
programs, checks the models with TLC on small instances, and proves the central
properties with TLAPS for every value of the constants.

Paths below are relative to `src/student-distrib/`, those of user programs
(`syscalls/`, `fish/`) to `src/`.

## The system and who can interrupt whom

Four facts about the code fix the grain of every model.

* Interrupt handlers (timer, keyboard, clock) enter through interrupt gates and
  run with interrupts off (`idt.c`, `reserved3 = 0`).  Each is one action, but
  in `Boot`, where devices raise their lines between a handler's port accesses.
* `system_calls_linkage` executes `sti` before it calls the handler
  (`system_calls_wrapper.S:30`).  `read`, `write`, `open` and `close` can
  therefore be interrupted, and switched away from, between any two statements.
  `execute` and `halt` begin with `cli` and are one action each.
* Exceptions use trap gates, which leave interrupts as they were: a process
  that faults in user code spins with interrupts on, and others get their time
  slices; one that faults inside `execute`, after the `cli`, spins with
  interrupts off and stops the machine.
* The kernel is built without optimisation (`Makefile`, `CFLAGS`), so each use
  of a global is a load of its own.

A user program only meets the rest of the system at its system calls, so there
one action is one call and the computation up to the next.

| part | source | modules |
|---|---|---|
| processes: `execute`, `halt`, `PCB_init` | `system_calls.c` | `Kernel`, `TerminalStacks`, `KernelProofs` |
| scheduler | `schedule.c` | the same |
| exceptions, descriptor table | `idt.c` | `Kernel`, `Boot` |
| boot, 8259 controllers, timer | `boot.S`, `kernel.c`, `i8259.c`, `pit.c` | `Boot`, `BootProofs` |
| real-time clock, and the 8259 as it uses it | `rtc.c`, `i8259.c` | `Rtc`, `MCRtc`, `RtcProofs` |
| paging, program loader, `vidmap` | `paging.c`, `filesystem.c`, `system_calls.c` | `Memory`, `MCMemory`, `MemoryProofs` |
| file system and descriptors | `filesystem.c`, `system_calls.c` | `FileSystem`, `MCFileSystem`, `FileSystemProofs` |
| keyboard and line discipline | `keyboard.c`, `terminal.c` | `Keyboard`, `LineDiscipline`, `MCKeyboard`, `KeyboardProofs` |
| console | `lib.c`, `terminal.c` | `Screen`, `MCScreen`, `ScreenProofs` |
| user programs and their library | `syscalls/*.c` | `UserSpace`, `Programs`, `SysErr`, `Userland`, `MCPrograms`, `UserlandProofs`, `FileSystemProofs` |
| fish demo | `fish/fish.c`, `fish/blink.S` | `Fish`, `Blink`, `MCBlink`, `Userland`, `RtcProofs` |

How they interact: `execute`, `halt` and the timer share the ring
`priority_list_pid`, the pid table and the stack pointers (`Kernel`).  The
order of the ring decides which terminal a process reads and writes, because
`switch_tasks` sets `pcb_terminal` to the terminal of the process it switches
*out*.  `Keyboard` takes that fixed order from the invariants of `Kernel`
(`TerminalOwners`, `OutputRotation`) and lets processes, the timer and the
keyboard interrupt interleave on the line buffers.  `Memory` has tables and
a TLB where `Kernel` has the one variable `page`, and makes no assumption on
the order in which processes run.  `Rtc` and `Screen` let
processes and interrupts interleave on the clock's ports and on the cursors.
`Boot` ends where `Kernel` begins: at the ticks that bring up the shells.
`Userland` runs the programs over the actions of `FileSystem`, one after the
other; several at a time is the subject of `Kernel`.

## The modules

**Kernel.**  A process is its pid, because stack, PCB and 4 MB page are at
addresses computed from the pid.  The variables are the kernel's globals under
their names, plus where the CPU is (`esp`), the trap stack in the TSS (`esp0`),
the mapped page (`page`), and history (`saved`: whose saved `sesp`/`sebp` are
current; `live`; `faulted`; `ret`; `crashed`: a live process's stack was taken
over or a stale context was loaded, after which no step is defined), and
`interrupts`, which a fault in `execute` leaves at 0 for ever.  Actions:
`Execute`, `ExecuteFails`, `ExecuteFaults`, `HaltChild`, `HaltShell`, `BringUp`,
`BringUpRefused`, `SwitchTasks`, `PageFault`, `OtherException`, `AltFn`.  Three
constants describe the environment: `BootInput` (keys before the base shells
are up), `ShellExit` (may a base shell exit), `GarbagePids` (what `execute`'s
uninitialised `pid` may hold once no pid is free).

**TerminalStacks** is what the above promises: one stack of programs per
terminal; `execute` pushes, `halt` pops, the processor goes round the tops.
`Kernel` maps each ring slot to the chain of parents of the process in it.

**Memory.**  The page directory, the table entry `vidmap` writes, the TLB, and
which file was last loaded into each process's 4 MB frame.  The processor
(external: `Walk`, `Translation`, `Cache`) may cache any translation at any
time and uses what it has cached until `flush_TLB`.  `execute`, `halt` and
`switch_tasks` map a page, flush and go on as another process; `loadProcess`
writes wherever the translation of its fixed virtual address then leads.
`vidmap` is interruptible and has a step each for the entry, the flush and the
store of its result.  Scheduling is over-approximated: any process may be
switched to, so the results hold for any ring.  `execute` stops when no pid is
left (`KernelPidLeak` has what the code does then), and `halt` of a child is
modelled with the parent alive, which `ChainsAlways` of `KernelProofs` shows.

**Boot.**  `entry` as the sequence of its calls, with both early returns and
what happens when the loader passes no module; the interrupt masks as the
kernel caches them and as the controllers have them; and the three handlers as
the controllers see them: mask, end-of-interrupt (two accesses for the clock,
which is on the slave), unmask, or for the timer the countdown of
`switch_tasks`.  The controllers are external (`Raise`, `Unblocked`, `Deliver`):
requests are latched, a line in service blocks its own and lower priorities.
Memory contents, descriptors and device registers are reduced to what has been
initialised (`ready`, `gates`).  If the file system was not set up no shell
starts, and after the countdown the search of `switch_tasks` for somebody to run
never ends (`NobodyToRun`); it comes before the end-of-interrupt.

**Rtc.**  One action per port access of `rtc_write`, and one for each of the
three accesses of `disable_irq` and `enable_irq`: the store of `slave_mask`, its
load, and the output to the 8259.  One action per use of `interrupt_occurred` in
`rtc_read`; `rtc_interrupt` is one action.  The history variable `disturbed`
holds the processes that had another one in the driver during their call.  The
chip (`Period`) and the request latch of the 8259 are external, modelled from
how `rtc.c` uses them.

**FileSystem.**  `open`, `close`, `read`, `write` on the descriptor table of a
process over `read_dentry_by_name`, `read_fs`, `read_fs_dir` and `read_data`.
A byte is named by data block and offset, so that delivering the wrong one is
visible.  The 32-bit and 16-bit moduli of the code are the constants `Word` and
`Half`.  A file name is one value: a name cut off by a buffer shorter than
itself, and the missing terminator of one with 32 characters, are left out.

**Keyboard.**  `keyboard_handler` is one action (key down or up);
`keyboard_read` has one step per load or store of a shared global, the two
halves of `clear_keyboardBuffer` apart.  Its loop over the cells is one step:
while keys are struck at the prompt only nobody else touches the buffer
meanwhile.  The buffers are one flat array, as in memory.  `TypeAhead`, `FullErase` and `BackgroundOutput` say what typist and
processes do.  **LineDiscipline** is what a user expects: a line per terminal,
edited at its end and handed over whole.

**Screen.**  `putc`, `scroll_up`, `tab`, `backspace`, `clear` as functions on a
screen (text and cursor).  The keyboard's are one action each; a character put
by `terminal_write` takes one action per statement of `putc`, with echo, Alt+Fn,
`clear` and other processes in between.  The page of a terminal has room for a
row after the last, which is not shown.  The history variable `began` holds
where the cursor was when a `putc` began and whether the terminal has been in
the background since.

**UserSpace** is the process a program runs in: its arguments, the place of its
next call, its locals, what it has written and what it returned; `getargs`, the
tests of `vidmap` and of the call number; and `ece391support.c` as operators on
arrays.  A message or a name is one token of the output, a byte of a file one
character.

**Programs** has `cat`, `ls`, `grep`, `hello`, `testprint`, `counter`,
`pingpong` and `shell`; `grep` keeps its buffer, with the bytes nobody wrote
(`Garbage`) and the byte it overwrites.  The references `CatShows`, `LsShows`
and `GrepShows` say in terms of whole files what they should print; a line
longer than `grep`'s buffer counts as several (`PiecesOf`).  **SysErr**
is the repository's own test of the error returns, `ece391syserr.c`, as the
sequences of calls its eight tests make.  **Fish** reads two frames in step and
makes them blink; **Blink** is the list of blinking characters in `blink.S` and
its allocator in `fish.c`, with 16-bit countdowns; its history variable `synced`
holds the blinks that `sync` switched on.  **Userland** executes these
programs one after the other, each in a fresh process.

## The runs

| run | shows |
|---|---|
| `Kernel` | 7 pids, 3 terminals, as in the code: `RunningSlot` (the scheduler knows where the running process is), `Resumable` (nothing stale is resumed), `HandOff` (no parent runs beside its child), `TerminalOwners`, `UniquePid` |
| `KernelAnyInput` | 4 pids, 2 terminals, every environment: `TaskCount` |
| `KernelLive` | 6 pids, 2 terminals, fair timer: `RoundRobin`, `OutputRotation`, `ImplementsStacks` |
| `Memory` | 4 pids, 2 base shells: `OwnPage` (no stale translation), `UserReach` (own frame, and the video memory after a `vidmap`), `ProgramsKept` (the loader writes to no other process's frame), `VideoStays` |
| `Rtc` | two processes: `ReadAfterInterrupt`, `NoWedge` (the chip never falls silent); for a process nobody disturbs `SetsRate`, `WritesRegisterA`, `NoLostInterrupt`, `ReadCompletes` |
| `FileSystem` | `SequentialRead`, `OneDescriptor`, `ReachesEnd` |
| `Keyboard` | `FrontTakes`, `ImplementsLines`, `EnterAnswered` |
| `Screen` | statement by statement: `Arrives` (a character put on a background terminal arrives), `InsidePage` (no cursor leaves its page), `BackspaceUndoes` |
| `Boot` | `HandlersReady` (no interrupt before what its handler needs), `NoneBlocked` (no line stays in service), `Served` (each device gets through), `ShellsStart` |
| `Programs` | `OutputRight` (`cat`, `ls` and `grep` against their references), `CountsUp`, `TestsPass` (the kernel passes `ece391syserr.c`), `PictureComplete`, `BallInside`, `ProgramEnds` |
| `Blink` | `ListSound` (the list ends and holds exactly the structures in use), `CharShown` (status and screen agree, but for the defect of `sync`) |
| `KernelPidLeak` | violated: `UniquePid`.  `halt` never frees a child's pid; when none is left, `execute` uses an uninitialised one |

`RtcRates.cfg`, run by hand, checks `SetsRate` for one process at every boundary
of the rate table; it passes.

The following, also run by hand, give the executions behind other disagreements
between comments and code.  Each ends in a violation of the property it names.
Where the table says "with", the property takes the place of those the
configuration lists.

| configuration (module) | property | the code |
|---|---|---|
| `KernelShellExit` (`Kernel`) | `HandOff` | a base shell that exits leaves its ring slot behind (`system_calls.c:72`) |
| `KernelShellExit` | with `StdioOpen` | `PCB_init` returns early on a full ring (`system_calls.c:549`) |
| `Kernel` | with `ExceptionReport` | `exception_halt` set by one process is reported for another (`idt.c:70`, `system_calls.c:86`) |
| `KernelLive` (`Kernel`) | with `RoundRobinEver` | a page fault on `execute`'s argument spins with interrupts off (`system_calls.c:149`, `idt.c:70`) |
| `KernelBootInput` (`Kernel`) | `ChildHasParent` | a command during the bring-up gets a base shell's pid (`system_calls.c:524`) |
| `KernelBootSwitch` (`Kernel`) | `BaseShells` | Alt+Fn disturbs the countdown in `active_terminal` (`schedule.c:101`) |
| `Boot` | with `AlwaysImage` | without a module `disk_mount_addr` is not assigned, and `entry` goes on (`kernel.c:170`) |
| `RtcRates` (`MCRtc`) | with `AlwaysRegisterA` | an interrupt after the store of `slave_mask` opens the line again, so a later one can select register C between the two port accesses of `rtc_write` (`rtc.c:180`) |
| `RtcRates` | with `OnlyNullFails` | frequency 0 is taken for a null pointer (`rtc.c:112`) |
| `RtcLostTick` (`MCRtc`) | `NeverLost` | readers share one flag (`rtc.c:78`) |
| `RtcLine` (`MCRtc`) | `LineLeftOpen` | a stale mask written by a process that leaves the driver keeps the clock's line closed (`i8259.c:87`) |
| `FsLongFile` (`MCFileSystem`) | `ReturnsCount` | `written_bytes` has 16 bits (`filesystem.c:261`) |
| `FsNegative` (`MCFileSystem`) | `WithinFile` | `offset + length` wraps (`filesystem.c:271`) |
| `KeyboardClear` (`MCKeyboard`) | `NoHoles` | the index is reset before the cells (`keyboard.c:384`) |
| `KeyboardOutput` (`MCKeyboard`) | `EnterAnswered` | output resets the Enter flag (`terminal.c:26`) |
| `KeyboardShift` (`MCKeyboard`) | `ShiftHeld` | either shift key's release clears the flag (`keyboard.c:158`) |
| `MemoryPointer` (`MCMemory`) | `ChecksPointer` | the address just after the user page passes the check of `vidmap` (`system_calls.c:454`) |
| `Screen` | with `ScrollsEach` | terminals other than 0 scroll in terminal 0's text (`bugs.txt` knows a symptom) |
| `Screen` | with `Shown` | the character at the last position is dropped (`lib.c:325`) |
| `ScreenRace` (`MCScreen`) | `EndScrolls` | echo between `putc`'s check and its update (`lib.c:325-334`) |
| `Screen` | with `ClearsOwn` | `clear` of one terminal resets the cursor of the one in front (`lib.c:96`) |
| `GrepStale` (`MCPrograms`) | `GrepRight` | `grep` tests the byte after those it read; a newline left there by somebody else splits a line (`syscalls/ece391grep.c:33`) |
| `Programs` (`MCPrograms`) | with `GrepWhole` | a line longer than `grep`'s buffer is searched and printed in pieces (`syscalls/ece391grep.c:33`) |
| `Blink` | with `StatusShown` | after `testb` the `cmovl` of `sync` never moves, so a blink that is switched on shows its off character (`fish/blink.S:282`) |
| `BlinkZero` (`MCBlink`) | `ListSound` | location 0 marks a free structure, so one added there is given out again and the list runs into itself (`fish/fish.c:164`) |

### Bounds

* `Kernel` has the code's own bounds, so its state space is complete for its
  environment: nothing typed during the bring-up, no base shell exits, and
  `GarbagePids = {}` stops `execute` when the pids are used up.  Since `halt`
  frees no child's pid that is after four commands; what comes later is the
  subject of `KernelPidLeak`.  Deadlock is not checked: the machine stops when
  a process faults in `execute`.
* `KernelAnyInput` is smaller because every environment is allowed.  The ring
  still fills, the pids still run out and `active_terminal` still wraps.  It
  stops where the code's behaviour does (`crashed`), so deadlock is not checked.
* `Memory`: 4 pids allow two base shells and a child at a time (`total_tasks`
  counts from 1), two children one after the other, and the limit to be reached
  during the bring-up.  If the pids run out there and the only process faults
  nothing is left to do, so deadlock is not checked.
* `FileSystem`: blocks of 2 bytes and files of 0, 4 and 5 bytes end before, at
  and after a boundary; reads of 0 to 7 bytes cut them everywhere; two open
  descriptors interleave.  `MaxPosition` stops reads far past the end of the
  directory.
* `Keyboard`: 2 terminals with lines of 2 characters fill up, are cut by a
  reader that asks for 1 and taken whole by one that asks for 4.
* `Screen`: 2 terminals of 2 by 2 positions have an edge, a last row and a last
  position, and a tab stop of 1 that does and does not fit.  The process writes
  to terminal 1 (terminal 0 is the one whose text is used by `scroll_up`) and is
  interrupted anywhere, with its terminal in front or behind.
* `Rtc`: two processes, of which one writes 0 (refused), 4 (in the table) and
  513 (between two entries) and the other 2.  `RtcRates` has one process and all
  the frequencies around 0, 2, 4, 512 and 1024.
* `Boot` has no bounds: its states are finite.  It starts with any masks and
  requests the BIOS may leave and any of the multiboot flags.
* `Programs`: blocks of 2 characters, buffers of 3, and as files every text of
  up to 5 characters, over a letter and the newline.  So lines end before, at and
  after the ends of blocks and of buffers, and some are longer than a buffer; a
  further file has the string `grep` looks for across the end of one.  `counter`
  counts to 12 and to 101, past the changes of length; pingpong's line has 8
  columns; the frames of fish differ in the lengths and number of their lines
  and in whether the last one ends with a newline.
* `Blink`: 3 structures for 3 locations, with lengths 1, 2 and 3, so that all are
  in use at once, one is refused, and two can be at the same location.

### Fairness

* `Kernel`: weak fairness of `Tick`.  The PIT is periodic, and the tick is taken
  as long as interrupts are on, which they are for every process but one that
  faulted in `execute`: there `Tick` is disabled, `RoundRobin` promises nothing
  more, and `ImplementsStacks` not the fairness of the stacks.
* `Rtc`: weak fairness of the chip, of the pending interrupt, and of a call
  that was begun, which `RoundRobin` justifies as long as nobody faults in
  `execute`; so it does below.  Nobody has to make a call.
* `Keyboard`: weak fairness of `Tick`, strong fairness of a process's steps in
  `keyboard_read`: it is enabled only in its own slices, which come again and
  again, and a slice is long enough for a step.  Keys need not be struck.
* `Boot`: weak fairness of the processor's steps (`Call`, `Handle`) and of the
  timer, and strong fairness of `Deliver`: a controller does not forget a line
  that it could deliver again and again.  `Served` only promises a device its
  turn if those of higher priority leave the processor time.  Nobody has to
  strike a key.
* `Userland`: weak fairness of the running program (`RoundRobin`), whose reads of
  the clock return (`ReadCompletes`) and whose prompts are answered.
* `FileSystem`: a process with an open file goes on reading it, as the loop of
  `syscalls/ece391cat.c` does (used for `ReachesEnd` only).

## What is proved

Every theorem is about the specification the runs check, for every value of its
constants; what it assumes of them beyond the `ASSUME`s of its module is named
in its statement.

`KernelProofs`, for every `N`, `NTERM < N`:

* `AddressSpaceAlways`, in every environment: page, trap stack and CPU stack
  belong to the same process.
* Under `Calm` (nothing typed before the base shells are up, none of them
  exits, the pids do not run out): `TypesAlways`, `RunningSlotAlways`,
  `ResumableAlways`, `OneSlotEachAlways`, `HandOffAlways`, `TaskCountAlways`,
  `TerminalOwnersAlways`, `UniquePidAlways`.  Without the second and the
  third, `KernelShellExit` and `KernelPidLeak` break `HandOff` and `UniquePid`;
  without the first, the bring-up goes wrong as in `KernelBootSwitch`.
* Under `Calm`, `StacksImplemented`: the kernel implements the safety part of
  `TerminalStacks`.

The invariant is `IInv` (`ChainsAlways`).  None of the properties is inductive
alone: that `halt` puts the right process back needs the parent to be alive,
out of the ring and resumable only through its child.  `Chains` says so: the
live processes form one chain of parents per base shell, nobody has two
children, and the ring holds exactly the ends of the chains, in the slots
brought up so far, with terminals in descending order.  `execute` and a tick of
the bring-up are both brought to one form (`Starts`), so that most of the
argument is made once.  The refinement adds that a process has a larger pid
than its parent (`StackInv`), because `halt` frees no child's pid; so the chain
of parents, which the mapping computes recursively, can be followed down.

`MemoryProofs`, for any number of pids, base shells and files: `TypesAlways`,
`OwnPageAlways`, `UserReachAlways`, `ProgramsKeptAlways`, `VideoStaysAlways`.
The invariant (`TablesAlways`) is that the tables are those of `paging_exec`
but for the running process's page and the entry of `vidmap`, and that nothing
is cached that is not in the tables.  The second half is what the flushes are
for; it holds between `vidmap`'s two steps too, because the entry it writes was
0 or the same before.

`RtcProofs`, for any set of processes and frequencies: `ReadAfterInterruptAlways`
(strengthened by: a set flag means everybody waiting has had an interrupt),
`NoWedgeAlways`, and, for a process that nobody disturbs in its call,
`NoLostInterruptAlways`, `ProtectedWritesRegisterA`, `RateWrittenAlways` and
`SetsRateAlways`.  The last three need the line masked.  Their invariant says
what each point of `rtc_write` may rely on: the register it selected, the
divider bits it read, and after the output the rate it wrote.

The same module has the blink list, for any size of the array and the screen,
if nobody blinks at location 0 (`NoneAtZero`; `BlinkZero` shows what happens
there): `ListSoundAlways`, `CharShownAlways`.  The invariant says that some
sequence without repetition links the head to NULL through exactly the
structures in use.  Adding, unlinking and the walk of the tasklet are shown to
keep such a sequence, the walk by induction on how far it has come.

`BootProofs`: `NoneBlockedAlways` and `HandlersReadyAlways`.  The first needs, for
every point of a handler, exactly which lines are still in service and masked
(one end-of-interrupt of the clock has gone out, or two); the second that
interrupts are off until `sti`, and that each call of `entry` finds done what
the calls before it do.

`KeyboardProofs`, for any buffer size, keys and request sizes with the code's
three terminals (`SwitchKeys`): `TypesAlways` under any timing of keys, and
`FrontTakesAlways` for a typist who waits for the prompt.  Its invariant adds
the first time slice, in which `pcb_terminal` still has its initial value, and
that after it the running process sees its predecessor's terminal.
`LinesImplemented`: if, besides, nobody erases in a full line or writes while an
Enter is pending (`Waits`; `KeyboardOutput` and `KeyboardClear` break it
otherwise), buffers, flag and copy loop implement `LineDiscipline`.  For that,
`LineInv` says at each point of `keyboard_read` how much of the line was copied,
that the Enter it answers is the one it saw, and that the cells it clears belong
to no line.

`FileSystemProofs`:

* `OneDescriptorAlways`, for every image, number of descriptors and modulus: a
  call changes at most the descriptor it was given or returns, which stays with
  its file until it is closed.
* `SequentialReadAlways`, for images whose block numbers are in range
  (`GoodImage`) and requests below 2^16 (`ShortReads`; `FsLongFile` and
  `FsNegative` show that both widths matter).  The loop of `read_data` has, after
  k rounds, copied up to a block boundary or the end (`Covered`); that is shown
  by induction on k, with the block and the place in it of each byte.
* `DirectoryOnceAlways`: reads of the directory deliver the names in order, each
  once.
* `CatLsRightAlways`, the part of `OutputRight` that is not about `grep`: what `cat` and `ls` have printed when
  they end is the whole file or directory.  `PrintDisk` asks for a good image in
  which the directory has an entry for itself, and for a buffer that is not empty
  and below 2^16.  The invariant is that the output is the text up to the
  position of the open descriptor; that no read before the end returns 0 makes
  the loop stop at the end only.

`ScreenProofs`, for every size of the screen and tab stop, any number of
terminals and writers, with interrupts between the statements of `putc`:
`InsidePageAlways`, `BackspaceUndoesAlways`, `ArrivesAlways`.  The first two need
that a cursor is past the edge of its row only between `putc`'s increment and its
wrap (`CursorInv`).  The last adds where cursor and character are at each
statement of a `putc` on a terminal that has been in the background since it
began (`Underway`).

`UserlandProofs`:

* `BallInsideAlways`, for every width and set of characters
  (`ProgramsAssumption`: room for a ball, which is neither wall, blank nor
  newline).
* `TestsPassAlways`, for an image that has `.` and neither of the names that the
  test expects to be missing, and the code's 8 descriptors (`TestDisk`).  The
  invariant has the descriptors in use after each call of each test.
* `CountsUpAlways`, up to any number: `itoa`'s digits, computed from the lowest
  place up and reversed, are the decimal numeral, by induction on the number.

`PrintDisk` and `TestDisk` hold of the image and the constants of the run
`Programs`.

Induction is written with sets: a set of numbers with 0 and each successor holds
all of them (`ByInduction`, from a least element), since the library's induction
theorems take an operator.  Recursive functions are treated the same way: the
values up to n exist (`Recursively`) and are unique.

Only model-checked:

* everything temporal under fairness, since the prover has no `ENABLED`: the
  liveness properties, and the fairness in `ImplementsStacks`;
* the part of `OutputRight` about `grep`, and `PictureComplete`: both compare a
  buffer or two files read in step with the lines of whole texts, which are
  defined by counting newlines.  No proof of them has been attempted.

## What is not modelled

* The divisor that `pit_init` programs (the timer of the models ticks at any
  time), the bits of descriptors, and the boot messages.
* `x86_desc.S`, and the register saving of `system_calls_wrapper.S`: their effect
  on interrupts is the grain described above.
* The parsing of the command line in `execute`: sequential.  `set_handler` and
  `sigreturn` only return -1, so `syscalls/ece391sigtest.c` ends at its first
  call.
* `printf`'s formatting, the string routines of `lib.c`, the hardware cursor,
  `tests.c`, and `ece391emulate.c`, which stands in for the kernel on Linux.

## Plan

1. Done: `Kernel`, `Memory`, `Rtc`, `Keyboard`, `FileSystem`, `Screen`, `Boot` and
   the user programs with their proofs.
2. Next: an abstract line discipline for a typist who types ahead, and
   `Keyboard` over `Kernel` in one module instead of by its invariants.
3. Then: the user programs over `Kernel`, several at a time, and the command
   line of `execute`.
