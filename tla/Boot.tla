-------------------------------- MODULE Boot --------------------------------
(***************************************************************************)
(* From boot.S and entry of kernel.c to the three shells: the order in     *)
(* which the parts of the kernel are initialised, the two 8259 interrupt   *)
(* controllers of i8259.c, and the handlers of the timer, the keyboard and *)
(* the clock as the controllers see them.                                  *)
(*                                                                         *)
(* A handler runs with interrupts off, but the devices go on raising their *)
(* lines between its accesses to the ports, so each access is a step.  The *)
(* controllers are external: a request is kept in irr until it is          *)
(* delivered, then the line is in service in isr until its end of          *)
(* interrupt, and blocks the lines of its own and lower priority.  What    *)
(* the handlers do besides is in Keyboard, Rtc and Kernel.                 *)
(***************************************************************************)
EXTENDS Integers, Sequences

PIT_IRQ == 0
KB_IRQ == 1
CASCADE_IRQ == 2
RTC_IRQ == 8
SLAVE_OFFSET == 8

Devices == {PIT_IRQ, KB_IRQ, RTC_IRQ}
Lines == Devices \cup {CASCADE_IRQ}

PIT_VECTOR == 32
KB_VECTOR == 33
RTC_VECTOR == 40
SYSTEMCALL_VECTOR == 128

VARIABLES
  pc,               \* the next function that entry calls; then "idle", or
                    \* "halt" or "fault" for good
  flags,            \* of the multiboot information
  disk_mount_addr,  \* "image", or "garbage" while it is not assigned
  ready,            \* what has been initialised
  gates,            \* the vectors that have a gate in the IDT
  offset,           \* the vector of line 0 of the master and of the slave
  interrupts,       \* 1 when the processor takes interrupts
  cached,           \* the disabled lines in master_mask and slave_mask
  imr, irr, isr,    \* the mask, request and in-service registers
  handler,          \* the line that is being handled, or -1
  step,             \* the next access of the handler
  active_terminal,
  schedule_started,
  shells            \* base shells that have been executed

entryVars == <<pc, flags, disk_mount_addr, ready, gates>>
pic == <<offset, cached, imr, irr, isr>>
cpu == <<interrupts, handler, step>>
sched == <<active_terminal, schedule_started, shells>>
vars == <<entryVars, pic, cpu, sched>>

StiFirst == <<"ldt_tss", "idt_init", "i8259_init", "paging_exec", "pit_init", "rtc_init",
              "enableKeyboard", "sti", "filesystem_init", "scheduler_init", "idle">>

(* The calls of entry after it has looked at the multiboot information.    *)
Calls == <<"ldt_tss", "idt_init", "i8259_init", "paging_exec", "pit_init", "rtc_init",
           "enableKeyboard", "filesystem_init", "scheduler_init", "sti", "idle">>

After(call) == Calls[1 + (CHOOSE i \in 1..(Len(Calls) - 1) : Calls[i] = call)]

(* What the loader and the BIOS leave: interrupts are turned off first, in *)
(* boot.S; the rest may be anything.                                       *)
Init ==
  /\ pc = "magic"
  /\ flags \in SUBSET {3, 4, 5}
  /\ disk_mount_addr = "garbage"
  /\ ready = {} /\ gates = {}
  /\ offset = [master |-> 8, slave |-> 112]
  /\ interrupts = 0 /\ handler = -1 /\ step = "none"
  /\ cached = Lines
  /\ imr \in SUBSET Lines /\ irr \in SUBSET Devices /\ isr = {}
  /\ active_terminal = 0 /\ schedule_started = 0 /\ shells = 0
-----------------------------------------------------------------------------
(* i8259.c.  Of the mask byte only the bit of the line changes.            *)

disable_irq(irq) == cached' = cached \cup {irq} /\ imr' = cached \cup {irq}
enable_irq(irq) == cached' = cached \ {irq} /\ imr' = cached \ {irq}

IsSlave(irq) == irq >= SLAVE_OFFSET

OwnLineOnly(irq) == {irq}

(* The lines whose service send_eoi ends: a line of the slave, and then    *)
(* the line of the master that it came through.                            *)
Ended(irq) == IF IsSlave(irq) THEN {irq, CASCADE_IRQ} ELSE {irq}

CascadeClosed == {}

(* The line that i8259_init opens.                                         *)
Opened == {CASCADE_IRQ}

(* The initialisation words put the vectors at 32 and 40 and clear the     *)
(* requests; then the cached masks and the cascade.                        *)
i8259_init ==
  /\ offset' = [master |-> 32, slave |-> 40]
  /\ cached' = cached \ Opened
  /\ imr' = cached'
  /\ irr' = {} /\ isr' = {}
  /\ UNCHANGED <<ready, gates, interrupts, sched>>
-----------------------------------------------------------------------------
(* entry.                                                                  *)

Unused == UNCHANGED <<ready, gates, offset, cached, imr, irr, isr, interrupts, sched>>

(* The wrong magic number, or both kinds of symbol table: entry returns to *)
(* boot.S, which halts.                                                    *)
ReadMultiboot ==
  /\ pc = "magic"
  /\ \/ pc' = "halt" /\ UNCHANGED disk_mount_addr
     \/ /\ disk_mount_addr' = IF 3 \in flags THEN "image" ELSE disk_mount_addr
        /\ pc' = IF {4, 5} \subseteq flags THEN "halt" ELSE "ldt_tss"
  /\ Unused
  /\ UNCHANGED <<flags, handler, step>>

Initialised(part) == ready' = ready \cup {part}

ldt_tss ==
  /\ Initialised("tss")
  /\ UNCHANGED <<gates, pic, interrupts, sched>>

idt_init ==
  /\ gates' = (0..31) \cup {RTC_VECTOR, PIT_VECTOR, KB_VECTOR, SYSTEMCALL_VECTOR}
  /\ UNCHANGED <<ready, pic, interrupts, sched>>

paging_exec ==
  /\ Initialised("paging")
  /\ UNCHANGED <<gates, pic, interrupts, sched>>

(* The last thing each of the three devices does when it is set up.        *)
DeviceInit(irq) ==
  /\ enable_irq(irq)
  /\ UNCHANGED <<ready, gates, offset, irr, isr, interrupts, sched>>

(* Disables its line first, sets the divisor and enables it again.         *)
pit_init == DeviceInit(PIT_IRQ)

(* Turns the periodic interrupt on; rtc_write of 0 returns at once.        *)
rtc_init == DeviceInit(RTC_IRQ)

(* Restores the interrupt flag it found.                                   *)
enableKeyboard == DeviceInit(KB_IRQ)

(* Reads the boot block where disk_mount_addr points.                      *)
filesystem_init ==
  /\ IF disk_mount_addr = "image" THEN Initialised("filesystem") ELSE UNCHANGED ready
  /\ UNCHANGED <<gates, pic, interrupts, sched>>

(* There may be no page there: page_handler does not return.               *)
PageFault ==
  /\ pc = "filesystem_init" /\ disk_mount_addr = "garbage"
  /\ handler = -1
  /\ pc' = "fault"
  /\ Unused
  /\ UNCHANGED <<flags, disk_mount_addr, handler, step>>

scheduler_init ==
  /\ Initialised("scheduler")
  /\ schedule_started' = 0 /\ active_terminal' = 3
  /\ UNCHANGED <<gates, pic, interrupts, shells>>

sti ==
  /\ interrupts' = 1
  /\ UNCHANGED <<ready, gates, pic, sched>>

(* The calls in their order; interrupts may already come in between.       *)
Call ==
  /\ pc \notin {"magic", "halt", "fault", "idle"}
  /\ handler = -1
  /\ \/ pc = "ldt_tss"         /\ ldt_tss
     \/ pc = "idt_init"        /\ idt_init
     \/ pc = "i8259_init"      /\ i8259_init
     \/ pc = "paging_exec"     /\ paging_exec
     \/ pc = "pit_init"        /\ pit_init
     \/ pc = "rtc_init"        /\ rtc_init
     \/ pc = "enableKeyboard"  /\ enableKeyboard
     \/ pc = "filesystem_init" /\ filesystem_init
     \/ pc = "scheduler_init"  /\ scheduler_init
     \/ pc = "sti"             /\ sti
  /\ pc' = After(pc)
  /\ UNCHANGED <<flags, disk_mount_addr, handler, step>>

entry == ReadMultiboot \/ Call \/ PageFault
-----------------------------------------------------------------------------
(* The devices and the controllers.                                        *)

Raise(irq) ==
  /\ irr' = irr \cup {irq}
  /\ UNCHANGED <<entryVars, offset, cached, imr, isr, cpu, sched>>

(* The line of the master a device comes through.                          *)
MasterLine(irq) == IF IsSlave(irq) THEN CASCADE_IRQ ELSE irq

Unblocked(irq) ==
  /\ irq \in irr \ imr /\ MasterLine(irq) \notin imr
  /\ \A s \in isr : MasterLine(irq) < MasterLine(s)

Vector(irq) ==
  IF IsSlave(irq) THEN offset.slave + irq - SLAVE_OFFSET ELSE offset.master + irq

FirstStep(irq) == IF irq = PIT_IRQ THEN "eoi" ELSE "disable"

(* The processor takes the unblocked request of the highest priority and   *)
(* enters the handler through an interrupt gate.                           *)
Deliver(irq) ==
  /\ interrupts = 1
  /\ Unblocked(irq)
  /\ \A i \in Devices : Unblocked(i) => MasterLine(irq) <= MasterLine(i)
  /\ irr' = irr \ {irq}
  /\ isr' = isr \cup {irq, MasterLine(irq)}
  /\ interrupts' = 0
  /\ handler' = irq
  /\ step' = FirstStep(irq)
  /\ UNCHANGED <<entryVars, offset, cached, imr, sched>>

At(label, next) == handler # -1 /\ step = label /\ step' = next

(* keyboard_handler and rtc_interrupt mask their line first.               *)
Disable ==
  /\ At("disable", IF IsSlave(handler) THEN "eoi_slave" ELSE "eoi")
  /\ disable_irq(handler)
  /\ UNCHANGED <<entryVars, offset, irr, isr, interrupts, handler, sched>>

(* With no process in its ring switch_tasks, which looks for the next one  *)
(* before it ends the interrupt, looks for ever.                           *)
NobodyToRun == handler = PIT_IRQ /\ schedule_started = 1 /\ shells = 0

(* send_eoi, first to the slave, and then to the master.                   *)
EoiSlave ==
  /\ At("eoi_slave", "eoi")
  /\ isr' = isr \ {handler}
  /\ UNCHANGED <<entryVars, offset, cached, imr, irr, interrupts, handler, sched>>

send_eoi ==
  /\ At("eoi", IF handler = PIT_IRQ THEN "switch" ELSE "enable")
  /\ ~NobodyToRun
  /\ isr' = isr \ Ended(handler)
  /\ UNCHANGED <<entryVars, offset, cached, imr, irr, interrupts, handler, sched>>

(* enable_irq, and the return with interrupts on again.                    *)
Enable ==
  /\ At("enable", "none")
  /\ enable_irq(handler)
  /\ handler' = -1
  /\ interrupts' = 1
  /\ UNCHANGED <<entryVars, offset, irr, isr, sched>>

TwoShells == active_terminal = 2
LastTerminal == active_terminal = 1

(* switch_tasks: while the scheduler is not started a tick executes one    *)
(* more base shell, for the next terminal, and the last one starts it      *)
(* (without an image execute finds no shell and returns).  From then on a  *)
(* tick resumes some process (see Kernel); without one it does not come    *)
(* here.  Either way the processor goes on with interrupts on.             *)
switch_tasks ==
  /\ At("switch", "none")
  /\ handler' = -1
  /\ interrupts' = 1
  /\ IF schedule_started = 1 THEN UNCHANGED sched
     ELSE /\ active_terminal' = active_terminal - 1
          /\ schedule_started' = IF LastTerminal THEN 1 ELSE 0
          /\ shells' = IF "filesystem" \in ready THEN shells + 1 ELSE shells
  /\ UNCHANGED <<entryVars, pic>>

Handle == Disable \/ EoiSlave \/ send_eoi \/ Enable \/ switch_tasks

Next ==
  \/ entry
  \/ \E irq \in Devices : Raise(irq) \/ Deliver(irq)
  \/ Handle

Spec == Init /\ [][Next]_vars

(* The processor goes on, the timer ticks, and the controllers do not      *)
(* forget a line that they could deliver again and again.                  *)
Fairness ==
  /\ WF_vars(Call) /\ WF_vars(Handle)
  /\ WF_vars(Raise(PIT_IRQ))
  /\ \A irq \in Devices : SF_vars(Deliver(irq))

FairSpec == Spec /\ Fairness
-----------------------------------------------------------------------------
(* Types.                                                                  *)
TypeOK ==
  /\ pc \in {Calls[i] : i \in 1..Len(Calls)} \cup {"magic", "halt", "fault"}
  /\ interrupts \in 0..1
  /\ cached \subseteq Lines /\ imr \subseteq Lines
  /\ irr \subseteq Devices /\ isr \subseteq Lines
  /\ handler \in Devices \cup {-1}
  /\ step \in {"none", "disable", "eoi_slave", "eoi", "enable", "switch"}
  /\ active_terminal \in 0..3 /\ schedule_started \in 0..1 /\ shells \in 0..3

(* "Do not enable the following until after you have set up your IDT       *)
(* correctly": an interrupt only comes when its vector has a gate, and     *)
(* everything a handler may use is there, if the loader brought an image.  *)
HandlersReady ==
  handler # -1 =>
    /\ Vector(handler) \in gates
    /\ disk_mount_addr = "image" => ready = {"tss", "paging", "filesystem", "scheduler"}

(* While the processor takes interrupts no line is in service, so none is  *)
(* blocked, and the controllers mask exactly the lines the kernel thinks   *)
(* they do.                                                                *)
NoneBlocked == interrupts = 1 => isr = {} /\ imr = cached

(* The handlers do what they do even when the loader brought no image: the *)
(* file system is there.                                                   *)
AlwaysImage == handler # -1 => "filesystem" \in ready

(* The devices before irq leave the processor some time.                   *)
Turn(irq) == interrupts = 1 /\ \A i \in Devices : MasterLine(i) < MasterLine(irq) => i \notin irr

(* Every request is served if the devices of higher priority leave time:   *)
(* of the clock too, which has to get through both controllers.            *)
Served ==
  \A irq \in Devices : []<>Turn(irq) => (irq \in irr /\ pc = "idle" ~> irq \notin irr)

(* With an image entry always gets to its idle loop and then each of the   *)
(* three terminals gets its shell, if nobody strikes Alt+Fn before (see    *)
(* BaseShells of Kernel).                                                  *)
ShellsStart == pc = "ldt_tss" /\ disk_mount_addr = "image" ~> schedule_started = 1 /\ shells = 3
=============================================================================
