----------------------------- MODULE BootProofs -----------------------------
(***************************************************************************)
(* Theorems about Boot, for every state that the loader and the BIOS can   *)
(* leave behind.                                                           *)
(***************************************************************************)
EXTENDS Boot, TLAPS

(* The order of the calls, one by one.                                     *)
LEMMA AfterEach ==
  /\ After("ldt_tss") = "idt_init"
  /\ After("idt_init") = "i8259_init"
  /\ After("i8259_init") = "paging_exec"
  /\ After("paging_exec") = "pit_init"
  /\ After("pit_init") = "rtc_init"
  /\ After("rtc_init") = "enableKeyboard"
  /\ After("enableKeyboard") = "filesystem_init"
  /\ After("filesystem_init") = "scheduler_init"
  /\ After("scheduler_init") = "sti"
  /\ After("sti") = "idle"
<1>1. Len(Calls) - 1 = 10
  BY DEF Calls
<1>2. /\ Calls[1] = "ldt_tss" /\ Calls[2] = "idt_init" /\ Calls[3] = "i8259_init"
      /\ Calls[4] = "paging_exec" /\ Calls[5] = "pit_init" /\ Calls[6] = "rtc_init"
      /\ Calls[7] = "enableKeyboard" /\ Calls[8] = "filesystem_init"
      /\ Calls[9] = "scheduler_init" /\ Calls[10] = "sti" /\ Calls[11] = "idle"
  BY DEF Calls
<1>3. ASSUME NEW k \in 1..10
      PROVE  (CHOOSE i \in 1..(Len(Calls) - 1) : Calls[i] = Calls[k]) = k
  <2>1. \A i \in 1..(Len(Calls) - 1) : Calls[i] = Calls[k] => i = k
    <3>1. \A i \in 1..10 : Calls[i] = Calls[k] => i = k
      BY <1>2, SMTT(60)
    <3> QED
      BY <1>1, <3>1
  <2> QED
    BY <1>1, <2>1
<1>4. \A k \in 1..10 : After(Calls[k]) = Calls[1 + k]
  BY <1>3, Zenon DEF After
<1> QED
  BY <1>2, <1>4
-----------------------------------------------------------------------------
(* The lines in service at each step of a handler.                         *)
InService ==
  /\ handler = -1 => isr = {}
  /\ handler = PIT_IRQ =>
       \/ step = "eoi" /\ isr = {PIT_IRQ}
       \/ step = "switch" /\ isr = {}
  /\ handler = KB_IRQ =>
       \/ step \in {"disable", "eoi"} /\ isr = {KB_IRQ}
       \/ step = "enable" /\ isr = {}
  /\ handler = RTC_IRQ =>
       \/ step \in {"disable", "eoi_slave"} /\ isr = {RTC_IRQ, CASCADE_IRQ}
       \/ step = "eoi" /\ isr = {CASCADE_IRQ}
       \/ step = "enable" /\ isr = {}

AfterPic == {"paging_exec", "pit_init", "rtc_init", "enableKeyboard", "filesystem_init",
             "scheduler_init", "sti", "idle"}

(* The processor takes interrupts, outside the handlers, only once entry   *)
(* is idle; and from i8259_init on the masks agree.                        *)
PicInv ==
  /\ handler \in Devices \cup {-1}
  /\ interrupts = 1 => handler = -1
  /\ interrupts = 1 \/ handler # -1 => pc = "idle"
  /\ pc \in AfterPic => imr = cached
  /\ InService

(* Init establishes it.                                                    *)
LEMMA PicInit == Init => PicInv
  BY DEF Init, PicInv, InService, AfterPic, Devices, PIT_IRQ, KB_IRQ, RTC_IRQ, CASCADE_IRQ

(* entry keeps it: its calls come with interrupts off, and sti is last.    *)
LEMMA PicEntry == PicInv /\ entry => PicInv'
<1> SUFFICES ASSUME PicInv, entry PROVE PicInv'
  OBVIOUS
<1> USE DEF PicInv, InService, AfterPic, Devices, PIT_IRQ, KB_IRQ, RTC_IRQ, CASCADE_IRQ
<1>1. CASE ReadMultiboot
  BY <1>1 DEF ReadMultiboot, Unused
<1>2. CASE PageFault
  BY <1>2 DEF PageFault, Unused
<1>3. CASE Call
  <2>1. CASE pc \in {"ldt_tss", "idt_init", "paging_exec", "filesystem_init", "scheduler_init"}
    BY <1>3, <2>1, AfterEach
       DEF Call, ldt_tss, idt_init, paging_exec, filesystem_init, scheduler_init, Initialised, pic
  <2>2. CASE pc = "i8259_init"
    BY <1>3, <2>2, AfterEach DEF Call, i8259_init
  <2>3. CASE pc \in {"pit_init", "rtc_init", "enableKeyboard"}
    BY <1>3, <2>3, AfterEach DEF Call, pit_init, rtc_init, enableKeyboard, DeviceInit, enable_irq
  <2>4. CASE pc = "sti"
    BY <1>3, <2>4, AfterEach DEF Call, sti, pic
  <2> QED
    BY <1>3, <2>1, <2>2, <2>3, <2>4 DEF Call
<1> QED
  BY <1>1, <1>2, <1>3 DEF entry

(* A delivery starts a handler, with its line in service.                  *)
LEMMA PicDeliver == ASSUME NEW irq \in Devices, PicInv, Deliver(irq) PROVE PicInv'
  BY DEF PicInv, InService, AfterPic, Deliver, FirstStep, MasterLine, IsSlave, SLAVE_OFFSET, Devices,
         PIT_IRQ, KB_IRQ, RTC_IRQ, CASCADE_IRQ, entryVars, sched

(* The steps of a handler end its service, on both controllers, and leave  *)
(* the masks as they were.                                                 *)
LEMMA PicHandle == PicInv /\ Handle => PicInv'
<1> SUFFICES ASSUME PicInv, Handle PROVE PicInv'
  OBVIOUS
<1> USE DEF PicInv, InService, AfterPic, Devices, PIT_IRQ, KB_IRQ, RTC_IRQ, CASCADE_IRQ,
            IsSlave, SLAVE_OFFSET, At, entryVars
<1>1. CASE Disable
  BY <1>1 DEF Disable, disable_irq
<1>2. CASE EoiSlave
  BY <1>2 DEF EoiSlave
<1>3. CASE send_eoi
  BY <1>3 DEF send_eoi, Ended
<1>4. CASE Enable
  BY <1>4 DEF Enable, enable_irq
<1>5. CASE switch_tasks
  BY <1>5 DEF switch_tasks, pic
<1> QED
  BY <1>1, <1>2, <1>3, <1>4, <1>5 DEF Handle

(* It is an invariant.                                                     *)
LEMMA PicInvAlways == Spec => []PicInv
<1>1. PicInv /\ [Next]_vars => PicInv'
  <2> SUFFICES ASSUME PicInv, [Next]_vars PROVE PicInv'
    OBVIOUS
  <2>1. CASE \E irq \in Devices : Raise(irq)
    BY <2>1 DEF Raise, PicInv, InService, entryVars, cpu
  <2>2. CASE UNCHANGED vars
    BY <2>2 DEF vars, entryVars, pic, cpu, PicInv, InService
  <2> QED
    BY <2>1, <2>2, PicEntry, PicDeliver, PicHandle DEF Next
<1> QED
  BY <1>1, PicInit, PTL DEF Spec

(* While the processor takes interrupts, no line is in service and the     *)
(* controllers mask what the kernel thinks they do.                        *)
THEOREM NoneBlockedAlways == Spec => []NoneBlocked
<1>1. PicInv => NoneBlocked
  BY DEF PicInv, InService, AfterPic, NoneBlocked
<1> QED
  BY <1>1, PicInvAlways, PTL
-----------------------------------------------------------------------------
Parts == {"tss", "paging", "filesystem", "scheduler"}

(* What has been initialised when entry is about to make a call.           *)
ReadyInv ==
  /\ ready \subseteq Parts
  /\ pc \in {"idt_init", "i8259_init"} \cup AfterPic => "tss" \in ready
  /\ pc \in {"i8259_init"} \cup AfterPic => {PIT_VECTOR, KB_VECTOR, RTC_VECTOR} \subseteq gates
  /\ pc \in AfterPic => offset = [master |-> 32, slave |-> 40]
  /\ pc \in AfterPic \ {"paging_exec"} => "paging" \in ready
  /\ pc \in {"scheduler_init", "sti", "idle"} /\ disk_mount_addr = "image" => "filesystem" \in ready
  /\ pc \in {"sti", "idle"} => "scheduler" \in ready

(* entry keeps it, call by call.                                           *)
LEMMA ReadyEntry == ReadyInv /\ entry => ReadyInv'
<1> SUFFICES ASSUME ReadyInv, entry PROVE ReadyInv'
  OBVIOUS
<1> USE DEF ReadyInv, AfterPic, Parts
<1>1. CASE ReadMultiboot
  BY <1>1 DEF ReadMultiboot, Unused
<1>2. CASE PageFault
  BY <1>2 DEF PageFault, Unused
<1>3. CASE Call
  <2>1. CASE pc \in {"ldt_tss", "paging_exec", "scheduler_init"}
    BY <1>3, <2>1, AfterEach DEF Call, ldt_tss, paging_exec, scheduler_init, Initialised, pic
  <2>2. CASE pc = "idt_init"
    BY <1>3, <2>2, AfterEach DEF Call, idt_init, pic
  <2>3. CASE pc = "i8259_init"
    BY <1>3, <2>3, AfterEach DEF Call, i8259_init
  <2>4. CASE pc \in {"pit_init", "rtc_init", "enableKeyboard"}
    BY <1>3, <2>4, AfterEach DEF Call, pit_init, rtc_init, enableKeyboard, DeviceInit
  <2>5. CASE pc = "filesystem_init"
    BY <1>3, <2>5, AfterEach DEF Call, filesystem_init, Initialised, pic
  <2>6. CASE pc = "sti"
    BY <1>3, <2>6, AfterEach DEF Call, sti, pic
  <2> QED
    BY <1>3, <2>1, <2>2, <2>3, <2>4, <2>5, <2>6 DEF Call
<1> QED
  BY <1>1, <1>2, <1>3 DEF entry

(* Nothing else touches it.                                                *)
LEMMA ReadyInvAlways == Spec => []ReadyInv
<1>1. Init => ReadyInv
  BY DEF Init, ReadyInv, AfterPic
<1>2. ReadyInv /\ [Next]_vars => ReadyInv'
  <2> SUFFICES ASSUME ReadyInv, [Next]_vars PROVE ReadyInv'
    OBVIOUS
  <2>1. CASE entry
    BY <2>1, ReadyEntry
  <2>2. CASE ~entry
    <3>1. UNCHANGED <<entryVars, offset>>
      BY <2>2 DEF Next, vars, pic, Raise, Deliver, Handle, Disable, EoiSlave, send_eoi, Enable, switch_tasks
    <3> QED
      BY <3>1 DEF entryVars, ReadyInv
  <2> QED
    BY <2>1, <2>2
<1> QED
  BY <1>1, <1>2, PTL DEF Spec

(* A handler only runs when its vector has a gate and, if the loader       *)
(* brought an image, everything it may use is there.                       *)
THEOREM HandlersReadyAlways == Spec => []HandlersReady
<1>1. PicInv /\ ReadyInv => HandlersReady
  <2> SUFFICES ASSUME PicInv, ReadyInv, handler # -1 PROVE HandlersReady
    BY DEF HandlersReady
  <2>1. pc = "idle" /\ handler \in Devices
    BY DEF PicInv
  <2>2. Vector(handler) \in gates
    BY <2>1 DEF ReadyInv, AfterPic, Vector, IsSlave, SLAVE_OFFSET, Devices, PIT_IRQ, KB_IRQ, RTC_IRQ,
                PIT_VECTOR, KB_VECTOR, RTC_VECTOR
  <2>3. disk_mount_addr = "image" => ready = Parts
    BY <2>1 DEF ReadyInv, AfterPic, Parts
  <2> QED
    BY <2>2, <2>3 DEF HandlersReady, Parts
<1> QED
  BY <1>1, PicInvAlways, ReadyInvAlways, PTL
=============================================================================
