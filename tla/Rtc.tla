-------------------------------- MODULE Rtc --------------------------------
(***************************************************************************)
(* The real-time clock driver, rtc.c, used by several processes.           *)
(*                                                                         *)
(* rtc_interrupt runs with interrupts off and is one action.  rtc_read,    *)
(* rtc_write and rtc_open run as system calls with interrupts on, so the   *)
(* PIT may switch to another process between any two of their port         *)
(* accesses, and the clock may interrupt them: each access is an action.   *)
(* So is each of the three accesses of disable_irq and enable_irq: they    *)
(* store slave_mask, load it again and write it to the 8259.  The clock    *)
(* chip and the 8259 are external: the chip has an index port, a register  *)
(* A (rate and divider) and a flag in register C that blocks further       *)
(* interrupts until C is read; the 8259 keeps a request until the line is  *)
(* unmasked.                                                               *)
(***************************************************************************)
EXTENDS Integers

CONSTANTS
  Procs,         \* processes that use the clock
  Frequencies,   \* process -> what it writes to the clock, in Hz
  NBytes         \* the sizes they pass to write

ASSUME RtcAssumption == \A p \in Procs : Frequencies[p] \subseteq Int

VARIABLES
  slave_mask,          \* is IRQ 8 disabled, as the driver has it?
  imr,                 \* is it disabled in the slave 8259?
  index,               \* the register selected at RTC_REG_PORT
  regA,                \* register A: rate, and the register whose high
                       \* nibble is in its divider bits
  flagC,               \* the interrupt flag of register C
  request,             \* IRQ 8 is requested at the 8259
  interrupt_occurred,
  pc,                  \* where each process is in the driver
  frequency,           \* what it passed to rtc_write
  currentA,            \* its local currentA
  latched,             \* the slave_mask it has loaded for the 8259
  ret,                 \* the value its last call returned
  since,               \* who had an interrupt while it waits in rtc_read
  disturbed            \* who had another process in the driver during its call

mask == <<slave_mask, imr>>
chip == <<index, regA, flagC>>
line == <<request, interrupt_occurred>>
calls == <<pc, frequency, currentA, latched, ret>>
history == <<since, disturbed>>
vars == <<mask, chip, line, calls, history>>

Writing == {"load1", "out1", "select", "read", "reselect", "data", "enable", "load0", "out0"}
PCs == {"user", "wait", "clear"} \cup Writing

HZ1024 == 6
DEFAULT_FREQUENCY == 2

(* rtc_init: it selects register B to turn periodic interrupts on; its     *)
(* rtc_write of 0 fails, so the rate is the one the BIOS left.             *)
Init ==
  /\ slave_mask = 0
  /\ imr = 0
  /\ index = "B"
  /\ regA = [high |-> "A", rate |-> HZ1024]
  /\ flagC = 0
  /\ request = FALSE
  /\ interrupt_occurred = 0
  /\ pc = [p \in Procs |-> "user"]
  /\ frequency = [p \in Procs |-> DEFAULT_FREQUENCY]
  /\ currentA = [p \in Procs |-> "A"]
  /\ latched = [p \in Procs |-> 0]
  /\ ret = [p \in Procs |-> 0]
  /\ since = {}
  /\ disturbed = {}
-----------------------------------------------------------------------------
(* A process in the driver goes on: whoever else is in it is disturbed.    *)
Goto(p, from, to) ==
  /\ pc[p] = from
  /\ pc' = [pc EXCEPT ![p] = to]
  /\ disturbed' = (IF to = "user" THEN disturbed \ {p} ELSE disturbed)
                    \cup {q \in Procs \ {p} : pc[q] # "user"}

Return(p, code) == ret' = [ret EXCEPT ![p] = code]

(* The stores of disable_irq and enable_irq; and both of their accesses,   *)
(* where interrupts are off.                                               *)
disable_irq == slave_mask' = 1
enable_irq == slave_mask' = 0

IrqEnabled == enable_irq /\ imr' = 0

(* outb(slave_mask, SLAVE_8259_DATA): the load ...                         *)
LoadMask(p) ==
  /\ Goto(p, "load1", "out1") \/ Goto(p, "load0", "out0")
  /\ latched' = [latched EXCEPT ![p] = slave_mask]
  /\ UNCHANGED <<mask, chip, line, frequency, currentA, ret, since>>

(* ... and the output, after which rtc_write goes on or returns (and its   *)
(* local variables are no more).                                           *)
OutMask(p) ==
  /\ \/ Goto(p, "out1", "select") /\ UNCHANGED <<ret, currentA>>
     \/ Goto(p, "out0", "user") /\ Return(p, 0) /\ currentA' = [currentA EXCEPT ![p] = "A"]
  /\ imr' = latched[p]
  /\ latched' = [latched EXCEPT ![p] = 0]
  /\ UNCHANGED <<slave_mask, chip, line, frequency, since>>
-----------------------------------------------------------------------------
(* rtc_write's tests on its arguments.                                     *)
Rejected(f, nbytes) == nbytes # 4 \/ f = 0 \/ f < 0 \/ f > 1024

Limits == <<2, 4, 8, 16, 32, 64, 128, 256, 512, 1024>>

RoundedDown(f) ==
  IF f < 2 THEN 15
  ELSE 16 - (CHOOSE n \in 1..10 : Limits[n] <= f /\ \A m \in 1..10 : Limits[m] <= f => m <= n)

(* The rate for a frequency: the first comparison of the chain with 2, 4,  *)
(* ... 1024 that holds, and the constants HZ2 = 15, HZ4 = 14, ...          *)
(* HZ1024 = 6.                                                             *)
RateFor(f) == 16 - (CHOOSE n \in 1..10 : f <= Limits[n] /\ \A m \in 1..10 : f <= Limits[m] => n <= m)

WriteFails(p) ==
  /\ pc[p] = "user"
  /\ \E f \in Frequencies[p], n \in NBytes :
       /\ Rejected(f, n)
       /\ frequency' = [frequency EXCEPT ![p] = f]
  /\ Return(p, -1)
  /\ UNCHANGED <<mask, chip, line, pc, currentA, latched, history>>

WriteStart(p, f) ==
  /\ Goto(p, "user", "load1")
  /\ ~Rejected(f, 4)
  /\ frequency' = [frequency EXCEPT ![p] = f]
  /\ disable_irq
  /\ UNCHANGED <<imr, chip, line, currentA, latched, ret, since>>

KeepsIndex == index
Selected == "A"

(* outb(RTC_REG_A | DISABLE_NMI, RTC_REG_PORT), before the read of         *)
(* register A and again before the write to it.                            *)
Select(p) ==
  /\ Goto(p, "select", "read") \/ Goto(p, "reselect", "data")
  /\ index' = Selected
  /\ UNCHANGED <<mask, regA, flagC, line, frequency, currentA, latched, ret, since>>

(* currentA = inb(RTC_CMOS_PORT), from the register that is selected then. *)
ReadA(p) ==
  /\ Goto(p, "read", "reselect")
  /\ currentA' = [currentA EXCEPT ![p] = IF index = "A" THEN regA.high ELSE index]
  /\ flagC' = IF index = "C" THEN 0 ELSE flagC
  /\ UNCHANGED <<mask, index, regA, line, frequency, latched, ret, since>>

(* outb(currentA & HIGH_RATE_MASK | rate, RTC_CMOS_PORT); register C       *)
(* ignores writes.                                                         *)
WriteA(p) ==
  /\ Goto(p, "data", "enable")
  /\ regA' = IF index = "A"
             THEN [high |-> currentA[p], rate |-> RateFor(frequency[p])]
             ELSE regA
  /\ UNCHANGED <<mask, index, flagC, line, frequency, currentA, latched, ret, since>>

(* enable_irq, up to its load.                                             *)
WriteEnds(p) ==
  /\ Goto(p, "enable", "load0")
  /\ enable_irq
  /\ UNCHANGED <<imr, chip, line, frequency, currentA, latched, ret, since>>

rtc_write(p) ==
  \/ WriteFails(p)
  \/ \E f \in Frequencies[p] : WriteStart(p, f)
  \/ LoadMask(p)
  \/ OutMask(p)
  \/ Select(p)
  \/ ReadA(p)
  \/ WriteA(p)
  \/ WriteEnds(p)

rtc_open(p) == WriteStart(p, DEFAULT_FREQUENCY)

FlagKept == interrupt_occurred
FlagReset == 0

(* The first part of rtc_read, with interrupts off: reset the flag and     *)
(* make sure that the interrupt can set it.                                *)
ReadStart(p) ==
  /\ Goto(p, "user", "wait")
  /\ interrupt_occurred' = FlagReset
  /\ IrqEnabled
  /\ UNCHANGED <<chip, request, frequency, currentA, latched, ret, since>>

(* while(interrupt_occurred==0) ends ...                                   *)
ReadSees(p) ==
  /\ Goto(p, "wait", "clear")
  /\ interrupt_occurred = 1
  /\ UNCHANGED <<mask, chip, line, frequency, currentA, latched, ret, since>>

(* ... and then the flag is reset, perhaps after another interrupt.        *)
ReadReturns(p) ==
  /\ Goto(p, "clear", "user")
  /\ interrupt_occurred' = 0
  /\ Return(p, 0)
  /\ since' = since \ {p}
  /\ UNCHANGED <<mask, chip, request, frequency, currentA, latched>>

rtc_read(p) == ReadStart(p) \/ ReadSees(p) \/ ReadReturns(p)
-----------------------------------------------------------------------------
(* The chip: the end of a period sets the flag, and requests an interrupt  *)
(* unless the last one has not been acknowledged.                          *)
Period ==
  /\ regA.rate # 0
  /\ flagC' = 1
  /\ request' = (request \/ flagC = 0)
  /\ UNCHANGED <<mask, index, regA, interrupt_occurred, calls, history>>

AcknowledgeForgotten == flagC
Acknowledged == 0
NotRaised == interrupt_occurred
Raised == 1

rtc_interrupt ==
  /\ request /\ imr = 0
  /\ index' = "C"
  /\ flagC' = Acknowledged
  /\ request' = FALSE
  /\ interrupt_occurred' = Raised
  /\ IrqEnabled
  /\ since' = since \cup {p \in Procs : pc[p] = "wait"}
  /\ UNCHANGED <<regA, calls, disturbed>>

Step(p) == rtc_write(p) \/ rtc_open(p) \/ rtc_read(p)

Next == (\E p \in Procs : Step(p)) \/ Period \/ rtc_interrupt

Spec == Init /\ [][Next]_vars

(* The scheduler gives every process the processor again and again, so a   *)
(* call that was begun goes on; the chip keeps counting and the 8259 keeps *)
(* its requests.  No process has to make a call.                           *)
Fairness ==
  /\ WF_vars(Period)
  /\ WF_vars(rtc_interrupt)
  /\ \A p \in Procs : WF_vars(pc[p] # "user" /\ Step(p))

FairSpec == Spec /\ Fairness
-----------------------------------------------------------------------------
(* Types.                                                                  *)
TypeOK ==
  /\ slave_mask \in 0..1 /\ imr \in 0..1
  /\ index \in {"A", "B", "C"}
  /\ regA \in [high : {"A", "B", "C"}, rate : 0..15]
  /\ flagC \in 0..1
  /\ request \in BOOLEAN
  /\ interrupt_occurred \in 0..1
  /\ pc \in [Procs -> PCs]
  /\ frequency \in [Procs -> Int]
  /\ currentA \in [Procs -> {"A", "B", "C"}]
  /\ latched \in [Procs -> 0..1]
  /\ ret \in [Procs -> {-1, 0}]
  /\ since \subseteq Procs /\ disturbed \subseteq Procs

(* rtc_read "should always return 0, but only after an interrupt has       *)
(* occurred": no process gets past the wait on an interrupt from before    *)
(* its call, whoever else resets or sees the shared flag.                  *)
ReadAfterInterrupt == \A p \in Procs : pc[p] = "clear" => p \in since

(* The clock never falls silent: while register C holds its flag, which    *)
(* keeps the chip from requesting, a request is pending that will read it. *)
NoWedge == flagC = 1 => request

(* The chip divides its 32768 Hz by 2 to the power of rate - 1.            *)
Dividers == <<1, 2, 4, 8, 16, 32, 64, 128, 256, 512, 1024, 2048, 4096, 8192, 16384>>

Hz(rate) == 32768 \div Dividers[rate]

(* A process that had the driver to itself since its call, and the line    *)
(* masked where rtc_write relies on it.                                    *)
Undisturbed(p) == p \notin disturbed
Protected(p) == Undisturbed(p) /\ imr = 1

(* rtc_write sets "the rate of periodic interrupts accordingly", "rounded  *)
(* up": when it is about to enable the line again, the chip ticks at least *)
(* as often as asked, and less than twice as often (2 Hz is the slowest).  *)
SetsRate ==
  \A p \in Procs : pc[p] = "enable" /\ Protected(p) =>
    /\ Hz(regA.rate) >= frequency[p]
    /\ frequency[p] >= 2 => Hz(regA.rate) < 2 * frequency[p]

(* The byte a protected rtc_write computes goes to register A, and its     *)
(* divider bits are those that register A has.                             *)
WritesRegisterA ==
  \A p \in Procs : pc[p] = "data" /\ Protected(p) => index = "A" /\ currentA[p] = regA.high

(* "set A with new rate": so does any rtc_write.                           *)
AlwaysRegisterA == \A p \in Procs : pc[p] = "data" => index = "A" /\ currentA[p] = "A"

(* interrupt_occurred is there for "the rtc_read check if any interrupt    *)
(* occurs": an interrupt during the wait of a process stays visible until  *)
(* it has seen it, unless another process uses the driver meanwhile.       *)
NoLostInterrupt ==
  \A p \in Procs : pc[p] = "wait" /\ Undisturbed(p) /\ p \in since => interrupt_occurred = 1

(* The same, also when the clock is shared.                                *)
NeverLost == \A p \in Procs : pc[p] = "wait" /\ p \in since => interrupt_occurred = 1

(* "If pointer to frequency is null, fail": the pointers here are not      *)
(* null, so a 4-byte write of a frequency from 0 to 1024 does not fail.    *)
OnlyNullFails ==
  NBytes = {4} => \A p \in Procs : ret[p] = -1 => frequency[p] \notin 0..1024

OthersAway(p) == \A q \in Procs \ {p} : pc[q] = "user"

(* A call to rtc_read returns, once the other processes leave the driver   *)
(* and if they have left the line open.                                    *)
ReadCompletes ==
  \A p \in Procs :
    <>[]OthersAway(p) /\ []<>(imr = 0) => (pc[p] = "wait" ~> pc[p] = "user")

(* The other processes leave the line open: once they have left the driver *)
(* a call to rtc_read returns.                                             *)
LineLeftOpen ==
  \A p \in Procs : <>[]OthersAway(p) => (pc[p] = "wait" ~> pc[p] = "user")
=============================================================================
