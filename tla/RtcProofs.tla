----------------------------- MODULE RtcProofs -----------------------------
(***************************************************************************)
(* Theorems about the driver of the clock, for every set of processes and  *)
(* frequencies, and about what a program does on its ticks: the blink list *)
(* of fish, for every size of its array and of the screen.                 *)
(***************************************************************************)
EXTENDS Rtc, Blink, FiniteSetTheorems, TLAPS

(* While the flag is set, every process that waits has had an interrupt    *)
(* since its call: ReadStart, the only step that begins a wait, also       *)
(* resets the flag.                                                        *)
ReadInv ==
  /\ pc \in [Procs -> PCs]
  /\ \A p \in Procs :
       /\ pc[p] = "clear" => p \in since
       /\ pc[p] = "wait" /\ interrupt_occurred = 1 => p \in since

(* However many processes share the flag, rtc_read returns only after an   *)
(* interrupt that came after its call.                                     *)
THEOREM ReadAfterInterruptAlways == Spec => []ReadAfterInterrupt
<1>1. Init => ReadInv
  BY DEF Init, ReadInv, PCs
<1>2. ReadInv /\ [Next]_vars => ReadInv'
  <2> SUFFICES ASSUME ReadInv, [Next]_vars PROVE ReadInv'
    OBVIOUS
  <2> USE DEF ReadInv, PCs, Writing, Goto, line
  <2>1. ASSUME NEW p \in Procs, WriteFails(p) PROVE ReadInv'
    BY <2>1 DEF WriteFails, history
  <2>2. ASSUME NEW p \in Procs, NEW f, WriteStart(p, f) PROVE ReadInv'
    BY <2>2 DEF WriteStart
  <2>3. ASSUME NEW p \in Procs, Select(p) \/ ReadA(p) \/ WriteA(p) \/ WriteEnds(p)
        PROVE  ReadInv'
    BY <2>3 DEF Select, ReadA, WriteA, WriteEnds
  <2>4. ASSUME NEW p \in Procs, LoadMask(p) \/ OutMask(p) PROVE ReadInv'
    BY <2>4 DEF LoadMask, OutMask
  <2>5. ASSUME NEW p \in Procs, ReadStart(p) PROVE ReadInv'
    BY <2>5 DEF ReadStart, FlagReset
  <2>6. ASSUME NEW p \in Procs, ReadSees(p) PROVE ReadInv'
    BY <2>6 DEF ReadSees
  <2>7. ASSUME NEW p \in Procs, ReadReturns(p) PROVE ReadInv'
    BY <2>7 DEF ReadReturns
  <2>8. CASE Period
    BY <2>8 DEF Period, calls, history
  <2>9. CASE rtc_interrupt
    BY <2>9 DEF rtc_interrupt, calls
  <2>10. CASE UNCHANGED vars
    BY <2>10 DEF vars, calls, history
  <2> QED
    BY <2>1, <2>2, <2>3, <2>4, <2>5, <2>6, <2>7, <2>8, <2>9, <2>10
       DEF Next, Step, rtc_write, rtc_open, rtc_read
<1>3. ReadInv => ReadAfterInterrupt
  BY DEF ReadInv, ReadAfterInterrupt
<1> QED
  BY <1>1, <1>2, <1>3, PTL DEF Spec

(* Register C never holds its flag without a request that will clear it,   *)
(* even when rtc_write of one process reads C by accident.                 *)
THEOREM NoWedgeAlways == Spec => []NoWedge
<1> DEFINE Inv == NoWedge /\ flagC \in 0..1
<1>1. Init => Inv
  BY DEF Init, NoWedge
<1>2. Inv /\ [Next]_vars => Inv'
  <2> SUFFICES ASSUME NoWedge, flagC \in 0..1, [Next]_vars PROVE Inv'
    OBVIOUS
  <2> USE DEF NoWedge, chip, line
  <2>1. ASSUME NEW p \in Procs, Step(p) PROVE Inv'
    <3>1. request' = request /\ (flagC' = flagC \/ flagC' = 0)
      BY <2>1 DEF Step, rtc_write, rtc_open, rtc_read, WriteFails, WriteStart, LoadMask,
                  OutMask, Select, ReadA, WriteA, WriteEnds, ReadStart, ReadSees, ReadReturns
    <3> QED
      BY <3>1
  <2>2. CASE Period
    <3>1. request \/ flagC = 0
      OBVIOUS
    <3>2. request'
      BY Zenon, <2>2, <3>1 DEF Period
    <3> QED
      BY <2>2, <3>2 DEF Period
  <2>3. CASE rtc_interrupt
    BY <2>3 DEF rtc_interrupt, Acknowledged
  <2>4. CASE UNCHANGED vars
    BY <2>4 DEF vars
  <2> QED
    BY <2>1, <2>2, <2>3, <2>4 DEF Next
<1> QED
  BY <1>1, <1>2, PTL DEF Spec
-----------------------------------------------------------------------------
(* Once an rtc_write is protected it stays so until another process enters *)
(* the driver: the interrupt needs the line open.  So the index is the one *)
(* it selected, and its copy of the divider bits is up to date.            *)
WriteInv ==
  /\ pc \in [Procs -> PCs]
  /\ currentA \in [Procs -> {"A", "B", "C"}]
  /\ index \in {"A", "B", "C"} /\ regA.high \in {"A", "B", "C"}
  /\ \A p \in Procs : Protected(p) =>
       /\ pc[p] \in {"read", "data"} => index = "A"
       /\ pc[p] \in {"reselect", "data"} => currentA[p] = regA.high
       /\ pc[p] = "enable" => regA.rate = RateFor(frequency[p])

(* The rate in register A when a protected rtc_write is about to return is *)
(* the one for its frequency.                                              *)
RateWritten ==
  \A p \in Procs : pc[p] = "enable" /\ Protected(p) => regA.rate = RateFor(frequency[p])

(* Init establishes WriteInv and every step of Rtc keeps it.               *)
LEMMA WriteInvAlways == Spec => []WriteInv
<1>1. Init => WriteInv
  BY DEF Init, WriteInv, PCs, Writing, Protected
<1>2. WriteInv /\ [Next]_vars => WriteInv'
  <2> SUFFICES ASSUME WriteInv, [Next]_vars PROVE WriteInv'
    OBVIOUS
  <2> USE DEF WriteInv, PCs, Writing, Protected, Undisturbed, Goto, chip
  <2>1. ASSUME NEW p \in Procs, WriteFails(p) PROVE WriteInv'
    BY <2>1 DEF WriteFails, history, mask
  <2>2. ASSUME NEW p \in Procs, NEW f, WriteStart(p, f) PROVE WriteInv'
    BY <2>2 DEF WriteStart
  <2>3. ASSUME NEW p \in Procs, LoadMask(p) PROVE WriteInv'
    BY <2>3 DEF LoadMask, mask
  <2>4. ASSUME NEW p \in Procs, OutMask(p) PROVE WriteInv'
    BY <2>4 DEF OutMask
  <2>5. ASSUME NEW p \in Procs, Select(p) PROVE WriteInv'
    BY <2>5 DEF Select, Selected, mask
  <2>6. ASSUME NEW p \in Procs, ReadA(p) PROVE WriteInv'
    BY <2>6 DEF ReadA, mask
  <2>7. ASSUME NEW p \in Procs, WriteA(p) PROVE WriteInv'
    BY <2>7 DEF WriteA, mask
  <2>8. ASSUME NEW p \in Procs, WriteEnds(p) PROVE WriteInv'
    BY <2>8 DEF WriteEnds
  <2>9. ASSUME NEW p \in Procs, ReadStart(p) \/ ReadSees(p) \/ ReadReturns(p) PROVE WriteInv'
    BY <2>9 DEF ReadStart, ReadSees, ReadReturns, mask, IrqEnabled
  <2>10. CASE Period
    BY <2>10 DEF Period, calls, mask, history
  <2>11. CASE rtc_interrupt
    BY <2>11 DEF rtc_interrupt, calls, IrqEnabled
  <2>12. CASE UNCHANGED vars
    BY <2>12 DEF vars, calls, mask, history
  <2> QED
    BY <2>1, <2>2, <2>3, <2>4, <2>5, <2>6, <2>7, <2>8, <2>9, <2>10, <2>11, <2>12
       DEF Next, Step, rtc_write, rtc_open, rtc_read
<1> QED
  BY <1>1, <1>2, PTL DEF Spec

(* Whatever the other processes did before, a protected rtc_write sends    *)
(* its byte to register A and keeps the divider bits.                      *)
THEOREM ProtectedWritesRegisterA == Spec => []WritesRegisterA
<1>1. WriteInv => WritesRegisterA
  BY DEF WriteInv, WritesRegisterA
<1> QED
  BY <1>1, WriteInvAlways, PTL

(* And the rate it leaves in the chip is the one for its frequency.        *)
THEOREM RateWrittenAlways == Spec => []RateWritten
<1>1. WriteInv => RateWritten
  BY DEF WriteInv, RateWritten
<1> QED
  BY <1>1, WriteInvAlways, PTL

(* The chain of comparisons ends, for every frequency that is not refused, *)
(* at the smallest power of 2 that is not below it.                        *)
LEMMA RoundedUp ==
  ASSUME NEW f \in Int, 0 < f, f <= 1024
  PROVE  /\ Hz(RateFor(f)) >= f
         /\ f >= 2 => Hz(RateFor(f)) < 2 * f
<1> DEFINE First(n) == f <= Limits[n] /\ \A m \in 1..10 : f <= Limits[m] => n <= m
<1>1. \E n \in 1..10 : First(n)
  BY DEF Limits
<1>2. PICK n \in 1..10 : First(n) /\ RateFor(f) = 16 - n
  BY <1>1, ZenonT(40) DEF RateFor
<1>3. Hz(16 - n) = Limits[n]
  BY DEF Hz, Dividers, Limits
<1>4. n = 1 \/ f > Limits[n - 1]
  BY <1>2 DEF Limits
<1>5. n # 1 => Limits[n] = 2 * Limits[n - 1]
  BY DEF Limits
<1> QED
  BY <1>2, <1>3, <1>4, <1>5 DEF Limits

(* A process that is in rtc_write has passed its tests.                    *)
AskedInv ==
  /\ pc \in [Procs -> PCs]
  /\ frequency \in [Procs -> Int]
  /\ \A p \in Procs : pc[p] \in Writing => 0 < frequency[p] /\ frequency[p] <= 1024

(* Init establishes AskedInv and every step of Rtc keeps it.               *)
LEMMA AskedInvAlways == Spec => []AskedInv
<1>1. Init => AskedInv
  BY DEF Init, AskedInv, PCs, Writing, DEFAULT_FREQUENCY
<1>2. AskedInv /\ [Next]_vars => AskedInv'
  <2> SUFFICES ASSUME AskedInv, [Next]_vars PROVE AskedInv'
    OBVIOUS
  <2> USE DEF AskedInv, PCs, Writing, Goto
  <2>1. ASSUME NEW p \in Procs, WriteFails(p) PROVE AskedInv'
    BY <2>1, RtcAssumption DEF WriteFails
  <2>2. ASSUME NEW p \in Procs, NEW f \in Int, WriteStart(p, f) PROVE AskedInv'
    BY <2>2 DEF WriteStart, Rejected
  <2>3. ASSUME NEW p \in Procs, Select(p) \/ ReadA(p) \/ WriteA(p) \/ WriteEnds(p)
        PROVE  AskedInv'
    BY <2>3 DEF Select, ReadA, WriteA, WriteEnds
  <2>4. ASSUME NEW p \in Procs, LoadMask(p) \/ OutMask(p) PROVE AskedInv'
    BY <2>4 DEF LoadMask, OutMask
  <2>5. ASSUME NEW p \in Procs, rtc_read(p) PROVE AskedInv'
    BY <2>5 DEF rtc_read, ReadStart, ReadSees, ReadReturns
  <2>6. CASE Period \/ rtc_interrupt \/ UNCHANGED vars
    BY <2>6 DEF Period, rtc_interrupt, vars, calls
  <2>7. DEFAULT_FREQUENCY \in Int
    BY DEF DEFAULT_FREQUENCY
  <2> QED
    BY SMTT(40), <2>1, <2>2, <2>3, <2>4, <2>5, <2>6, <2>7, RtcAssumption
       DEF Next, Step, rtc_write, rtc_open
<1> QED
  BY <1>1, <1>2, PTL DEF Spec

(* So the chip ticks at least as often as a protected rtc_write asked, and *)
(* less than twice as often.                                               *)
THEOREM SetsRateAlways == Spec => []SetsRate
<1>1. WriteInv /\ AskedInv => SetsRate
  <2> SUFFICES ASSUME WriteInv, AskedInv, NEW p \in Procs, pc[p] = "enable", Protected(p)
               PROVE  /\ Hz(regA.rate) >= frequency[p]
                      /\ frequency[p] >= 2 => Hz(regA.rate) < 2 * frequency[p]
    BY DEF SetsRate
  <2>1. regA.rate = RateFor(frequency[p])
    BY DEF WriteInv
  <2>2. frequency[p] \in Int /\ 0 < frequency[p] /\ frequency[p] <= 1024
    BY DEF AskedInv, Writing
  <2> QED
    BY <2>1, <2>2, RoundedUp
<1> QED
  BY <1>1, WriteInvAlways, AskedInvAlways, PTL
-----------------------------------------------------------------------------
(* Only processes in rtc_read are in since, and the flag is up for those   *)
(* of them that nobody disturbed.                                          *)
FlagInv ==
  /\ pc \in [Procs -> PCs]
  /\ \A p \in Procs :
       /\ p \in since => pc[p] \in {"wait", "clear"}
       /\ pc[p] = "wait" /\ Undisturbed(p) /\ p \in since => interrupt_occurred = 1

(* A process that waits undisturbed loses no interrupt, whatever happened  *)
(* before its call.                                                        *)
THEOREM NoLostInterruptAlways == Spec => []NoLostInterrupt
<1>1. Init => FlagInv
  BY DEF Init, FlagInv, PCs, Writing
<1>2. FlagInv /\ [Next]_vars => FlagInv'
  <2> SUFFICES ASSUME FlagInv, [Next]_vars PROVE FlagInv'
    OBVIOUS
  <2> USE DEF FlagInv, PCs, Writing, Undisturbed, Goto, line
  <2>1. ASSUME NEW p \in Procs, WriteFails(p) PROVE FlagInv'
    BY <2>1 DEF WriteFails, history
  <2>2. ASSUME NEW p \in Procs, NEW f, WriteStart(p, f) PROVE FlagInv'
    BY <2>2 DEF WriteStart
  <2>3. ASSUME NEW p \in Procs, Select(p) \/ ReadA(p) \/ WriteA(p) \/ WriteEnds(p)
        PROVE  FlagInv'
    BY <2>3 DEF Select, ReadA, WriteA, WriteEnds
  <2>4. ASSUME NEW p \in Procs, LoadMask(p) \/ OutMask(p) PROVE FlagInv'
    BY <2>4 DEF LoadMask, OutMask
  <2>5. ASSUME NEW p \in Procs, ReadStart(p) PROVE FlagInv'
    BY <2>5 DEF ReadStart
  <2>6. ASSUME NEW p \in Procs, ReadSees(p) PROVE FlagInv'
    BY <2>6 DEF ReadSees
  <2>7. ASSUME NEW p \in Procs, ReadReturns(p) PROVE FlagInv'
    BY <2>7 DEF ReadReturns
  <2>8. CASE Period
    BY <2>8 DEF Period, calls, history
  <2>9. CASE rtc_interrupt
    BY <2>9 DEF rtc_interrupt, calls, Raised
  <2>10. CASE UNCHANGED vars
    BY <2>10 DEF vars, calls, history
  <2> QED
    BY <2>1, <2>2, <2>3, <2>4, <2>5, <2>6, <2>7, <2>8, <2>9, <2>10
       DEF Next, Step, rtc_write, rtc_open, rtc_read
<1>3. FlagInv => NoLostInterrupt
  BY DEF FlagInv, NoLostInterrupt
<1> QED
  BY <1>1, <1>2, <1>3, PTL DEF Spec

-----------------------------------------------------------------------------
(* The blink list of fish.                                                 *)

(* A set of natural numbers that is not empty has a least element.         *)
LEMMA Least == ASSUME NEW T, T \subseteq Nat, T # {} PROVE \E x \in T : \A y \in T : x <= y
<1> DEFINE R == OpToRel(<, Nat)
<1>1. IsWellFoundedOn(R, Nat)
  BY NatLessThanWellFounded
<1>2. \A x, y \in Nat : y < x => <<y, x>> \in R
  BY DEF OpToRel
<1> HIDE DEF R
<1>3. \E x \in T : \A y \in T : ~(<<y, x>> \in R)
  BY <1>1, WFMin
<1>4. PICK x \in T : \A y \in T : ~(<<y, x>> \in R)
  BY <1>3
<1>5. \A y \in T : ~(y < x)
  BY <1>2, <1>4
<1> QED
  BY <1>5

(* Induction, on the set of the numbers that have the property.            *)
LEMMA ByInduction ==
  ASSUME NEW S, 0 \in S, \A n \in Nat : n \in S => n + 1 \in S
  PROVE  Nat \subseteq S
<1> SUFFICES ASSUME ~(Nat \subseteq S) PROVE FALSE
  OBVIOUS
<1> DEFINE T == {n \in Nat : n \notin S}
<1>1. PICK x \in T : \A y \in T : x <= y
  <2>1. T \subseteq Nat /\ T # {}
    OBVIOUS
  <2> HIDE DEF T
  <2> QED
    BY <2>1, Least
<1>2. x # 0 /\ x \in Nat
  OBVIOUS
<1>3. x - 1 \in Nat /\ x - 1 \in S
  BY <1>1, <1>2
<1>4. (x - 1) + 1 \in S
  BY <1>3
<1> QED
  BY <1>2, <1>4

(* n cells without repetition, linked in the order of L from the head to   *)
(* Null, that are the ones in use.                                         *)
Linked(array, head, n, L) ==
  /\ n \in 0..ArraySize /\ L \in [1..n -> Cells]
  /\ \A i, j \in 1..n : L[i] = L[j] => i = j
  /\ head = IF n = 0 THEN Null ELSE L[1]
  /\ \A i \in 1..n : array[L[i]].next = IF i = n THEN Null ELSE L[i + 1]
  /\ {L[i] : i \in 1..n} = {c \in Cells : array[c] # Zero}

(* A structure in a cell: free, or at a place of the screen that is not 0. *)
GoodCell(s) ==
  /\ IsStruct(s)
  /\ s = Zero \/ s.location \in Locations \ {0}
  /\ s.status \in {0, 1}

ListInv ==
  /\ blink_array = [c \in Cells |-> blink_array[c]]
  /\ \A c \in Cells : GoodCell(blink_array[c])
  /\ vmem = [p \in Locations |-> vmem[p]]
  /\ \E n, L : Linked(blink_array, mp1_list_head, n, L)

(* No structure is added at location 0, which marks a free cell.           *)
NoneAtZero == \A s \in Structs : s.location # 0

(* A list without repetition is no longer than the array.                  *)
LEMMA FitsArray ==
  ASSUME NEW n \in Nat, NEW L \in [1..n -> Cells], \A i, j \in 1..n : L[i] = L[j] => i = j
  PROVE  n \in 0..ArraySize
<1> SUFFICES ASSUME n > ArraySize PROVE FALSE
  BY BlinkAssumption
<1>1. IsFiniteSet(1..n) /\ Cardinality(1..n) = n
  <2>1. 1 \in Int /\ n \in Int
    OBVIOUS
  <2>2. IsFiniteSet(1..n) /\ Cardinality(1..n) = IF 1 > n THEN 0 ELSE n - 1 + 1
    BY ONLY <2>1, FS_Interval
  <2> QED
    BY <2>2
<1>2. IsFiniteSet(Cells) /\ Cardinality(Cells) = ArraySize
  <2>1. 1 \in Int /\ ArraySize \in Int
    BY BlinkAssumption
  <2>2. IsFiniteSet(1..ArraySize) /\ Cardinality(1..ArraySize) = IF 1 > ArraySize THEN 0 ELSE ArraySize - 1 + 1
    BY ONLY <2>1, FS_Interval
  <2> QED
    BY <2>2, BlinkAssumption DEF Cells
<1>3. Cardinality(Cells) < Cardinality(1..n)
  BY <1>1, <1>2
<1>4. \E i, j \in 1..n : i # j /\ L[i] = L[j]
  BY <1>1, <1>2, <1>3, FS_PigeonHole
<1> QED
  BY <1>4

(* Following next from the head walks the list.                            *)
LEMMA AfterIs ==
  ASSUME NEW n, NEW L, Linked(blink_array, mp1_list_head, n, L)
  PROVE  \A k \in 0..(ArraySize + 1) : After[k] = IF k < n THEN L[k + 1] ELSE Null
<1> DEFINE D == 0..(ArraySize + 1)
           IsAfter(f) == f = [k \in D |-> IF k = 0 THEN mp1_list_head
                                          ELSE IF f[k - 1] = Null THEN Null ELSE blink_array[f[k - 1]].next]
           h == [k \in D |-> IF k < n THEN L[k + 1] ELSE Null]
<1>1. n \in Nat /\ n <= ArraySize /\ ArraySize \in Nat /\ L \in [1..n -> Cells]
  BY BlinkAssumption DEF Linked
<1>2. \A c \in Cells : c # Null
  BY DEF Cells, Null
<1>3. h[0] = mp1_list_head
  BY <1>1 DEF Linked
<1>4. \A k \in D \ {0} : k - 1 \in D /\ k - 1 \in Nat /\ k \in Nat
  BY <1>1
<1>5. ASSUME NEW k \in D \ {0}
      PROVE  h[k] = IF h[k - 1] = Null THEN Null ELSE blink_array[h[k - 1]].next
  <2>1. CASE k - 1 < n
    <3>1. h[k - 1] = L[k] /\ k \in 1..n
      BY <1>1, <1>4, <2>1
    <3>2. h[k - 1] # Null
      BY <1>1, <1>2, <3>1
    <3>3. blink_array[L[k]].next = IF k = n THEN Null ELSE L[k + 1]
      BY <3>1 DEF Linked
    <3>4. h[k] = IF k = n THEN Null ELSE L[k + 1]
      BY <1>1, <3>1
    <3> QED
      BY <3>1, <3>2, <3>3, <3>4
  <2>2. CASE ~(k - 1 < n)
    BY <1>1, <1>4, <2>2
  <2> QED
    BY <2>1, <2>2
<1>6. IsAfter(h)
  BY <1>3, <1>5
<1>7. IsAfter(After)
  <2>1. After = CHOOSE f : IsAfter(f)
    BY DEF After, NextOf
  <2> HIDE DEF IsAfter
  <2> QED
    BY <1>6, <2>1, Zenon
<1>8. \A k \in D : After[k] = h[k]
  <2> DEFINE S == {k \in Nat : k \in D => After[k] = h[k]}
  <2>1. 0 \in S
    BY <1>3, <1>7
  <2>2. ASSUME NEW k \in Nat, k \in S PROVE k + 1 \in S
    <3> SUFFICES ASSUME k + 1 \in D PROVE After[k + 1] = h[k + 1]
      OBVIOUS
    <3>1. k \in D /\ k + 1 - 1 = k /\ k + 1 # 0 /\ k + 1 \in D \ {0}
      BY <1>1
    <3>2. After[k] = h[k]
      BY <2>2, <3>1
    <3>3. After[k + 1] = IF After[k] = Null THEN Null ELSE blink_array[After[k]].next
      BY <1>7, <3>1
    <3>4. h[k + 1] = IF h[k] = Null THEN Null ELSE blink_array[h[k]].next
      <4> HIDE DEF h
      <4>1. h[k + 1] = IF h[k + 1 - 1] = Null THEN Null ELSE blink_array[h[k + 1 - 1]].next
        BY <1>5, <3>1
      <4> QED
        BY <3>1, <4>1
    <3> QED
      BY <3>2, <3>3, <3>4
  <2> HIDE DEF S
  <2>3. Nat \subseteq S
    BY <2>1, <2>2, ByInduction
  <2> QED
    BY <1>4, <2>3 DEF S
<1> QED
  BY <1>8

(* So List is the list.                                                    *)
LEMMA ListIs ==
  ASSUME NEW n, NEW L, Linked(blink_array, mp1_list_head, n, L)
  PROVE  List = L /\ Len(List) = n /\ Range(List) = {L[i] : i \in 1..n}
<1> DEFINE P(m) == /\ \A k \in 0..(m - 1) : After[k] # Null
                   /\ m = ArraySize + 1 \/ After[m] = Null
<1>1. n \in Nat /\ n <= ArraySize /\ ArraySize \in Nat /\ L \in [1..n -> Cells]
  BY BlinkAssumption DEF Linked
<1>2. \A c \in Cells : c # Null
  BY DEF Cells, Null
<1>3. \A k \in 0..(ArraySize + 1) : After[k] = IF k < n THEN L[k + 1] ELSE Null
  BY AfterIs
<1>4. n \in 0..(ArraySize + 1) /\ P(n)
  BY <1>1, <1>2, <1>3
<1>5. \A m \in 0..(ArraySize + 1) : P(m) => m = n
  BY <1>1, <1>2, <1>3
<1>6. (CHOOSE m \in 0..(ArraySize + 1) : P(m)) = n
  <2> HIDE DEF P
  <2> QED
    BY <1>4, <1>5
<1>7. List = [k \in 1..n |-> After[k - 1]]
  BY <1>6 DEF List
<1>8. \A k \in 1..n : After[k - 1] = L[k]
  BY <1>1, <1>3
<1>9. List = L
  BY <1>1, <1>7, <1>8
<1>10. Len(L) = n /\ DOMAIN L = 1..n
  BY <1>1
<1> QED
  BY <1>9, <1>10 DEF Range

-----------------------------------------------------------------------------
(* What the calls do to the list.                                          *)

(* add: a free cell goes in front.                                         *)
LEMMA Pushed ==
  ASSUME NEW array, NEW new, NEW head, NEW n, NEW L, NEW c \in Cells,
         Linked(array, head, n, L), array[c] = Zero,
         \A d \in Cells \ {c} : new[d] = array[d],
         new[c] # Zero, new[c].next = head
  PROVE  Linked(new, c, n + 1, [i \in 1..(n + 1) |-> IF i = 1 THEN c ELSE L[i - 1]])
<1> DEFINE M == [i \in 1..(n + 1) |-> IF i = 1 THEN c ELSE L[i - 1]]
<1>1. n \in Nat /\ L \in [1..n -> Cells]
  BY BlinkAssumption DEF Linked
<1>2. \A i \in 1..(n + 1) : i = 1 \/ i - 1 \in 1..n
  BY <1>1
<1>3. M \in [1..(n + 1) -> Cells]
  BY <1>1, <1>2
<1>4. \A i \in 1..n : L[i] # c /\ L[i] \in Cells
  BY <1>1 DEF Linked
<1>5. M[1] = c /\ \A i \in 1..n : M[i + 1] = L[i]
  BY <1>1
<1>6. \A i, j \in 1..(n + 1) : M[i] = M[j] => i = j
  <2> SUFFICES ASSUME NEW i \in 1..(n + 1), NEW j \in 1..(n + 1), M[i] = M[j] PROVE i = j
    OBVIOUS
  <2>1. CASE i = 1 \/ j = 1
    BY <1>1, <1>2, <1>4, <2>1
  <2>2. CASE i # 1 /\ j # 1
    <3>1. i - 1 \in 1..n /\ j - 1 \in 1..n /\ L[i - 1] = L[j - 1]
      BY <1>2, <2>2
    <3>2. i - 1 = j - 1
      BY <3>1 DEF Linked
    <3> QED
      BY <1>1, <3>2
  <2> QED
    BY <2>1, <2>2
<1>7. n + 1 \in Nat
  BY <1>1
<1> HIDE DEF M
<1>8. n + 1 \in 0..ArraySize
  BY ONLY <1>3, <1>6, <1>7, FitsArray
<1>9. \A i \in 1..(n + 1) : new[M[i]].next = IF i = n + 1 THEN Null ELSE M[i + 1]
  <2> SUFFICES ASSUME NEW i \in 1..(n + 1) PROVE new[M[i]].next = IF i = n + 1 THEN Null ELSE M[i + 1]
    OBVIOUS
  <2>1. CASE i = 1
    <3>1. n # 0 => 1 \in 1..n
      BY <1>1
    <3>2. head = IF n = 0 THEN Null ELSE L[1]
      BY DEF Linked
    <3> QED
      BY <1>1, <1>5, <2>1, <3>1, <3>2
  <2>2. CASE i # 1
    <3>1. i - 1 \in 1..n /\ i - 1 + 1 = i
      BY <1>1, <1>2, <2>2
    <3>2. M[i] = L[i - 1]
      BY <1>5, <3>1
    <3>3. new[M[i]] = array[L[i - 1]]
      BY <1>4, <3>1, <3>2
    <3>4. array[L[i - 1]].next = IF i - 1 = n THEN Null ELSE L[i]
      BY <3>1 DEF Linked
    <3>5. i - 1 # n => i \in 1..n
      BY <1>1, <3>1
    <3> QED
      BY <1>1, <1>5, <3>1, <3>3, <3>4, <3>5
  <2> QED
    BY <2>1, <2>2
<1>10. {M[i] : i \in 1..(n + 1)} = {d \in Cells : new[d] # Zero}
  <2>1. {L[i] : i \in 1..n} = {d \in Cells : array[d] # Zero}
    BY DEF Linked
  <2>2. {M[i] : i \in 1..(n + 1)} = {c} \cup {L[i] : i \in 1..n}
    <3>1. \A i \in 1..(n + 1) : M[i] \in {c} \cup {L[j] : j \in 1..n}
      <4> TAKE i \in 1..(n + 1)
      <4>1. i # 1 => i - 1 \in 1..n /\ i - 1 + 1 = i
        BY <1>1, <1>2
      <4> QED
        BY <1>5, <4>1
    <3>2. \A i \in 1..n : i + 1 \in 1..(n + 1)
      BY <1>1
    <3>3. 1 \in 1..(n + 1)
      BY <1>1
    <3> QED
      BY <1>5, <3>1, <3>2, <3>3
  <2> QED
    BY <2>1, <2>2
<1>11. c = IF n + 1 = 0 THEN Null ELSE M[1]
  BY <1>1, <1>5
<1> QED
  BY <1>3, <1>6, <1>8, <1>9, <1>10, <1>11 DEF Linked, M

(* Changes that leave the links alone.                                     *)
LEMMA Relinked ==
  ASSUME NEW array, NEW new, NEW head, NEW n, NEW L, Linked(array, head, n, L),
         \A c \in Cells : (new[c] = Zero <=> array[c] = Zero) /\ new[c].next = array[c].next
  PROVE  Linked(new, head, n, L)
<1>1. \A i \in 1..n : L[i] \in Cells
  BY DEF Linked
<1> QED
  BY <1>1 DEF Linked

(* remove: the cell in front of the removed one is linked to the one after.*)
LEMMA CutOut ==
  ASSUME NEW array, NEW new, NEW head, NEW n, NEW L, Linked(array, head, n, L), NEW k \in 1..n,
         new[L[k]] = Zero,
         \A c \in Cells \ {L[k]} :
           /\ new[c] = Zero <=> array[c] = Zero
           /\ array[c] # Zero =>
                new[c].next = IF array[c].next = L[k] THEN array[L[k]].next ELSE array[c].next
  PROVE  Linked(new, IF head = L[k] THEN array[L[k]].next ELSE head,
                n - 1, [i \in 1..(n - 1) |-> IF i < k THEN L[i] ELSE L[i + 1]])
<1> DEFINE M == [i \in 1..(n - 1) |-> IF i < k THEN L[i] ELSE L[i + 1]]
           at(i) == IF i < k THEN i ELSE i + 1
<1>1. n \in Nat /\ k \in Nat /\ k <= n /\ k >= 1 /\ L \in [1..n -> Cells] /\ ArraySize \in Nat /\ n <= ArraySize
  BY BlinkAssumption DEF Linked
<1>2. \A i \in 1..(n - 1) : at(i) \in 1..n /\ at(i) # k /\ M[i] = L[at(i)]
  BY <1>1
<1>3. \A i, j \in 1..n : L[i] = L[j] => i = j
  BY DEF Linked
<1>4. \A i, j \in 1..(n - 1) : at(i) = at(j) => i = j
  BY <1>1
<1>5. n - 1 \in 0..ArraySize /\ M \in [1..(n - 1) -> Cells]
  BY <1>1, <1>2
<1>6. \A i, j \in 1..(n - 1) : M[i] = M[j] => i = j
  <2> HIDE DEF M, at
  <2> QED
    BY <1>2, <1>3, <1>4
<1>7. \A i \in 1..n : array[L[i]].next = IF i = n THEN Null ELSE L[i + 1]
  BY DEF Linked
<1>8. \A c \in Cells : c # Null
  BY DEF Cells, Null
<1>9. \A i \in 1..n : array[L[i]] # Zero /\ L[i] \in Cells
  BY <1>1 DEF Linked
<1>10. \A i \in 1..(n - 1) : new[M[i]].next = IF i = n - 1 THEN Null ELSE M[i + 1]
  <2> SUFFICES ASSUME NEW i \in 1..(n - 1) PROVE new[M[i]].next = IF i = n - 1 THEN Null ELSE M[i + 1]
    OBVIOUS
  <2> DEFINE a == at(i)
  <2>1. a \in 1..n /\ a # k /\ M[i] = L[a]
    BY <1>2
  <2>2. L[a] # L[k] /\ L[a] \in Cells
    BY <1>1, <1>3, <2>1
  <2>3. new[L[a]].next = IF array[L[a]].next = L[k] THEN array[L[k]].next ELSE array[L[a]].next
    BY <1>9, <2>1, <2>2
  <2>4. array[L[a]].next = L[k] <=> a + 1 = k
    <3>1. CASE a = n
      BY <1>1, <1>7, <1>8, <1>9, <2>1, <3>1
    <3>2. CASE a # n
      <4>1. a + 1 \in 1..n /\ array[L[a]].next = L[a + 1]
        BY <1>1, <1>7, <2>1, <3>2
      <4> QED
        BY <1>1, <1>3, <4>1
    <3> QED
      BY <3>1, <3>2
  <2>5. CASE i < k - 1
    BY <1>1, <1>7, <2>1, <2>3, <2>4, <2>5
  <2>6. CASE i = k - 1
    BY SMTT(40), <1>1, <1>7, <2>1, <2>3, <2>4, <2>6
  <2>7. CASE i >= k
    BY <1>1, <1>7, <2>1, <2>3, <2>4, <2>7
  <2> QED
    BY <1>1, <2>5, <2>6, <2>7
<1>11. {M[i] : i \in 1..(n - 1)} = {d \in Cells : new[d] # Zero}
  <2>1. {L[i] : i \in 1..n} = {d \in Cells : array[d] # Zero}
    BY DEF Linked
  <2>2. {d \in Cells : new[d] # Zero} = {L[i] : i \in 1..n} \ {L[k]}
    BY <1>9, <2>1
  <2>3. \A i \in 1..n : i # k => \E j \in 1..(n - 1) : at(j) = i
    <3> SUFFICES ASSUME NEW i \in 1..n, i # k PROVE \E j \in 1..(n - 1) : at(j) = i
      OBVIOUS
    <3>1. CASE i < k
      <4>1. i \in 1..(n - 1) /\ at(i) = i
        BY <1>1, <3>1
      <4> QED
        BY <4>1
    <3>2. CASE i > k
      <4>1. i - 1 \in 1..(n - 1)
        BY <1>1, <3>2
      <4>2. at(i - 1) = i
        BY <1>1, <3>2
      <4> QED
        BY <4>1, <4>2
    <3> QED
      BY <1>1, <3>1, <3>2
  <2> HIDE DEF M, at
  <2>4. {M[i] : i \in 1..(n - 1)} = {L[i] : i \in 1..n} \ {L[k]}
    BY <1>2, <1>3, <2>3
  <2> QED
    BY <2>2, <2>4
<1>12. (IF head = L[k] THEN array[L[k]].next ELSE head) = IF n - 1 = 0 THEN Null ELSE M[1]
  <2>1. head = L[1] /\ (head = L[k] <=> k = 1)
    BY <1>1, <1>3 DEF Linked
  <2> QED
    BY <1>1, <1>7, <2>1
<1> HIDE DEF M
<1> QED
  BY <1>5, <1>6, <1>10, <1>11, <1>12 DEF Linked, M

(* mp1_find_helper finds a cell of the list with the location, or none.    *)
LEMMA HelperFinds ==
  ASSUME NEW n, NEW L, Linked(blink_array, mp1_list_head, n, L), NEW p, Helper(p) # Null
  PROVE  \E k \in 1..n : Helper(p) = L[k] /\ blink_array[L[k]].location = p
<1> DEFINE hits == {k \in DOMAIN List : blink_array[List[k]].location = p}
           m == CHOOSE k \in hits : \A j \in hits : k <= j
<1>1. List = L /\ DOMAIN List = 1..n /\ n \in Nat
  BY ListIs, BlinkAssumption DEF Linked
<1>2. hits # {} /\ Helper(p) = List[m]
  BY DEF Helper
<1>3. m \in hits
  <2>1. hits \subseteq Nat
    BY <1>1
  <2>2. \E x \in hits : \A y \in hits : x <= y
    <3> HIDE DEF hits
    <3> QED
      BY ONLY <1>2, <2>1, Least
  <2> HIDE DEF hits
  <2> QED
    BY <2>2
<1> QED
  BY <1>1, <1>2, <1>3

(* mp1_malloc returns a free cell, or none.                                *)
LEMMA FreeCell ==
  ASSUME ListInv, mp1_malloc # Null
  PROVE  mp1_malloc \in Cells /\ blink_array[mp1_malloc] = Zero
<1> DEFINE free == {c \in Cells : blink_array[c].location = 0}
<1>1. free # {} /\ free \subseteq Nat
  BY DEF mp1_malloc, Cells
<1>2. \E c \in free : \A d \in free : c <= d
  <2> HIDE DEF free
  <2> QED
    BY ONLY <1>1, Least
<1>3. mp1_malloc = CHOOSE c \in free : \A d \in free : c <= d
  BY <1>1 DEF mp1_malloc
<1>4. mp1_malloc \in free
  <2> HIDE DEF free
  <2> QED
    BY <1>2, <1>3
<1> QED
  BY <1>4 DEF ListInv, GoodCell

(* What a turn of tasklet_loop makes of a structure.                       *)
Ticked(s) ==
  LET t == [s EXCEPT !.countdown = Down(@)]
  IN  IF Positive(t.countdown) THEN t ELSE Switched(t)

(* It keeps everything but the countdown and the status.                   *)
LEMMA TickKeeps ==
  ASSUME NEW s, GoodCell(s), s # Zero
  PROVE  /\ GoodCell(Ticked(s)) /\ Ticked(s) # Zero
         /\ Ticked(s).location = s.location /\ Ticked(s).next = s.next
         /\ Ticked(s).on_char = s.on_char /\ Ticked(s).off_char = s.off_char
         /\ Ticked(s).status \in {s.status, 1 - s.status}
<1> DEFINE With(countdown, status) ==
             [location |-> s.location, on_char |-> s.on_char, off_char |-> s.off_char,
              on_length |-> s.on_length, off_length |-> s.off_length,
              countdown |-> countdown, status |-> status, next |-> s.next]
<1>1. \E v, w : Ticked(s) = With(v, w) /\ w \in {s.status, 1 - s.status}
  <2>1. s = With(s.countdown, s.status)
    BY DEF GoodCell, IsStruct
  <2> DEFINE d == Down(s.countdown)
             t == [s EXCEPT !.countdown = Down(@)]
  <2>2. t = With(d, s.status)
    BY <2>1
  <2>3. CASE Positive(t.countdown)
    BY <2>2, <2>3 DEF Ticked
  <2>4. CASE ~Positive(t.countdown)
    <3> DEFINE v == IF t.status = 1 THEN t.off_length ELSE t.on_length
    <3>1. Ticked(s) = [t EXCEPT !.countdown = v, !.status = 1 - @]
      BY <2>4 DEF Ticked, Switched
    <3> HIDE DEF v
    <3>2. Ticked(s) = With(v, 1 - s.status)
      BY <2>2, <3>1
    <3> QED
      BY <3>2
  <2> QED
    BY <2>3, <2>4
<1>2. PICK v, w : Ticked(s) = With(v, w) /\ w \in {s.status, 1 - s.status}
  BY <1>1
<1>3. s.location # 0 /\ s.location \in Locations
  BY DEF GoodCell
<1>4. w \in {0, 1}
  BY <1>2 DEF GoodCell
<1> QED
  BY <1>2, <1>3, <1>4 DEF GoodCell, IsStruct, Zero

(* The character on the screen at the place of a structure after its turn. *)
Showing(s, char) == IF Positive(Down(s.countdown)) THEN char ELSE NewChar(s)

(* One turn.                                                               *)
LEMMA TurnIs ==
  ASSUME NEW A, NEW V, A = [c \in Cells |-> A[c]], V = [p \in Locations |-> V[p]],
         NEW cell \in Cells, GoodCell(A[cell]), A[cell] # Zero
  PROVE  Turn([array |-> A, vmem |-> V], cell) =
           [array |-> [c \in Cells |-> IF c = cell THEN Ticked(A[c]) ELSE A[c]],
            vmem  |-> [p \in Locations |-> IF p = A[cell].location THEN Showing(A[cell], V[p]) ELSE V[p]]]
<1> DEFINE a == A[cell]
           d == Down(a.countdown)
           s == [a EXCEPT !.countdown = Down(@)]
           screen == [array |-> A, vmem |-> V]
<1>1. s = [location |-> a.location, on_char |-> a.on_char, off_char |-> a.off_char,
           on_length |-> a.on_length, off_length |-> a.off_length,
           countdown |-> d, status |-> a.status, next |-> a.next]
  BY DEF GoodCell, IsStruct
<1>2. s.countdown = d /\ s.location = a.location /\ NewChar(s) = NewChar(a)
  BY <1>1 DEF NewChar
<1>3. Ticked(a) = IF Positive(d) THEN s ELSE Switched(s)
  BY <1>2 DEF Ticked
<1>4. Turn(screen, cell) = IF Positive(s.countdown) THEN [screen EXCEPT !.array[cell] = s]
                           ELSE [array |-> [A EXCEPT ![cell] = Switched(s)],
                                 vmem  |-> [V EXCEPT ![s.location] = NewChar(s)]]
  BY DEF Turn
<1>5. a.location \in Locations
  BY DEF GoodCell
<1> HIDE DEF s, d
<1>6. CASE Positive(d)
  <2>1. Turn(screen, cell) = [array |-> [A EXCEPT ![cell] = s], vmem |-> V]
    BY <1>2, <1>4, <1>6
  <2>2. [A EXCEPT ![cell] = s] = [c \in Cells |-> IF c = cell THEN Ticked(A[c]) ELSE A[c]]
    BY <1>3, <1>6
  <2>3. V = [p \in Locations |-> IF p = a.location THEN Showing(a, V[p]) ELSE V[p]]
    BY <1>6 DEF Showing, d
  <2> QED
    BY <2>1, <2>2, <2>3
<1>7. CASE ~Positive(d)
  <2>1. Turn(screen, cell) = [array |-> [A EXCEPT ![cell] = Switched(s)],
                              vmem  |-> [V EXCEPT ![a.location] = NewChar(a)]]
    BY <1>2, <1>4, <1>7
  <2>2. [A EXCEPT ![cell] = Switched(s)] = [c \in Cells |-> IF c = cell THEN Ticked(A[c]) ELSE A[c]]
    BY <1>3, <1>7
  <2>3. [V EXCEPT ![a.location] = NewChar(a)] =
          [p \in Locations |-> IF p = a.location THEN Showing(a, V[p]) ELSE V[p]]
    BY <1>7 DEF Showing, d
  <2> QED
    BY <2>1, <2>2, <2>3
<1> QED
  BY <1>6, <1>7

(* The states of the loop.                                                 *)
LEMMA LoopStates ==
  ASSUME NEW n \in Nat, NEW cells, Len(cells) = n
  PROVE  \E f : /\ tasklet_loop(cells) = f[n]
                /\ f[0] = [array |-> blink_array, vmem |-> vmem]
                /\ \A k \in 1..n : f[k] = Turn(f[k - 1], cells[k])
<1> DEFINE start == [array |-> blink_array, vmem |-> vmem]
           step(x, k) == CHOOSE t \in {Turn(s, cells[k]) : s \in {x}} : TRUE
           IsLoop(m, f) == f = [k \in 0..m |-> IF k = 0 THEN start ELSE step(f[k - 1], k)]
           S == {m \in Nat : \E f : IsLoop(m, f)}
<1>1. \A x, k : step(x, k) = Turn(x, cells[k])
  <2> TAKE x, k
  <2>1. {Turn(s, cells[k]) : s \in {x}} = {Turn(x, cells[k])}
    OBVIOUS
  <2> QED
    BY <2>1
<1> HIDE DEF step, start
<1>2. 0 \in S
  <2>1. IsLoop(0, [k \in 0..0 |-> start])
    OBVIOUS
  <2> QED
    BY <2>1
<1>3. ASSUME NEW m \in Nat, m \in S PROVE m + 1 \in S
  <2>1. PICK f : IsLoop(m, f)
    BY <1>3
  <2> DEFINE g == [k \in 0..(m + 1) |-> IF k = m + 1 THEN step(f[m], m + 1) ELSE f[k]]
  <2>2. IsLoop(m + 1, g)
    <3>1. \A k \in 0..(m + 1) : g[k] = IF k = 0 THEN start ELSE step(g[k - 1], k)
      <4> TAKE k \in 0..(m + 1)
      <4>1. CASE k = m + 1
        BY <4>1
      <4>2. CASE k # m + 1
        <5>1. k \in 0..m /\ g[k] = f[k] /\ (k # 0 => k - 1 \in 0..(m + 1) /\ k - 1 # m + 1 /\ g[k - 1] = f[k - 1])
          BY <4>2
        <5>2. f[k] = IF k = 0 THEN start ELSE step(f[k - 1], k)
          BY <2>1, <5>1
        <5> QED
          BY <5>1, <5>2
      <4> QED
        BY <4>1, <4>2
    <3>2. g = [k \in 0..(m + 1) |-> g[k]]
      OBVIOUS
    <3> HIDE DEF g
    <3> QED
      BY <3>1, <3>2
  <2>3. \E h : IsLoop(m + 1, h)
    <3> HIDE DEF IsLoop, g
    <3> QED
      BY <2>2
  <2> HIDE DEF IsLoop
  <2> QED
    BY <2>3
<1> HIDE DEF S
<1>4. n \in S
  BY <1>2, <1>3, ByInduction
<1> DEFINE f == CHOOSE f : IsLoop(n, f)
<1>5. tasklet_loop(cells) = f[n]
  BY DEF tasklet_loop, start, step
<1>6. IsLoop(n, f)
  <2>1. \E h : IsLoop(n, h)
    BY <1>4 DEF S
  <2> HIDE DEF IsLoop
  <2> QED
    BY <2>1
<1> HIDE DEF f
<1>7. f[0] = start /\ \A k \in 1..n : f[k] = Turn(f[k - 1], cells[k])
  BY SMTT(40), <1>1, <1>6
<1> QED
  BY <1>5, <1>7 DEF start

(* What the tasklet does to the cells, and to the screen where only one    *)
(* structure of the list is.                                               *)
LEMMA TaskletDoes ==
  ASSUME ListInv, NEW n, NEW L, Linked(blink_array, mp1_list_head, n, L)
  PROVE  \E V :
           /\ tasklet_loop(List) =
                [array |-> [c \in Cells |-> IF blink_array[c] # Zero THEN Ticked(blink_array[c]) ELSE blink_array[c]],
                 vmem  |-> V]
           /\ V = [p \in Locations |-> V[p]]
           /\ \A i \in 1..n :
                LET s == blink_array[L[i]]
                IN  (\A j \in 1..n : blink_array[L[j]].location = s.location => j = i)
                      => V[s.location] = Showing(s, vmem[s.location])
<1> DEFINE cell(i) == blink_array[L[i]]
           loc(i) == cell(i).location
           Alone(i) == \A j \in 1..n : loc(j) = loc(i) => j = i
           Seen(k) == {L[i] : i \in 1..k}
           Arr(k) == [c \in Cells |-> IF c \in Seen(k) THEN Ticked(blink_array[c]) ELSE blink_array[c]]
           Scr(k, V) == /\ V = [p \in Locations |-> V[p]]
                        /\ \A i \in 1..n : Alone(i) =>
                             V[loc(i)] = IF i <= k THEN Showing(cell(i), vmem[loc(i)]) ELSE vmem[loc(i)]
<1>1. n \in Nat /\ L \in [1..n -> Cells] /\ List = L /\ Len(List) = n
  BY ListIs, BlinkAssumption DEF Linked
<1>2. \A i, j \in 1..n : L[i] = L[j] => i = j
  BY DEF Linked
<1>3. PICK f : /\ tasklet_loop(List) = f[n]
               /\ f[0] = [array |-> blink_array, vmem |-> vmem]
               /\ \A k \in 1..n : f[k] = Turn(f[k - 1], List[k])
  <2>1. n \in Nat /\ Len(List) = n
    BY <1>1
  <2> QED
    BY ONLY <2>1, LoopStates
<1>4. {L[i] : i \in 1..n} = {c \in Cells : blink_array[c] # Zero}
  BY DEF Linked
<1>5. \A i \in 1..n : GoodCell(cell(i)) /\ cell(i) # Zero /\ loc(i) \in Locations /\ L[i] \in Cells
  BY <1>1, <1>4 DEF ListInv, GoodCell
<1> DEFINE Good(k) == \E V : f[k] = [array |-> Arr(k), vmem |-> V] /\ Scr(k, V)
           S == {k \in Nat : k <= n => Good(k)}
<1>6. 0 \in S
  <2>1. Arr(0) = blink_array
    BY DEF ListInv
  <2>2. Scr(0, vmem)
    BY DEF ListInv
  <2> HIDE DEF Arr, Scr
  <2> QED
    BY <1>3, <2>1, <2>2
<1>7. ASSUME NEW k \in Nat, k \in S PROVE k + 1 \in S
  <2> SUFFICES ASSUME k + 1 <= n PROVE Good(k + 1)
    <3> HIDE DEF Good
    <3> QED
      OBVIOUS
  <2> DEFINE m == k + 1
             c0 == L[m]
  <2>1. m \in 1..n /\ m - 1 = k /\ k <= n
    BY <1>1
  <2>2. PICK V : f[k] = [array |-> Arr(k), vmem |-> V] /\ Scr(k, V)
    <3>1. Good(k)
      <4> HIDE DEF Good
      <4> QED
        BY <1>7, <2>1
    <3> QED
      BY <3>1, Zenon
  <2>3. c0 \in Cells /\ c0 \notin Seen(k)
    BY <1>1, <1>2, <2>1
  <2>4. Arr(k)[c0] = cell(m) /\ Arr(k) = [c \in Cells |-> Arr(k)[c]]
    BY <2>3
  <2>5. GoodCell(Arr(k)[c0]) /\ Arr(k)[c0] # Zero
    <3> HIDE DEF Arr
    <3> QED
      BY <1>5, <2>1, <2>4
  <2> DEFINE W == [p \in Locations |-> IF p = loc(m) THEN Showing(cell(m), V[p]) ELSE V[p]]
             B == [c \in Cells |-> IF c = c0 THEN Ticked(Arr(k)[c]) ELSE Arr(k)[c]]
  <2>6. Turn([array |-> Arr(k), vmem |-> V], c0) = [array |-> B, vmem |-> W]
    <3>1. V = [p \in Locations |-> V[p]]
      BY <2>2
    <3> HIDE DEF Arr
    <3> QED
      BY <2>3, <2>4, <2>5, <3>1, TurnIs
  <2>7. f[m] = [array |-> B, vmem |-> W]
    <3>1. f[m] = Turn(f[m - 1], List[m])
      BY <1>3, <2>1
    <3> HIDE DEF Arr, B, W
    <3> QED
      BY <1>1, <2>1, <2>2, <2>6, <3>1
  <2>8. B = Arr(m)
    <3>1. Seen(m) = Seen(k) \cup {c0}
      BY <1>1, <2>1
    <3>2. \A c \in Cells : B[c] = Arr(m)[c]
      <4> TAKE c \in Cells
      <4>1. CASE c = c0
        BY <2>3, <3>1, <4>1
      <4>2. CASE c # c0
        <5> HIDE DEF Seen
        <5> QED
          BY <3>1, <4>2
      <4> QED
        BY <4>1, <4>2
    <3> QED
      BY <3>2
  <2>9. Scr(m, W)
    <3>1. W = [p \in Locations |-> W[p]]
      OBVIOUS
    <3>2. ASSUME NEW i \in 1..n, Alone(i)
          PROVE  W[loc(i)] = IF i <= m THEN Showing(cell(i), vmem[loc(i)]) ELSE vmem[loc(i)]
      <4>1. V[loc(i)] = IF i <= k THEN Showing(cell(i), vmem[loc(i)]) ELSE vmem[loc(i)]
        BY <2>2, <3>2
      <4>2. loc(i) \in Locations
        BY <1>5
      <4>3. CASE i = m
        <5>1. V[loc(i)] = vmem[loc(i)]
          BY <2>1, <4>1, <4>3
        <5> HIDE DEF loc, cell
        <5> QED
          BY SMTT(40), <4>2, <4>3, <5>1
      <4>4. CASE i # m
        <5>1. loc(i) # loc(m)
          BY <2>1, <3>2, <4>4
        <5>2. i <= m <=> i <= k
          BY <1>1, <4>4
        <5> HIDE DEF loc, cell
        <5> QED
          BY <4>1, <4>2, <5>1, <5>2
      <4> QED
        BY <4>3, <4>4
    <3> HIDE DEF W, loc, cell, Alone
    <3> QED
      BY <3>1, <3>2
  <2> HIDE DEF Arr, Scr, B, W
  <2> QED
    BY <2>7, <2>8, <2>9
<1> HIDE DEF S
<1>8. n \in S
  BY <1>1, <1>6, <1>7, ByInduction
<1>9. PICK V : f[n] = [array |-> Arr(n), vmem |-> V] /\ Scr(n, V)
  <2>1. Good(n)
    <3> HIDE DEF Good
    <3> QED
      BY <1>1, <1>8 DEF S
  <2> QED
    BY <2>1, Zenon
<1>10. Arr(n) = [c \in Cells |-> IF blink_array[c] # Zero THEN Ticked(blink_array[c]) ELSE blink_array[c]]
  BY <1>4
<1>11. \A i \in 1..n : Alone(i) => V[loc(i)] = Showing(cell(i), vmem[loc(i)])
  BY <1>1, <1>9
<1> DEFINE X == [c \in Cells |-> IF blink_array[c] # Zero THEN Ticked(blink_array[c]) ELSE blink_array[c]]
<1>12. tasklet_loop(List) = [array |-> X, vmem |-> V]
  <2> HIDE DEF Arr, X
  <2>1. Arr(n) = X
    BY <1>10 DEF X
  <2> QED
    BY <1>3, <1>9, <2>1
<1>13. V = [p \in Locations |-> V[p]]
  BY <1>9
<1> QED
  BY <1>11, <1>12, <1>13, Zenon

-----------------------------------------------------------------------------
(* The structure s of a cell shows char, when sync drew these cells.       *)
Shows(s, cell, drawn, char) ==
  char = IF s.status = 1 /\ cell \notin drawn THEN s.on_char ELSE s.off_char

(* A place that two structures share has been noted, and elsewhere the     *)
(* screen shows what the structure says.                                   *)
ScreenInv ==
  /\ \A c, d \in InUse :
       c # d /\ blink_array[c].location = blink_array[d].location
         => blink_array[c].location \in overlaid
  /\ \A c \in InUse :
       blink_array[c].location \notin overlaid
         => Shows(blink_array[c], c, synced, vmem[blink_array[c].location])

BlinkInv == ListInv /\ ScreenInv

(* In use is to be in the list.                                            *)
LEMMA ListedCells == ListInv => Range(List) = InUse /\ InUse \subseteq Cells
<1> SUFFICES ASSUME ListInv PROVE Range(List) = InUse /\ InUse \subseteq Cells
  OBVIOUS
<1>1. PICK n, L : Linked(blink_array, mp1_list_head, n, L)
  BY DEF ListInv
<1>2. Range(List) = {L[i] : i \in 1..n}
  BY <1>1, ListIs
<1> QED
  BY <1>1, <1>2 DEF Linked, InUse

(* mp1_ioctl_add keeps the invariant.                                      *)
LEMMA AddKeeps ==
  ASSUME BlinkInv, NoneAtZero, NEW s \in Structs, mp1_ioctl_add(s), ~AddFails(s)
  PROVE  BlinkInv'
<1> DEFINE c == mp1_malloc
           p == s.location
           r == [location |-> p, on_char |-> s.on_char, off_char |-> s.off_char,
                 on_length |-> s.on_length, off_length |-> s.off_length,
                 countdown |-> s.on_length, status |-> 1, next |-> mp1_list_head]
<1>1. c \in Cells /\ blink_array[c] = Zero
  BY FreeCell DEF BlinkInv, AddFails
<1>2. p \in Locations \ {0}
  <2>1. p \in Nat /\ p # 0 /\ ~(p >= Columns * Rows) /\ Columns * Rows \in Nat
    BY BlinkAssumption DEF NoneAtZero, AddFails
  <2> QED
    BY <2>1 DEF Locations
<1>3. [s EXCEPT !.status = 1, !.countdown = s.on_length, !.next = mp1_list_head] = r
  <2>1. IsStruct(s)
    BY BlinkAssumption
  <2>2. PICK on, off, onl, offl, cd, st, nx :
          s = [location |-> p, on_char |-> on, off_char |-> off, on_length |-> onl,
               off_length |-> offl, countdown |-> cd, status |-> st, next |-> nx]
    BY <2>1 DEF IsStruct
  <2>3. s.on_char = on /\ s.off_char = off /\ s.on_length = onl /\ s.off_length = offl
    BY <2>2
  <2> HIDE DEF p
  <2> DEFINE s1 == [s EXCEPT !.status = 1]
             s2 == [s1 EXCEPT !.countdown = onl]
             s3 == [s2 EXCEPT !.next = mp1_list_head]
  <2>4. s1 = [location |-> p, on_char |-> on, off_char |-> off, on_length |-> onl,
              off_length |-> offl, countdown |-> cd, status |-> 1, next |-> nx]
    BY <2>2
  <2>5. s2 = [location |-> p, on_char |-> on, off_char |-> off, on_length |-> onl,
              off_length |-> offl, countdown |-> onl, status |-> 1, next |-> nx]
    <3> HIDE DEF s1
    <3> QED
      BY <2>4
  <2>6. s3 = [location |-> p, on_char |-> on, off_char |-> off, on_length |-> onl,
              off_length |-> offl, countdown |-> onl, status |-> 1, next |-> mp1_list_head]
    <3> HIDE DEF s2
    <3> QED
      BY <2>5
  <2>7. [s EXCEPT !.status = 1, !.countdown = onl, !.next = mp1_list_head] = s3
    OBVIOUS
  <2> QED
    BY <2>3, <2>6, <2>7
<1>4. /\ blink_array' = [blink_array EXCEPT ![c] = r] /\ mp1_list_head' = c
      /\ vmem' = [vmem EXCEPT ![p] = s.on_char]
      /\ overlaid' = overlaid \cup ({p} \cap {blink_array[d].location : d \in Range(List)})
      /\ synced' = synced \ {c}
  <2> HIDE DEF r
  <2> QED
    BY <1>3 DEF mp1_ioctl_add, Poke
<1>5. GoodCell(r) /\ r # Zero /\ r.next = mp1_list_head /\ r.location = p
  BY <1>2 DEF GoodCell, IsStruct, Zero
<1>r. Shows(r, c, synced', s.on_char)
  BY <1>4 DEF Shows
<1> HIDE DEF r, p
<1>6. /\ blink_array' = [d \in Cells |-> blink_array'[d]]
      /\ blink_array'[c] = r /\ \A d \in Cells \ {c} : blink_array'[d] = blink_array[d]
  BY <1>1, <1>4 DEF BlinkInv, ListInv
<1>7. /\ vmem' = [q \in Locations |-> vmem'[q]] /\ vmem'[p] = s.on_char
      /\ \A q \in Locations \ {p} : vmem'[q] = vmem[q]
  BY <1>2, <1>4 DEF BlinkInv, ListInv
<1>8. ListInv'
  <2>1. \A d \in Cells : GoodCell(blink_array[d])'
    <3>1. \A d \in Cells : GoodCell(blink_array'[d])
      <4> HIDE DEF c
      <4> QED
        BY <1>5, <1>6 DEF BlinkInv, ListInv
    <3> QED
      BY <3>1 DEF GoodCell, IsStruct, Zero, Locations, Null
  <2>2. PICK n, L : Linked(blink_array, mp1_list_head, n, L)
    BY DEF BlinkInv, ListInv
  <2> DEFINE M == [i \in 1..(n + 1) |-> IF i = 1 THEN c ELSE L[i - 1]]
  <2>3. Linked(blink_array', c, n + 1, M)
    <3> HIDE DEF c
    <3> QED
      BY <1>1, <1>5, <1>6, <2>2, Pushed
  <2>4. \E m, N : Linked(blink_array', mp1_list_head', m, N)
    <3> HIDE DEF M
    <3> QED
      BY <1>4, <2>3
  <2> QED
    BY <1>6, <1>7, <2>1, <2>4 DEF ListInv, Linked, Cells, Locations, Null, Zero
<1>9. InUse' = InUse \cup {c} /\ c \notin InUse /\ InUse \subseteq Cells
  BY <1>1, <1>5, <1>6 DEF InUse, Zero, Cells, Null
<1>10. overlaid' = overlaid \cup ({p} \cap {blink_array[d].location : d \in InUse})
  BY <1>4, ListedCells DEF BlinkInv
<1> HIDE DEF c
<1>11. \A d \in InUse : blink_array'[d] = blink_array[d] /\ blink_array[d].location \in Locations
  BY <1>1, <1>6, <1>9 DEF InUse, BlinkInv, ListInv, GoodCell
<1>12. ScreenInv'
  <2>1. ASSUME NEW d \in InUse', NEW e \in InUse', d # e, blink_array'[d].location = blink_array'[e].location
        PROVE  blink_array'[d].location \in overlaid'
    <3>1. CASE d = c
      BY <1>5, <1>6, <1>9, <1>10, <1>11, <2>1, <3>1
    <3>2. CASE e = c
      BY <1>5, <1>6, <1>9, <1>10, <1>11, <2>1, <3>2
    <3>3. CASE d # c /\ e # c
      BY <1>9, <1>10, <1>11, <2>1, <3>3 DEF BlinkInv, ScreenInv
    <3> QED
      BY <3>1, <3>2, <3>3
  <2>2. ASSUME NEW d \in InUse', blink_array'[d].location \notin overlaid'
        PROVE  Shows(blink_array'[d], d, synced', vmem'[blink_array'[d].location])
    <3>1. CASE d = c
      BY <1>5, <1>6, <1>7, <1>r, <3>1
    <3>2. CASE d # c
      <4>1. d \in InUse /\ blink_array'[d] = blink_array[d] /\ blink_array[d].location \in Locations
        BY <1>9, <1>11, <3>2
      <4>2. blink_array[d].location # p /\ blink_array[d].location \notin overlaid
        BY <1>10, <2>2, <4>1
      <4>3. Shows(blink_array[d], d, synced, vmem[blink_array[d].location])
        BY <4>1, <4>2 DEF BlinkInv, ScreenInv
      <4>4. d \in synced' <=> d \in synced
        BY <1>4, <3>2
      <4> QED
        BY <1>7, <4>1, <4>2, <4>3, <4>4 DEF Shows
    <3> QED
      BY <3>1, <3>2
  <2> QED
    BY <2>1, <2>2 DEF ScreenInv, Shows
<1> QED
  BY <1>8, <1>12 DEF BlinkInv

(* A step that keeps the place and the characters of the structures in use *)
(* (perhaps fewer), and where only one of them is, still shows them.       *)
LEMMA ScreenKept ==
  ASSUME ScreenInv, InUse' \subseteq InUse, overlaid' = overlaid,
         \A c \in InUse' : blink_array'[c].location = blink_array[c].location,
         \A c \in InUse' :
           /\ \A d \in InUse : blink_array[d].location = blink_array[c].location => d = c
           /\ Shows(blink_array[c], c, synced, vmem[blink_array[c].location])
           => Shows(blink_array'[c], c, synced', vmem'[blink_array[c].location])
  PROVE  ScreenInv'
<1>1. ASSUME NEW d \in InUse', NEW e \in InUse', d # e, blink_array'[d].location = blink_array'[e].location
      PROVE  blink_array'[d].location \in overlaid'
  BY <1>1 DEF ScreenInv
<1>2. ASSUME NEW d \in InUse', blink_array'[d].location \notin overlaid'
      PROVE  Shows(blink_array'[d], d, synced', vmem'[blink_array'[d].location])
  <2>1. d \in InUse /\ blink_array[d].location \notin overlaid
    BY <1>2
  <2>2. \A e \in InUse : blink_array[e].location = blink_array[d].location => e = d
    BY <2>1 DEF ScreenInv
  <2>3. Shows(blink_array[d], d, synced, vmem[blink_array[d].location])
    BY <2>1 DEF ScreenInv
  <2> QED
    BY <2>2, <2>3
<1> QED
  BY <1>1, <1>2 DEF ScreenInv, Shows

(* The state after a step is good when its parts are.                      *)
LEMMA ListPrimed ==
  ASSUME blink_array' = [c \in Cells |-> blink_array'[c]],
         \A c \in Cells : GoodCell(blink_array'[c]),
         vmem' = [p \in Locations |-> vmem'[p]],
         NEW n, NEW L, Linked(blink_array', mp1_list_head', n, L)
  PROVE  ListInv'
<1>1. \E m, K : Linked(blink_array', mp1_list_head', m, K)
  BY Zenon
<1> QED
  BY Zenon, <1>1 DEF ListInv, GoodCell, IsStruct, Zero, Locations, Null, Cells, Linked

(* mp1_ioctl_remove keeps the invariant.                                   *)
LEMMA RemoveKeeps ==
  ASSUME BlinkInv, NEW p, mp1_ioctl_remove(p), Helper(p) # Null
  PROVE  BlinkInv'
<1> DEFINE cell == Helper(p)
<1>1. PICK n, L : Linked(blink_array, mp1_list_head, n, L)
  BY DEF BlinkInv, ListInv
<1>2. PICK k \in 1..n : cell = L[k]
  BY <1>1, HelperFinds
<1>3. cell \in Cells /\ cell \in InUse /\ Range(List) = InUse /\ InUse \subseteq Cells
  BY <1>1, <1>2, ListedCells DEF Linked, InUse, BlinkInv
<1>4. /\ blink_array' = [Unlinked(cell) EXCEPT ![cell] = Zero]
      /\ mp1_list_head' = IF mp1_list_head = cell THEN blink_array[cell].next ELSE mp1_list_head
      /\ vmem' = vmem /\ overlaid' = overlaid /\ synced' = synced \ {cell}
  BY DEF mp1_ioctl_remove
<1> HIDE DEF cell
<1>5. /\ blink_array' = [c \in Cells |-> blink_array'[c]] /\ blink_array'[cell] = Zero
      /\ \A c \in Cells \ {cell} :
           blink_array'[c] = IF blink_array[c].next = cell /\ c \in InUse
                             THEN [blink_array[c] EXCEPT !.next = blink_array[cell].next]
                             ELSE blink_array[c]
  BY <1>3, <1>4 DEF Unlinked
<1>6. ASSUME NEW c \in Cells, c # cell
      PROVE  /\ GoodCell(blink_array'[c])
             /\ blink_array'[c] = Zero <=> blink_array[c] = Zero
             /\ blink_array[c] # Zero =>
                  blink_array'[c].next = IF blink_array[c].next = cell THEN blink_array[cell].next
                                         ELSE blink_array[c].next
             /\ blink_array'[c].location = blink_array[c].location
             /\ \A char : Shows(blink_array'[c], c, synced', char) <=>
                            Shows(blink_array[c], c, synced, char)
  <2> DEFINE s == blink_array[c]
             v == blink_array[cell].next
  <2>0. c \in synced' <=> c \in synced
    BY <1>4, <1>6
  <2>1. GoodCell(s)
    BY DEF BlinkInv, ListInv
  <2>2. CASE blink_array[c].next = cell /\ c \in InUse
    <3>1. blink_array'[c] = [s EXCEPT !.next = v]
      BY <1>5, <1>6, <2>2
    <3> HIDE DEF v
    <3>2. [s EXCEPT !.next = v] =
            [location |-> s.location, on_char |-> s.on_char, off_char |-> s.off_char,
             on_length |-> s.on_length, off_length |-> s.off_length,
             countdown |-> s.countdown, status |-> s.status, next |-> v]
      BY <2>1 DEF GoodCell, IsStruct
    <3>3. s # Zero /\ s.location \in Locations \ {0} /\ s.status \in {0, 1}
      BY <2>1, <2>2 DEF GoodCell, InUse
    <3>4. GoodCell(blink_array'[c]) /\ blink_array'[c] # Zero /\ blink_array'[c].next = v
      BY <3>1, <3>2, <3>3 DEF GoodCell, IsStruct, Zero
    <3>5. /\ blink_array'[c].location = s.location
          /\ \A char : Shows(blink_array'[c], c, synced', char) <=> Shows(s, c, synced, char)
      BY <2>0, <3>1, <3>2 DEF Shows
    <3> QED
      BY <2>2, <3>3, <3>4, <3>5 DEF v
  <2>3. CASE ~(blink_array[c].next = cell /\ c \in InUse)
    <3>1. blink_array'[c] = s
      BY <1>5, <1>6, <2>3
    <3>2. s # Zero => s.next # cell
      BY <2>3 DEF InUse
    <3>3. \A char : Shows(s, c, synced', char) <=> Shows(s, c, synced, char)
      BY <2>0 DEF Shows
    <3> QED
      BY <2>1, <3>1, <3>2, <3>3
  <2> QED
    BY <2>2, <2>3
<1>7. ListInv'
  <2> DEFINE M == [i \in 1..(n - 1) |-> IF i < k THEN L[i] ELSE L[i + 1]]
  <2>1. Linked(blink_array', mp1_list_head', n - 1, M)
    <3>1. Linked(blink_array', IF mp1_list_head = L[k] THEN blink_array[L[k]].next ELSE mp1_list_head, n - 1, M)
      BY <1>1, <1>2, <1>5, <1>6, CutOut
    <3> QED
      BY <1>2, <1>4, <3>1
  <2>2. \A c \in Cells : GoodCell(blink_array'[c])
    <3>1. GoodCell(Zero)
      BY DEF GoodCell, IsStruct, Zero
    <3> QED
      BY <1>5, <1>6, <3>1
  <2>3. vmem' = [q \in Locations |-> vmem'[q]]
    BY <1>4 DEF BlinkInv, ListInv
  <2> HIDE DEF M
  <2> QED
    BY <1>5, <2>1, <2>2, <2>3, ListPrimed
<1>8. InUse' = InUse \ {cell}
  <2>1. Cells' = Cells /\ Zero' = Zero
    BY DEF Cells, Zero, Null
  <2> QED
    BY <1>5, <1>6, <2>1 DEF InUse
<1>9. ScreenInv'
  <2>1. \A c \in InUse' : c \in Cells /\ c # cell
    BY <1>3, <1>8
  <2> QED
    BY <1>4, <1>6, <1>8, <2>1, ScreenKept DEF BlinkInv
<1> QED
  BY <1>7, <1>9 DEF BlinkInv

(* mp1_ioctl_sync keeps the invariant.                                     *)
LEMMA SyncKeeps ==
  ASSUME BlinkInv, NEW from, NEW to, mp1_ioctl_sync(from, to), Helper(from) # Null, Helper(to) # Null
  PROVE  BlinkInv'
<1> DEFINE src == Helper(from)
           dst == Helper(to)
           s == blink_array[dst]
           t == blink_array[src]
           r == [location |-> s.location, on_char |-> s.on_char, off_char |-> s.off_char,
                 on_length |-> t.on_length, off_length |-> t.off_length,
                 countdown |-> t.countdown, status |-> t.status, next |-> s.next]
<1>1. PICK n, L : Linked(blink_array, mp1_list_head, n, L)
  BY DEF BlinkInv, ListInv
<1>2. src \in InUse /\ dst \in InUse /\ s.location = to /\ InUse \subseteq Cells
  <2>1. \A i \in 1..n : L[i] \in InUse
    BY <1>1 DEF Linked, InUse
  <2>2. \E i \in 1..n : src = L[i] /\ blink_array[L[i]].location = from
    BY SMTT(40), <1>1, HelperFinds
  <2>3. \E i \in 1..n : dst = L[i] /\ blink_array[L[i]].location = to
    BY <1>1, HelperFinds
  <2> QED
    BY <2>1, <2>2, <2>3 DEF InUse
<1>3. /\ blink_array' = [blink_array EXCEPT ![dst] =
           [s EXCEPT !.on_length = t.on_length, !.off_length = t.off_length,
                     !.countdown = t.countdown, !.status = t.status]]
      /\ vmem' = [vmem EXCEPT ![to] = s.off_char]
      /\ mp1_list_head' = mp1_list_head /\ overlaid' = overlaid
      /\ synced' = IF t.status = 1 THEN synced \cup {dst} ELSE synced \ {dst}
  BY DEF mp1_ioctl_sync, Poke
<1>4. GoodCell(s) /\ GoodCell(t) /\ s # Zero /\ dst \in Cells
  BY <1>2 DEF InUse, BlinkInv, ListInv
<1>5. [s EXCEPT !.on_length = t.on_length, !.off_length = t.off_length,
                !.countdown = t.countdown, !.status = t.status] = r
  <2> DEFINE With(onl, offl, cd, st) ==
               [location |-> s.location, on_char |-> s.on_char, off_char |-> s.off_char,
                on_length |-> onl, off_length |-> offl, countdown |-> cd, status |-> st, next |-> s.next]
             s1 == [s EXCEPT !.on_length = t.on_length]
             s2 == [s1 EXCEPT !.off_length = t.off_length]
             s3 == [s2 EXCEPT !.countdown = t.countdown]
             s4 == [s3 EXCEPT !.status = t.status]
  <2>0. s = With(s.on_length, s.off_length, s.countdown, s.status)
    BY <1>4 DEF GoodCell, IsStruct
  <2> HIDE DEF s, t
  <2>1. s1 = With(t.on_length, s.off_length, s.countdown, s.status)
    BY <2>0
  <2> HIDE DEF s1
  <2>2. s2 = With(t.on_length, t.off_length, s.countdown, s.status)
    BY <2>1
  <2> HIDE DEF s2
  <2>3. s3 = With(t.on_length, t.off_length, t.countdown, s.status)
    BY <2>2
  <2> HIDE DEF s3
  <2>4. s4 = With(t.on_length, t.off_length, t.countdown, t.status)
    BY <2>3
  <2>5. [s EXCEPT !.on_length = t.on_length, !.off_length = t.off_length,
                  !.countdown = t.countdown, !.status = t.status] = s4
    BY DEF s1, s2, s3
  <2> QED
    BY <2>4, <2>5
<1>6. /\ GoodCell(r) /\ r # Zero /\ r.next = s.next /\ r.location = s.location
      /\ Shows(r, dst, synced', s.off_char)
  <2>1. s.location \in Locations \ {0} /\ t.status \in {0, 1}
    BY <1>4 DEF GoodCell
  <2>2. t.status = 1 => dst \in synced'
    BY <1>3
  <2> QED
    BY <2>1, <2>2 DEF GoodCell, IsStruct, Zero, Shows
<1> HIDE DEF r
<1>7. /\ blink_array' = [c \in Cells |-> blink_array'[c]]
      /\ blink_array'[dst] = r /\ \A c \in Cells \ {dst} : blink_array'[c] = blink_array[c]
  BY <1>3, <1>4, <1>5 DEF BlinkInv, ListInv
<1>8. to \in Locations
  BY <1>2, <1>4 DEF GoodCell
<1>9. /\ vmem' = [q \in Locations |-> vmem'[q]] /\ vmem'[to] = s.off_char
      /\ \A q \in Locations \ {to} : vmem'[q] = vmem[q]
  BY <1>3, <1>8 DEF BlinkInv, ListInv
<1>10. \A c \in Cells : (blink_array'[c] = Zero <=> blink_array[c] = Zero) /\ blink_array'[c].next = blink_array[c].next
  BY <1>4, <1>6, <1>7
<1>11. ListInv'
  <2>1. Linked(blink_array', mp1_list_head', n, L)
    BY <1>1, <1>3, <1>10, Relinked
  <2>2. \A c \in Cells : GoodCell(blink_array'[c])
    BY <1>6, <1>7 DEF BlinkInv, ListInv
  <2> QED
    BY <1>7, <1>9, <2>1, <2>2, ListPrimed
<1>12. InUse' = InUse
  <2>1. Cells' = Cells /\ Zero' = Zero
    BY DEF Cells, Zero, Null
  <2> QED
    BY <1>10, <2>1 DEF InUse
<1>13. ScreenInv'
  <2>1. \A c \in InUse : blink_array'[c].location = blink_array[c].location
    BY <1>2, <1>6, <1>7
  <2>2. ASSUME NEW c \in InUse,
               \A d \in InUse : blink_array[d].location = blink_array[c].location => d = c,
               Shows(blink_array[c], c, synced, vmem[blink_array[c].location])
        PROVE  Shows(blink_array'[c], c, synced', vmem'[blink_array[c].location])
    <3>1. CASE c = dst
      BY <1>2, <1>6, <1>7, <1>9, <3>1
    <3>2. CASE c # dst
      <4>1. blink_array[c].location # to /\ blink_array'[c] = blink_array[c]
        BY <1>2, <1>7, <2>2, <3>2
      <4>2. blink_array[c].location \in Locations
        BY <1>2 DEF BlinkInv, ListInv, GoodCell, InUse
      <4>3. c \in synced' <=> c \in synced
        BY <1>3, <3>2
      <4> QED
        BY <1>9, <2>2, <4>1, <4>2, <4>3 DEF Shows
    <3> QED
      BY <3>1, <3>2
  <2> QED
    BY <1>3, <1>12, <2>1, <2>2, ScreenKept DEF BlinkInv
<1> QED
  BY <1>11, <1>13 DEF BlinkInv

(* mp1_rtc_tasklet keeps the invariant.                                    *)
LEMMA TaskletKeeps == ASSUME BlinkInv, mp1_rtc_tasklet PROVE BlinkInv'
<1>1. PICK n, L : Linked(blink_array, mp1_list_head, n, L)
  BY DEF BlinkInv, ListInv
<1> DEFINE A == [c \in Cells |-> IF blink_array[c] # Zero THEN Ticked(blink_array[c]) ELSE blink_array[c]]
<1>2. PICK V :
        /\ tasklet_loop(List) = [array |-> A, vmem |-> V]
        /\ V = [p \in Locations |-> V[p]]
        /\ \A i \in 1..n :
             LET s == blink_array[L[i]]
             IN  (\A j \in 1..n : blink_array[L[j]].location = s.location => j = i)
                   => V[s.location] = Showing(s, vmem[s.location])
  BY <1>1, TaskletDoes DEF BlinkInv
<1>3. /\ blink_array' = A /\ vmem' = V /\ mp1_list_head' = mp1_list_head /\ overlaid' = overlaid
      /\ synced' = {c \in synced : A[c].status = blink_array[c].status}
  <2>1. LET end == tasklet_loop(List)
        IN  /\ blink_array' = end.array /\ vmem' = end.vmem
            /\ synced' = {c \in synced : end.array[c].status = blink_array[c].status}
    BY Zenon DEF mp1_rtc_tasklet
  <2>2. UNCHANGED <<mp1_list_head, overlaid>>
    BY DEF mp1_rtc_tasklet
  <2> HIDE DEF A
  <2> QED
    BY <1>2, <2>1, <2>2
<1>4. \A c \in Cells : GoodCell(blink_array[c])
  BY DEF BlinkInv, ListInv
<1>5. \A c \in Cells : /\ GoodCell(A[c]) /\ (A[c] = Zero <=> blink_array[c] = Zero)
                       /\ A[c].next = blink_array[c].next /\ A[c].location = blink_array[c].location
  BY <1>4, TickKeeps
<1>6. ListInv'
  <2>1. Linked(A, mp1_list_head, n, L)
    BY <1>1, <1>5, Relinked
  <2>2. A = [c \in Cells |-> A[c]]
    OBVIOUS
  <2> HIDE DEF A
  <2> QED
    BY <1>2, <1>3, <1>5, <2>1, <2>2, ListPrimed
<1>7. InUse' = InUse
  <2>1. Cells' = Cells /\ Zero' = Zero
    BY DEF Cells, Zero, Null
  <2> HIDE DEF A
  <2> QED
    BY <1>3, <1>5, <2>1 DEF InUse
<1>8. ScreenInv'
  <2>1. \A c \in InUse : blink_array'[c].location = blink_array[c].location /\ c \in Cells
    <3> HIDE DEF A
    <3> QED
      BY <1>3, <1>5 DEF InUse
  <2>2. ASSUME NEW c \in InUse,
               \A d \in InUse : blink_array[d].location = blink_array[c].location => d = c,
               Shows(blink_array[c], c, synced, vmem[blink_array[c].location])
        PROVE  Shows(blink_array'[c], c, synced', vmem'[blink_array[c].location])
    <3> DEFINE s == blink_array[c]
    <3>1. PICK i \in 1..n : L[i] = c
      BY <1>1 DEF Linked, InUse
    <3>2. \A j \in 1..n : blink_array[L[j]].location = s.location => j = i
      BY <1>1, <2>2, <3>1 DEF Linked, InUse
    <3>3. V[s.location] = Showing(s, vmem[s.location])
      BY <1>2, <3>1, <3>2
    <3>4. blink_array'[c] = Ticked(s) /\ GoodCell(s) /\ s # Zero
      BY <1>3, <1>4 DEF InUse
    <3>5. Shows(Ticked(s), c, synced', Showing(s, vmem[s.location]))
      <4>0. c \in synced' <=> c \in synced /\ Ticked(s).status = s.status
        <5>1. A[c] = Ticked(s)
          BY <3>4 DEF InUse
        <5> HIDE DEF A
        <5> QED
          BY <1>3, <5>1
      <4>1. GoodCell(Ticked(s)) /\ Ticked(s).on_char = s.on_char /\ Ticked(s).off_char = s.off_char
        BY <3>4, TickKeeps
      <4>2. Ticked(s).status = IF Positive(Down(s.countdown)) THEN s.status ELSE 1 - s.status
        <5> DEFINE t == [s EXCEPT !.countdown = Down(@)]
        <5>1. t = [location |-> s.location, on_char |-> s.on_char, off_char |-> s.off_char,
                   on_length |-> s.on_length, off_length |-> s.off_length,
                   countdown |-> Down(s.countdown), status |-> s.status, next |-> s.next]
          BY <3>4 DEF GoodCell, IsStruct
        <5>2. t.countdown = Down(s.countdown) /\ t.status = s.status
          BY <5>1
        <5>3. Switched(t).status = 1 - s.status
          BY <5>1 DEF Switched
        <5> HIDE DEF t
        <5> QED
          BY <5>2, <5>3 DEF Ticked, t
      <4>3. s.status \in {0, 1}
        BY <3>4 DEF GoodCell
      <4>4. Shows(s, c, synced, vmem[s.location])
        BY Zenon, <2>2
      <4> HIDE DEF s
      <4>5. CASE Positive(Down(s.countdown))
        <5>1. Ticked(s).status = s.status /\ (c \in synced' <=> c \in synced)
          BY <4>0, <4>2, <4>5
        <5> QED
          BY <4>1, <4>4, <4>5, <5>1 DEF Shows, Showing
      <4>6. CASE ~Positive(Down(s.countdown)) /\ s.status = 1
        <5>1. Ticked(s).status = 0
          BY <4>2, <4>6
        <5> QED
          BY <4>1, <4>6, <5>1 DEF Shows, Showing, NewChar
      <4>7. CASE ~Positive(Down(s.countdown)) /\ s.status = 0
        <5>1. Ticked(s).status = 1 /\ c \notin synced'
          BY <4>0, <4>2, <4>7
        <5> QED
          BY <4>1, <4>7, <5>1 DEF Shows, Showing, NewChar
      <4> QED
        BY <4>3, <4>5, <4>6, <4>7
    <3> QED
      BY <1>3, <3>3, <3>4, <3>5
  <2> QED
    BY <1>3, <1>7, <2>1, <2>2, ScreenKept DEF BlinkInv
<1> QED
  BY <1>6, <1>8 DEF BlinkInv

(* The calls that fail, and every step, keep the invariant.                *)
LEMMA BlinkInvAlways == ASSUME NoneAtZero PROVE BlinkSpec => []BlinkInv
<1>1. BlinkInit => BlinkInv
  <2> SUFFICES ASSUME BlinkInit PROVE BlinkInv
    OBVIOUS
  <2>1. blink_array = [c \in Cells |-> blink_array[c]] /\ \A c \in Cells : blink_array[c] = Zero
    BY DEF BlinkInit
  <2>2. GoodCell(Zero)
    BY DEF GoodCell, IsStruct, Zero
  <2>3. Linked(blink_array, mp1_list_head, 0, [i \in 1..0 |-> Null])
    <3> DEFINE L == [i \in 1..0 |-> Null]
    <3>1. 1..0 = {} /\ 0 \in 0..ArraySize
      BY BlinkAssumption
    <3>2. L \in [1..0 -> Cells] /\ {L[i] : i \in 1..0} = {} /\ {c \in Cells : blink_array[c] # Zero} = {}
      BY <2>1, <3>1
    <3> QED
      BY <3>1, <3>2 DEF BlinkInit, Linked
  <2>4. ListInv
    BY <2>1, <2>2, <2>3 DEF ListInv, BlinkInit
  <2>5. InUse = {}
    BY <2>1 DEF InUse
  <2> QED
    BY <2>4, <2>5 DEF BlinkInv, ScreenInv
<1>2. BlinkInv /\ [BlinkNext]_blinkVars => BlinkInv'
  <2> SUFFICES ASSUME BlinkInv, [BlinkNext]_blinkVars PROVE BlinkInv'
    OBVIOUS
  <2>1. CASE UNCHANGED blinkVars
    <3>1. /\ blink_array' = blink_array /\ mp1_list_head' = mp1_list_head
          /\ vmem' = vmem /\ overlaid' = overlaid /\ synced' = synced
      BY <2>1 DEF blinkVars
    <3>2. ListInv'
      BY <3>1, ListPrimed DEF BlinkInv, ListInv
    <3>3. InUse' = InUse
      BY <3>1 DEF InUse, Cells, Zero, Null
    <3>4. ScreenInv'
      BY <3>1, <3>3, ScreenKept DEF BlinkInv
    <3> QED
      BY <3>2, <3>4 DEF BlinkInv
  <2>2. ASSUME NEW s \in Structs, mp1_ioctl_add(s) PROVE BlinkInv'
    BY <2>1, <2>2, AddKeeps DEF mp1_ioctl_add, Fails
  <2>3. ASSUME NEW p \in Locations, mp1_ioctl_remove(p) PROVE BlinkInv'
    BY <2>1, <2>3, RemoveKeeps DEF mp1_ioctl_remove, Fails
  <2>4. ASSUME NEW p \in Locations, NEW q \in Locations, mp1_ioctl_sync(p, q) PROVE BlinkInv'
    BY <2>1, <2>4, SyncKeeps DEF mp1_ioctl_sync, Fails
  <2>5. CASE mp1_rtc_tasklet
    BY <2>5, TaskletKeeps
  <2> QED
    BY <2>1, <2>2, <2>3, <2>4, <2>5 DEF BlinkNext
<1> QED
  BY <1>1, <1>2, PTL DEF BlinkSpec

(* After any calls, of a screen and an array of any size, the list of      *)
(* blinks ends, has no cell twice and has exactly the cells in use: add    *)
(* and remove leak no structure and leave no freed one in the list, unless *)
(* one is added at location 0.                                             *)
THEOREM ListSoundAlways == ASSUME NoneAtZero PROVE BlinkSpec => []ListSound
<1>1. BlinkInv => ListSound
  <2> SUFFICES ASSUME BlinkInv PROVE ListSound
    OBVIOUS
  <2>1. PICK n, L : Linked(blink_array, mp1_list_head, n, L)
    BY DEF BlinkInv, ListInv
  <2>2. Len(List) = n /\ n <= ArraySize
    BY <2>1, ListIs, BlinkAssumption DEF Linked
  <2> QED
    BY <2>2, ListedCells DEF BlinkInv, ListSound
<1> QED
  BY <1>1, BlinkInvAlways, PTL

(* With its place on the screen to itself, a blink shows its on character  *)
(* while it is on and its off character while it is off, whatever add,     *)
(* remove, sync and the clock did, except between a sync that switched it  *)
(* on and its next switch.                                                 *)
THEOREM CharShownAlways == ASSUME NoneAtZero PROVE BlinkSpec => []CharShown
<1>1. BlinkInv => CharShown
  BY ListedCells DEF BlinkInv, ScreenInv, Shows, CharShown
<1> QED
  BY <1>1, BlinkInvAlways, PTL
=============================================================================
