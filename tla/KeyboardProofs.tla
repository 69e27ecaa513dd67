--------------------------- MODULE KeyboardProofs ---------------------------
(***************************************************************************)
(* Proofs about Keyboard with its three terminals, for any buffer size,    *)
(* set of keys and request sizes.  Types hold whatever the typist and the  *)
(* processes do; FrontTakes and the refinement of LineDiscipline need a    *)
(* typist who does not type ahead.                                         *)
(***************************************************************************)
EXTENDS Keyboard, SequenceTheorems, TLAPS

Char == {NUL, NEWLINE, "a", "A", "l", "L", "1", "!"}

(* What the tables give is a character.                                    *)
LEMMA LookupType == ASSUME NEW key, NEW s PROVE Lookup(key, s) \in Char
<1>1. CASE key = "a" BY <1>1 DEF Lookup, keyboardUS, keyboardUSShift, Char
<1>2. CASE key = "l" BY <1>2 DEF Lookup, keyboardUS, keyboardUSShift, Char
<1>3. CASE key = "1" BY <1>3 DEF Lookup, keyboardUS, keyboardUSShift, Char
<1>4. CASE key = "enter" BY <1>4 DEF Lookup, keyboardUS, keyboardUSShift, Char
<1>5. CASE key \notin {"a", "l", "1", "enter"} BY <1>5 DEF Lookup, keyboardUS, keyboardUSShift, Char
<1> QED BY <1>1, <1>2, <1>3, <1>4, <1>5

(* The key flags stay flags.                                               *)
LEMMA StatusType ==
  ASSUME status \in [Modifiers -> 0..1], NEW key, NEW down \in BOOLEAN
  PROVE  StatusAfter(key, down) \in [Modifiers -> 0..1]
<1> DEFINE flag == IF key \in {"lshift", "rshift"} THEN "shift" ELSE key
<1>1. CASE flag \notin Modifiers BY <1>1 DEF StatusAfter
<1>2. CASE flag \in Modifiers /\ flag # "caps" BY <1>2 DEF StatusAfter
<1>3. CASE flag = "caps"
  <2>1. "caps" \in Modifiers BY DEF Modifiers
  <2>2. status["caps"] \in 0..1 BY <2>1
  <2>3. 1 - status["caps"] \in 0..1 BY <2>2
  <2>4. StatusAfter(key, down) = [status EXCEPT !["caps"] = IF down THEN 1 - @ ELSE @]
    BY <1>3, <2>1 DEF StatusAfter
  <2> QED BY <2>1, <2>2, <2>3, <2>4
<1> QED BY <1>1, <1>2, <1>3

(* F1 to F3 are the keys of the terminals there are.                       *)
SwitchKeys == TERMINAL_QUANTITY = 3

(* The terminal a key switches to exists.                                  *)
LEMMA TerminalType ==
  ASSUME SwitchKeys, active_terminal \in Terminals, NEW s
  PROVE  TerminalAfter(s) \in Terminals
BY DEF SwitchKeys, Terminals, TerminalAfter

(* Taking one from a terminal's number, around the ring.                   *)
LEMMA RingType ==
  ASSUME NEW t \in Terminals
  PROVE  Reader(t) \in Terminals
BY KeyboardAssumption DEF Reader, Terminals

(* The interrupt handler keeps the types.                                  *)
LEMMA HandlerType ==
  ASSUME TypeOK, SwitchKeys, NEW key \in Keys, Key(key)
  PROVE  TypeOK'
<1>1. PICK down \in BOOLEAN : keyboard_handler(key, down)
  BY Zenon DEF Key
<1>2. held' \subseteq ModifierKeys BY Zenon DEF Key, TypeOK
<1>3. status' \in [Modifiers -> 0..1] BY <1>1, StatusType DEF keyboard_handler, TypeOK
<1>4. active_terminal' \in Terminals BY <1>1, TerminalType DEF keyboard_handler, TypeOK
<1>5. enterStatus' \in 0..1 BY <1>1 DEF keyboard_handler, TypeOK
<1>6. /\ keyboardBuffer' \in [Cells -> Char]
      /\ keyboardBufferIdx' \in [Terminals -> 0..BUFFER_SIZE]
  <2> DEFINE c == CharOf(key, down, StatusAfter(key, down))
  <2>1. c \in Char BY LookupType DEF CharOf, Char
  <2>2. /\ keyboardBuffer \in [Cells -> Char]
        /\ keyboardBufferIdx \in [Terminals -> 0..BUFFER_SIZE]
        /\ active_terminal \in Terminals
    BY DEF TypeOK, Char
  <2>3. NUL \in Char BY DEF Char
  <2>4. keyboardBufferIdx[active_terminal] \in 0..BUFFER_SIZE BY <2>2
  <2>5. CASE Erase
    <3>1. CASE keyboardBufferIdx[active_terminal] = 0 BY <2>2, <2>5, <3>1 DEF Erase
    <3>2. CASE keyboardBufferIdx[active_terminal] # 0
      <4>1. keyboardBufferIdx[active_terminal] - 1 \in 0..BUFFER_SIZE
        BY <2>4, <3>2, KeyboardAssumption
      <4> QED BY <2>2, <2>3, <2>5, <3>2, <4>1 DEF Erase
    <3> QED BY <3>1, <3>2
  <2>6. CASE Store(c)
    <3>1. CASE c = NUL \/ ~HasRoom(active_terminal) BY <2>2, <2>6, <3>1 DEF Store
    <3>2. CASE c # NUL /\ HasRoom(active_terminal)
      <4>1. keyboardBufferIdx[active_terminal] + 1 \in 0..BUFFER_SIZE
        BY <2>4, <3>2, KeyboardAssumption DEF HasRoom
      <4> HIDE DEF c
      <4> QED BY <2>1, <2>2, <2>6, <3>2, <4>1 DEF Store
    <3> QED BY <3>1, <3>2
  <2> QED BY <1>1, <2>5, <2>6 DEF keyboard_handler
<1>7. UNCHANGED <<pcb_terminal, running, pc, nbytes, i, buf>>
  BY <1>1 DEF keyboard_handler, locals
<1> QED BY <1>2, <1>3, <1>4, <1>5, <1>6, <1>7 DEF TypeOK, Char

(* A process's steps, and the timer's, keep the types.                     *)
LEMMA ProcessType ==
  ASSUME TypeOK, NEW p \in Terminals, (running = p /\ (Read(p) \/ Write(p))) \/ ReadStep(p)
  PROVE  TypeOK'
<1> USE DEF keyboard, locals, Goto
<1>1. CASE Read(p) BY <1>1 DEF Read, TypeOK
<1>2. CASE Write(p) BY <1>2 DEF Write, terminal_write, TypeOK
<1>3. CASE SeeEnter(p) BY <1>3 DEF SeeEnter, TypeOK
<1>4. CASE SeeTerminal(p) BY <1>4 DEF SeeTerminal, TypeOK
<1>5. CASE WaitBody(p) BY SMTT(30), <1>5 DEF WaitBody, TypeOK
<1>6. CASE Take(p) BY <1>6 DEF Take, TypeOK
<1>7. CASE Test(p) BY <1>7 DEF Test, TypeOK
<1>8. CASE Copy(p) BY SMTT(30), <1>8 DEF Copy, TypeOK
<1>9. CASE ResetIdx(p)
  <2>1. active_terminal \in Nat BY DEF TypeOK, Terminals
  <2>2. 0 \in 0..BUFFER_SIZE BY KeyboardAssumption
  <2> QED BY <1>9, <2>1, <2>2 DEF ResetIdx, IdxReset, TypeOK
<1>10. CASE ClearCells(p) BY <1>10 DEF ClearCells, TypeOK
<1> QED BY <1>1, <1>2, <1>3, <1>4, <1>5, <1>6, <1>7, <1>8, <1>9, <1>10 DEF ReadStep

(* So does any step.                                                       *)
LEMMA NextType == ASSUME TypeOK, SwitchKeys, [Next]_vars PROVE TypeOK'
<1>1. CASE \E key \in Keys : Key(key) BY <1>1, HandlerType
<1>2. CASE \E p \in Terminals : running = p /\ (Read(p) \/ Write(p))
  BY <1>2, ProcessType
<1>3. CASE \E p \in Terminals : ReadStep(p) BY <1>3, ProcessType
<1>4. CASE Tick
  <2>1. running' = Reader(running) BY <1>4 DEF Tick, Reader
  <2>2. running' \in Terminals BY <2>1, RingType DEF TypeOK
  <2> QED BY <1>4, <2>2 DEF Tick, TypeOK, keyboard, locals
<1>5. CASE UNCHANGED vars BY <1>5 DEF vars, keyboard, locals, TypeOK
<1> QED BY <1>1, <1>2, <1>3, <1>4, <1>5 DEF Next

(* The machine starts well typed.                                          *)
LEMMA InitType == ASSUME Init PROVE TypeOK
<1>1. 0 \in Terminals BY KeyboardAssumption DEF Terminals
<1>2. 0 \in 0..BUFFER_SIZE BY KeyboardAssumption
<1> QED BY <1>1, <1>2 DEF Init, TypeOK

(* TypeOK always: whatever keys are struck and whenever, however processes *)
(* read and write, keyboardBufferIdx stays within the terminal's buffer.   *)
THEOREM TypesAlways == ASSUME SwitchKeys PROVE Spec => []TypeOK
<1>1. Init => TypeOK BY InitType
<1>2. TypeOK /\ [Next]_vars => TypeOK' BY NextType
<1> QED BY <1>1, <1>2, PTL DEF Spec
-----------------------------------------------------------------------------
(* The first time slice, before any switch: pcb_terminal is still 0, the   *)
(* terminal of the process itself, and no key was struck.                  *)
FirstSlice ==
  /\ running = 0 /\ pcb_terminal = 0 /\ active_terminal = 0 /\ enterStatus = 0
  /\ pc[0] \in {"user", "wait"}
  /\ \A p \in Terminals \ {0} : pc[p] = "user"

(* FrontTakes is inductive with what pcb_terminal says of the process that *)
(* runs: it is the terminal of the one that ran before it.                 *)
IInv ==
  /\ TypeOK
  /\ FrontTakes
  /\ FirstSlice \/ running = Reader(pcb_terminal)

(* No key is struck in the first slice: nobody waits at the prompt.        *)
LEMMA NoKeyFirst ==
  ASSUME SwitchKeys, ~TypeAhead, FirstSlice, NEW key \in Keys
  PROVE  ~Key(key)
<1>1. Reader(0) = 2 /\ 2 \in Terminals \ {0} BY DEF Reader, SwitchKeys, Terminals
<1>2. pc[2] = "user" BY <1>1 DEF FirstSlice
<1> QED BY Zenon, <1>1, <1>2 DEF FirstSlice, Key, AtPrompt

(* A process's step keeps the invariant: it takes a line only after seeing *)
(* that pcb_terminal is the terminal in front.                             *)
LEMMA ProcessInv ==
  ASSUME IInv, TypeOK', NEW p \in Terminals, running = p,
         Read(p) \/ Write(p) \/ ReadStep(p)
  PROVE  IInv'
<1> DEFINE Taking0 == {"take", "test", "copy", "reset"}
<1>1. UNCHANGED <<active_terminal, running, pcb_terminal>>
  BY DEF Read, Write, terminal_write, ReadStep, SeeEnter, SeeTerminal, WaitBody, Take, Test, Copy,
         ResetIdx, ClearCells, keyboard
<1>2. \A q \in Terminals \ {p} : pc'[q] = pc[q]
  <2>1. pc' = pc \/ \E label : Goto(p, label)
    BY DEF Read, Write, terminal_write, ReadStep, SeeEnter, SeeTerminal, WaitBody, Take, Test, Copy,
           ResetIdx, ClearCells
  <2> QED BY <2>1 DEF Goto, IInv, TypeOK
<1>3. pc'[p] \in Taking0 => p = Reader(active_terminal)
  <2>1. CASE SeeTerminal(p)
    <3>1. ~FirstSlice BY <2>1 DEF SeeTerminal, FirstSlice
    <3>2. running = Reader(pcb_terminal) BY <3>1 DEF IInv
    <3>3. pc'[p] = (IF OwnTerminal THEN "take" ELSE "body")
      BY <2>1 DEF SeeTerminal, Goto, IInv, TypeOK
    <3> QED BY <3>2, <3>3 DEF OwnTerminal
  <2>2. CASE Read(p) BY <2>2 DEF Read, Goto, IInv, TypeOK
  <2>3. CASE Write(p) BY <2>3 DEF Write, terminal_write, IInv, FrontTakes
  <2>4. CASE SeeEnter(p) BY <2>4 DEF SeeEnter, Goto, IInv, TypeOK
  <2>5. CASE WaitBody(p) BY <2>5 DEF WaitBody, Goto, IInv, TypeOK
  <2>6. CASE Take(p) BY <2>6 DEF Take, IInv, FrontTakes
  <2>7. CASE Test(p) BY <2>7 DEF Test, IInv, FrontTakes
  <2>8. CASE Copy(p)
    <3>1. pc[p] = "copy" BY <2>8 DEF Copy
    <3> QED BY <3>1 DEF IInv, FrontTakes
  <2>9. CASE ResetIdx(p) BY <2>9 DEF ResetIdx, Goto, IInv, TypeOK
  <2>10. CASE ClearCells(p) BY <2>10 DEF ClearCells, Goto, IInv, TypeOK
  <2> QED BY <2>1, <2>2, <2>3, <2>4, <2>5, <2>6, <2>7, <2>8, <2>9, <2>10 DEF ReadStep
<1>4. FrontTakes' BY <1>1, <1>2, <1>3 DEF FrontTakes, IInv, Reader
<1>5. FirstSlice' \/ running' = Reader(pcb_terminal')
  <2>1. CASE running = Reader(pcb_terminal) BY <1>1, <2>1
  <2>2. CASE FirstSlice
    <3>1. p = 0 /\ pc[p] \in {"user", "wait"} /\ enterStatus = 0 BY <2>2 DEF FirstSlice
    <3>2. pc'[p] \in {"user", "wait"} /\ enterStatus' = 0
      <4>1. CASE Read(p) BY <3>1, <4>1 DEF Read, Goto, IInv, TypeOK
      <4>2. CASE Write(p) BY <3>1, <4>2 DEF Write, terminal_write
      <4>3. CASE WaitBody(p) BY <3>1, <4>3 DEF WaitBody, Goto, IInv, TypeOK
      <4>4. ~SeeEnter(p) BY <3>1 DEF SeeEnter
      <4>5. ~(SeeTerminal(p) \/ Take(p) \/ Test(p) \/ Copy(p) \/ ResetIdx(p) \/ ClearCells(p))
        BY <3>1 DEF SeeTerminal, Take, Test, Copy, ResetIdx, ClearCells
      <4> QED BY <4>1, <4>2, <4>3, <4>4, <4>5 DEF ReadStep
    <3> QED BY <1>1, <1>2, <2>2, <3>1, <3>2 DEF FirstSlice
  <2> QED BY <2>1, <2>2 DEF IInv
<1> QED BY <1>4, <1>5 DEF IInv, Reader

(* Every step keeps the invariant.                                         *)
LEMMA NextIInv ==
  ASSUME IInv, SwitchKeys, ~TypeAhead, [Next]_vars
  PROVE  IInv'
<1>0. TypeOK' BY NextType DEF IInv
<1>1. ASSUME NEW key \in Keys, Key(key) PROVE IInv'
  <2>1. \A p \in Terminals : pc[p] \in {"user", "wait"} BY <1>1 DEF Key, AtPrompt
  <2>2. UNCHANGED <<pc, running, pcb_terminal>> BY Zenon, <1>1 DEF Key, keyboard_handler
  <2>3. running = Reader(pcb_terminal) BY <1>1, NoKeyFirst DEF IInv
  <2> QED BY <1>0, <2>1, <2>2, <2>3 DEF IInv, FrontTakes, Reader
<1>2. CASE \E p \in Terminals : running = p /\ (Read(p) \/ Write(p))
  BY <1>0, <1>2, ProcessInv
<1>3. CASE \E p \in Terminals : ReadStep(p) BY <1>0, <1>3, ProcessInv DEF ReadStep
<1>4. CASE Tick
  <2>1. running' = Reader(pcb_terminal') BY <1>4 DEF Tick, Reader
  <2>2. FrontTakes' BY <1>4 DEF Tick, IInv, FrontTakes, Reader, keyboard
  <2> QED BY <1>0, <2>1, <2>2 DEF IInv, Reader
<1>5. CASE UNCHANGED vars
  BY <1>0, <1>5 DEF vars, keyboard, IInv, FrontTakes, FirstSlice, Reader
<1> QED BY <1>1, <1>2, <1>3, <1>4, <1>5 DEF Next

(* FrontTakes always, for a typist who waits for the prompt: although      *)
(* pcb_terminal names the process switched away from, no process ever      *)
(* takes, copies or resets a line of a terminal that another one reads.    *)
THEOREM FrontTakesAlways == ASSUME SwitchKeys, ~TypeAhead PROVE Spec => []FrontTakes
<1>1. Init => IInv
  <2> SUFFICES ASSUME Init PROVE IInv OBVIOUS
  <2>1. TypeOK BY InitType
  <2>2. FrontTakes BY DEF Init, FrontTakes
  <2>3. FirstSlice BY DEF Init, FirstSlice, Terminals, SwitchKeys
  <2> QED BY <2>1, <2>2, <2>3 DEF IInv
<1>2. IInv /\ [Next]_vars => IInv' BY NextIInv
<1>3. IInv => FrontTakes BY DEF IInv
<1> QED BY <1>1, <1>2, <1>3, PTL DEF Spec
-----------------------------------------------------------------------------
(* How far keyboard_read has come with the line of the terminal in front:  *)
(* what it has copied is the beginning of the line.                        *)
CopiedSoFar(p) ==
  /\ i[p] <= keyboardBufferIdx[active_terminal]
  /\ i[p] = 0 \/ i[p] <= nbytes[p]
  /\ Len(buf[p]) = i[p]
  /\ \A k \in 1..i[p] : buf[p][k] = keyboardBuffer[Cell(active_terminal, k - 1)]
  /\ pc[p] = "copy" => i[p] < keyboardBufferIdx[active_terminal] /\ i[p] < nbytes[p]
  /\ pc[p] = "reset" => i[p] = keyboardBufferIdx[active_terminal] \/ i[p] >= nbytes[p]

(* What the refinement needs of a process: the reader in front saw an      *)
(* Enter that nobody else can answer, it answers it before it copies, and  *)
(* the cells it clears belong to no line.                                  *)
ReaderInv(p) ==
  /\ pc[p] # "user" => nbytes[p] \in NBytes
  /\ pc[p] \in {"entered", "take"} /\ p = Reader(active_terminal) => enterStatus = 1
  /\ pc[p] \in {"test", "copy", "reset"} => enterStatus = 0 /\ CopiedSoFar(p)
  /\ pc[p] = "clear" => i[p] \in Terminals /\ keyboardBufferIdx[i[p]] = 0

LineInv ==
  /\ IInv
  /\ buf \in [Terminals -> Seq(Char)]
  /\ \A p \in Terminals : ReaderInv(p)

(* A typist who waits for the prompt and does not erase in a full line,    *)
(* and processes that do not write while an Enter is pending.              *)
Waits == SwitchKeys /\ ~TypeAhead /\ ~FullErase /\ ~BackgroundOutput

(* Every process reads the lines of one terminal.                          *)
LEMMA Ring ==
  ASSUME SwitchKeys
  PROVE  /\ \A t, u \in Terminals : Reader(t) = Reader(u) => t = u
         /\ \A p \in Terminals : \E t \in Terminals : p = Reader(t)
BY DEF SwitchKeys, Terminals, Reader

(* The buffers of the terminals do not overlap, and the terminal of a cell *)
(* is what clear_keyboardBuffer takes it to be.                            *)
LEMMA CellApart ==
  ASSUME SwitchKeys, NEW t \in Terminals, NEW j \in 0..(BUFFER_SIZE - 1)
  PROVE  /\ Cell(t, j) \in Cells
         /\ \A u \in Terminals, k \in 0..(BUFFER_SIZE - 1) : Cell(t, j) = Cell(u, k) => t = u /\ j = k
         /\ Cell(t, j) \div BUFFER_SIZE = t
<1> DEFINE B == BUFFER_SIZE
<1>1. B \in Nat \ {0} /\ Terminals = {0, 1, 2} /\ Cells = 0..(3 * B - 1)
  BY KeyboardAssumption DEF SwitchKeys, Terminals, Cells
<1> HIDE DEF B
<1>2. j \in 0..(B - 1)
  BY DEF B
<1>3. Cell(0, j) = j /\ Cell(1, j) = B + j /\ Cell(2, j) = 2 * B + j
  BY <1>1 DEF Cell, B
<1>4. \A k \in 0..(B - 1) : Cell(0, k) = k /\ Cell(1, k) = B + k /\ Cell(2, k) = 2 * B + k
  BY <1>1 DEF Cell, B
<1>5. j \div B = 0 /\ (B + j) \div B = 1 /\ (2 * B + j) \div B = 2
  BY <1>1, <1>2
<1>6. Cell(t, j) \in Cells
  BY <1>1, <1>2, <1>3
<1>7. ASSUME NEW u \in Terminals, NEW k \in 0..(B - 1), Cell(t, j) = Cell(u, k) PROVE t = u /\ j = k
  <2>1. CASE t = 0 BY <1>1, <1>2, <1>3, <1>4, <1>7, <2>1
  <2>2. CASE t = 1 BY <1>1, <1>2, <1>3, <1>4, <1>7, <2>2
  <2>3. CASE t = 2 BY <1>1, <1>2, <1>3, <1>4, <1>7, <2>3
  <2> QED BY <1>1, <2>1, <2>2, <2>3
<1>8. Cell(t, j) \div B = t
  <2>1. CASE t = 0 BY <1>3, <1>5, <2>1
  <2>2. CASE t = 1 BY <1>3, <1>5, <2>2
  <2>3. CASE t = 2 BY <1>3, <1>5, <2>3
  <2> QED BY <1>1, <2>1, <2>2, <2>3
<1> QED
  BY <1>6, <1>7, <1>8 DEF B

(* A step of one process touches no other's place in keyboard_read.        *)
LEMMA OneProcess ==
  ASSUME LineInv, NEW p \in Terminals, Read(p) \/ Write(p) \/ ReadStep(p)
  PROVE  /\ UNCHANGED active_terminal
         /\ \A q \in Terminals \ {p} :
              pc'[q] = pc[q] /\ nbytes'[q] = nbytes[q] /\ i'[q] = i[q] /\ buf'[q] = buf[q]
<1> USE DEF LineInv, IInv, TypeOK, Goto, keyboard, locals
<1>1. CASE Read(p) BY <1>1 DEF Read
<1>2. CASE Write(p) BY <1>2 DEF Write, terminal_write
<1>3. CASE SeeEnter(p) BY <1>3 DEF SeeEnter
<1>4. CASE SeeTerminal(p) BY <1>4 DEF SeeTerminal
<1>5. CASE WaitBody(p) BY <1>5 DEF WaitBody
<1>6. CASE Take(p) BY <1>6 DEF Take
<1>7. CASE Test(p) BY <1>7 DEF Test
<1>8. CASE Copy(p) BY <1>8 DEF Copy
<1>9. CASE ResetIdx(p) BY <1>9 DEF ResetIdx
<1>10. CASE ClearCells(p) BY <1>10 DEF ClearCells
<1> QED BY <1>1, <1>2, <1>3, <1>4, <1>5, <1>6, <1>7, <1>8, <1>9, <1>10 DEF ReadStep

(* A process that is left alone keeps its part of the invariant.           *)
LEMMA LeftAlone ==
  ASSUME NEW q \in Terminals, ReaderInv(q),
         pc'[q] = pc[q], nbytes'[q] = nbytes[q], i'[q] = i[q], buf'[q] = buf[q],
         UNCHANGED <<active_terminal, keyboardBuffer, keyboardBufferIdx, enterStatus>>
  PROVE  ReaderInv(q)'
BY DEF ReaderInv, CopiedSoFar, Reader, Cell

(* The step of a process that runs keeps what the refinement needs.        *)
LEMMA ProcessLine ==
  ASSUME Waits, LineInv, IInv', NEW p \in Terminals, running = p,
         Read(p) \/ Write(p) \/ ReadStep(p)
  PROVE  LineInv'
<1> USE DEF keyboard, locals
<1>1. /\ pc = [q \in Terminals |-> pc[q]] /\ nbytes \in [Terminals -> Int] /\ i \in [Terminals -> Nat]
      /\ buf \in [Terminals -> Seq(Char)]
      /\ keyboardBuffer \in [Cells -> Char]
      /\ keyboardBufferIdx \in [Terminals -> 0..BUFFER_SIZE]
      /\ active_terminal \in Terminals
  <2>1. {0} \cup NBytes \subseteq Int
    BY KeyboardAssumption
  <2> QED
    BY <2>1 DEF LineInv, IInv, TypeOK, Char
<1>2. \A q \in Terminals \ {p} :
        pc'[q] = pc[q] /\ nbytes'[q] = nbytes[q] /\ i'[q] = i[q] /\ buf'[q] = buf[q]
  BY OneProcess
<1>3. ReaderInv(p) /\ (pc[p] \in {"take", "test", "copy", "reset"} => p = Reader(active_terminal))
  BY DEF LineInv, IInv, FrontTakes
<1>4. ASSUME UNCHANGED <<active_terminal, keyboardBuffer, keyboardBufferIdx, enterStatus>>
      PROVE  \A q \in Terminals \ {p} : ReaderInv(q)'
  BY <1>2, <1>4, LeftAlone DEF LineInv
<1>5. CASE Read(p)
  <2>1. pc'[p] = "wait" /\ nbytes'[p] \in NBytes /\ UNCHANGED buf
    BY <1>1, <1>5 DEF Read, Goto
  <2>2. ReaderInv(p)'
    BY <2>1 DEF ReaderInv
  <2> QED
    BY <1>1, <1>4, <1>5, <2>1, <2>2 DEF Read, LineInv
<1>6. CASE Write(p)
  <2>1. UNCHANGED <<keyboard, pc, locals, enterStatus>>
    BY <1>6 DEF Write, terminal_write, Waits, LineInv, IInv, TypeOK
  <2>2. ReaderInv(p)'
    BY <1>3, <2>1, LeftAlone
  <2> QED
    BY <1>1, <1>4, <2>1, <2>2 DEF LineInv
<1>7. CASE SeeEnter(p)
  <2>1. pc'[p] = "entered" /\ pc[p] = "wait" /\ enterStatus' = 1 /\ UNCHANGED <<keyboard, locals, enterStatus>>
    BY <1>1, <1>7 DEF SeeEnter, Goto
  <2>2. ReaderInv(p)'
    BY <1>3, <2>1 DEF ReaderInv
  <2> QED
    BY <1>1, <1>4, <2>1, <2>2 DEF LineInv
<1>8. CASE SeeTerminal(p)
  <2>1. pc'[p] \in {"take", "body"} /\ pc[p] = "entered" /\ UNCHANGED <<keyboard, locals, enterStatus>>
    BY <1>1, <1>8 DEF SeeTerminal, Goto
  <2>2. ReaderInv(p)'
    BY <1>3, <2>1 DEF ReaderInv, Reader
  <2> QED
    BY <1>1, <1>4, <2>1, <2>2 DEF LineInv
<1>9. CASE WaitBody(p)
  <2>1. /\ pc[p] # "user" /\ UNCHANGED <<keyboard, enterStatus, i>>
        /\ \/ pc'[p] = "user"
           \/ pc'[p] = "wait" /\ UNCHANGED nbytes
    BY <1>1, <1>9 DEF WaitBody, Goto
  <2>2. buf' \in [Terminals -> Seq(Char)]
    <3>1. <<>> \in Seq(Char)
      OBVIOUS
    <3> QED
      BY <1>1, <1>9, <3>1 DEF WaitBody
  <2>3. ReaderInv(p)'
    BY <1>3, <2>1 DEF ReaderInv
  <2> QED
    BY <1>4, <2>1, <2>2, <2>3 DEF LineInv
<1>10. CASE Take(p)
  <2>1. /\ pc'[p] = "test" /\ pc[p] = "take" /\ enterStatus' = 0
        /\ UNCHANGED <<keyboard, nbytes>> /\ i'[p] = 0
    BY <1>1, <1>10 DEF Take, Goto
  <2>2. buf' \in [Terminals -> Seq(Char)] /\ buf'[p] = <<>>
    <3>1. <<>> \in Seq(Char)
      OBVIOUS
    <3> QED
      BY <1>1, <1>10, <3>1 DEF Take
  <2>3. ReaderInv(p)'
    <3>1. CopiedSoFar(p)'
      <4>1. keyboardBufferIdx[active_terminal] \in Nat
        BY <1>1, KeyboardAssumption
      <4> QED
        BY <2>1, <2>2, <4>1 DEF CopiedSoFar
    <3> QED
      BY <1>3, <2>1, <3>1 DEF ReaderInv
  <2>4. \A q \in Terminals \ {p} : ReaderInv(q)'
    <3> SUFFICES ASSUME NEW q \in Terminals \ {p} PROVE ReaderInv(q)'
      OBVIOUS
    <3>1. q # Reader(active_terminal)
      BY <1>3, <2>1
    <3>2. pc[q] \notin {"take", "test", "copy", "reset"}
      BY <3>1 DEF LineInv, IInv, FrontTakes
    <3> QED
      BY <1>2, <2>1, <3>1, <3>2 DEF ReaderInv, LineInv, Reader
  <2> QED
    BY <2>2, <2>3, <2>4 DEF LineInv
<1>11. CASE Test(p)
  <2>1. /\ pc[p] = "test" /\ UNCHANGED <<keyboard, locals, enterStatus>>
        /\ pc'[p] = IF i[p] < keyboardBufferIdx[active_terminal] /\ i[p] < nbytes[p]
                    THEN "copy" ELSE "reset"
    BY <1>1, <1>11 DEF Test, Goto
  <2>2. i[p] \in Nat /\ nbytes[p] \in Int /\ keyboardBufferIdx[active_terminal] \in Nat
    BY <1>1, KeyboardAssumption
  <2>3. CopiedSoFar(p)'
    BY <1>3, <2>1, <2>2 DEF ReaderInv, CopiedSoFar
  <2>4. ReaderInv(p)'
    BY <1>3, <2>1, <2>3 DEF ReaderInv
  <2> QED
    BY <1>1, <1>4, <2>1, <2>4 DEF LineInv

<1>12. CASE Copy(p)
  <2> DEFINE t == active_terminal
             c == keyboardBuffer[Cell(t, i[p])]
  <2>1. /\ pc[p] = "copy" /\ UNCHANGED <<keyboard, nbytes, enterStatus>>
        /\ pc'[p] = "test" /\ i'[p] = i[p] + 1 /\ buf' = [buf EXCEPT ![p] = Append(@, c)]
    BY <1>1, <1>12 DEF Copy, Goto
  <2>2. i[p] \in Nat /\ nbytes[p] \in Int /\ keyboardBufferIdx[t] \in 0..BUFFER_SIZE
    BY <1>1
  <2>3. /\ i[p] < keyboardBufferIdx[t] /\ i[p] < nbytes[p] /\ Len(buf[p]) = i[p]
        /\ \A k \in 1..i[p] : buf[p][k] = keyboardBuffer[Cell(t, k - 1)]
        /\ enterStatus = 0
    BY <1>3, <2>1 DEF ReaderInv, CopiedSoFar
  <2>4. c \in Char
    <3>1. i[p] \in 0..(BUFFER_SIZE - 1)
      BY <2>2, <2>3, KeyboardAssumption
    <3> QED
      BY <1>1, <3>1, CellApart DEF Waits
  <2> HIDE DEF c
  <2>5. /\ Append(buf[p], c) \in Seq(Char) /\ Len(Append(buf[p], c)) = i[p] + 1
        /\ \A k \in 1..i[p] : Append(buf[p], c)[k] = buf[p][k]
        /\ Append(buf[p], c)[i[p] + 1] = c
    BY <1>1, <2>3, <2>4
  <2>6. buf'[p] = Append(buf[p], c) /\ buf' \in [Terminals -> Seq(Char)]
    BY <1>1, <2>1, <2>5
  <2>7. CopiedSoFar(p)'
    <3>1. \A k \in 1..(i[p] + 1) : buf'[p][k] = keyboardBuffer[Cell(t, k - 1)]
      <4> SUFFICES ASSUME NEW k \in 1..(i[p] + 1) PROVE buf'[p][k] = keyboardBuffer[Cell(t, k - 1)]
        OBVIOUS
      <4>1. CASE k = i[p] + 1
        BY <2>2, <2>5, <2>6, <4>1 DEF c
      <4>2. CASE k \in 1..i[p]
        BY <2>3, <2>5, <2>6, <4>2
      <4> QED
        BY <2>2, <4>1, <4>2
    <3> QED
      BY <2>1, <2>2, <2>3, <2>5, <2>6, <3>1 DEF CopiedSoFar
  <2>8. ReaderInv(p)'
    BY <1>3, <2>1, <2>3, <2>7 DEF ReaderInv
  <2> QED
    BY <1>4, <2>1, <2>6, <2>8 DEF LineInv
<1>13. CASE ResetIdx(p)
  <2>1. /\ pc[p] = "reset" /\ pc'[p] = "clear" /\ i'[p] = active_terminal
        /\ keyboardBufferIdx' = [keyboardBufferIdx EXCEPT ![active_terminal] = 0]
        /\ UNCHANGED <<keyboardBuffer, active_terminal, enterStatus, nbytes, buf>>
    BY <1>1, <1>13 DEF ResetIdx, IdxReset, Goto
  <2>2. ReaderInv(p)'
    BY <1>1, <1>3, <2>1 DEF ReaderInv
  <2>3. \A q \in Terminals \ {p} : ReaderInv(q)'
    <3> SUFFICES ASSUME NEW q \in Terminals \ {p} PROVE ReaderInv(q)'
      OBVIOUS
    <3>1. pc[q] \notin {"take", "test", "copy", "reset"}
      BY <1>3, <2>1 DEF LineInv, IInv, FrontTakes
    <3>2. ReaderInv(q)
      BY DEF LineInv
    <3> QED
      BY <1>1, <1>2, <2>1, <3>1, <3>2 DEF ReaderInv, Reader
  <2> QED
    BY <1>1, <2>1, <2>2, <2>3 DEF LineInv
<1>14. CASE ClearCells(p)
  <2>1. /\ pc[p] = "clear" /\ pc'[p] = "user"
        /\ keyboardBuffer' =
             [c \in Cells |-> IF c \div BUFFER_SIZE = i[p] THEN NUL ELSE keyboardBuffer[c]]
        /\ UNCHANGED <<keyboardBufferIdx, active_terminal, enterStatus, buf>>
    BY <1>1, <1>14 DEF ClearCells, Goto
  <2>2. ReaderInv(p)'
    BY <2>1 DEF ReaderInv
  <2>3. \A q \in Terminals \ {p} : ReaderInv(q)'
    <3> SUFFICES ASSUME NEW q \in Terminals \ {p} PROVE ReaderInv(q)'
      OBVIOUS
    <3>1. ReaderInv(q)
      BY DEF LineInv
    <3>2. CASE pc[q] \notin {"test", "copy", "reset"}
      BY <1>2, <2>1, <3>1, <3>2 DEF ReaderInv, Reader
    <3>3. CASE pc[q] \in {"test", "copy", "reset"}
      <4>1. CopiedSoFar(q)
        BY <3>1, <3>3 DEF ReaderInv
      <4>2. ASSUME NEW k \in 1..i[q]
            PROVE  keyboardBuffer'[Cell(active_terminal, k - 1)] = keyboardBuffer[Cell(active_terminal, k - 1)]
        <5>1. i[q] \in Nat /\ keyboardBufferIdx[active_terminal] \in 0..BUFFER_SIZE
          BY <1>1
        <5>2. k - 1 \in 0..(BUFFER_SIZE - 1) /\ keyboardBufferIdx[active_terminal] # 0
          BY <4>1, <4>2, <5>1, KeyboardAssumption DEF CopiedSoFar
        <5>3. active_terminal # i[p]
          BY <1>3, <2>1, <5>2 DEF ReaderInv
        <5> QED
          BY <1>1, <2>1, <5>2, <5>3, CellApart DEF Waits
      <4>3. CopiedSoFar(q)'
        BY <1>2, <2>1, <4>1, <4>2 DEF CopiedSoFar
      <4> QED
        BY <1>2, <2>1, <3>1, <4>3 DEF ReaderInv, Reader
    <3> QED
      BY <3>2, <3>3
  <2> QED
    BY <1>1, <2>1, <2>2, <2>3 DEF LineInv
<1> QED
  BY <1>5, <1>6, <1>7, <1>8, <1>9, <1>10, <1>11, <1>12, <1>13, <1>14 DEF ReadStep

(* So does every step.                                                     *)
LEMMA NextLine == ASSUME Waits, LineInv, [Next]_vars PROVE LineInv'
<1>0. IInv'
  BY NextIInv DEF LineInv, Waits
<1>1. ASSUME NEW key \in Keys, Key(key) PROVE LineInv'
  <2>1. \A p \in Terminals : pc[p] \in {"user", "wait"}
    BY <1>1 DEF Key, AtPrompt, Waits
  <2>2. UNCHANGED <<pc, nbytes, i, buf>>
    BY Zenon, <1>1 DEF Key, keyboard_handler, locals
  <2>3. \A p \in Terminals : ReaderInv(p)'
    BY <2>1, <2>2 DEF LineInv, ReaderInv
  <2> QED
    BY <1>0, <2>2, <2>3 DEF LineInv
<1>2. CASE \E p \in Terminals : running = p /\ (Read(p) \/ Write(p))
  BY <1>0, <1>2, ProcessLine
<1>3. CASE \E p \in Terminals : ReadStep(p)
  BY <1>0, <1>3, ProcessLine DEF ReadStep
<1>4. CASE Tick \/ UNCHANGED vars
  <2>1. UNCHANGED <<keyboard, enterStatus, pc, locals>>
    BY <1>4 DEF Tick, vars
  <2>2. \A p \in Terminals : ReaderInv(p)'
    BY <2>1, LeftAlone DEF LineInv, keyboard, locals
  <2> QED
    BY <1>0, <2>1, <2>2 DEF LineInv, locals
<1> QED
  BY <1>1, <1>2, <1>3, <1>4 DEF Next

-----------------------------------------------------------------------------
(* The line of a terminal, character by character.                         *)
LEMMA TypedLineIs ==
  ASSUME SwitchKeys, TypeOK, NEW t \in Terminals
  PROVE  /\ TypedLine[t] \in Seq(Char)
         /\ Len(TypedLine[t]) = keyboardBufferIdx[t]
         /\ \A k \in 1..keyboardBufferIdx[t] : TypedLine[t][k] = keyboardBuffer[Cell(t, k - 1)]
<1> DEFINE n == keyboardBufferIdx[t]
           e(k) == keyboardBuffer[Cell(t, k - 1)]
<1>1. n \in 0..BUFFER_SIZE /\ n \in Nat
  BY KeyboardAssumption DEF TypeOK
<1>2. ASSUME NEW k \in 1..n PROVE e(k) \in Char
  <2>1. k - 1 \in 0..(BUFFER_SIZE - 1)
    BY <1>1, KeyboardAssumption
  <2> QED
    BY <2>1, CellApart DEF TypeOK, Char
<1>3. TypedLine[t] = [k \in 1..n |-> e(k)]
  BY DEF TypedLine
<1> HIDE DEF n, e
<1>4. [k \in 1..n |-> e(k)] \in Seq(Char)
  BY <1>1, <1>2, IsASeq
<1> QED
  BY <1>1, <1>3, <1>4 DEF n, e

(* A function with the elements of a sequence is the sequence.             *)
LEMMA SameElements ==
  ASSUME NEW S, NEW l \in Seq(S), NEW f, f = [k \in 1..Len(l) |-> f[k]],
         \A k \in 1..Len(l) : f[k] = l[k]
  PROVE  f = l
<1>1. l = [k \in 1..Len(l) |-> l[k]]
  BY LenProperties
<1> QED
  BY <1>1

(* What a line does when its own cells are left alone.                     *)
LEMMA SameLine ==
  ASSUME SwitchKeys, TypeOK, TypeOK', NEW t \in Terminals,
         keyboardBufferIdx'[t] = keyboardBufferIdx[t],
         \A k \in 1..keyboardBufferIdx[t] :
           keyboardBuffer'[Cell(t, k - 1)] = keyboardBuffer[Cell(t, k - 1)]
  PROVE  TypedLine'[t] = TypedLine[t]
BY DEF TypedLine

(* A key that is stored, if there is room, comes at the end of the line in *)
(* front; the other lines keep what they have.                             *)
LEMMA StoredLine ==
  ASSUME SwitchKeys, TypeOK, TypeOK', NEW c \in Char, c # NUL, Store(c)
  PROVE  TypedLine' = [TypedLine EXCEPT ![active_terminal] = Line!Longer(@, c)]
<1> DEFINE t == active_terminal
           n == keyboardBufferIdx[t]
<1>1. t \in Terminals /\ n \in 0..BUFFER_SIZE /\ keyboardBufferIdx \in [Terminals -> 0..BUFFER_SIZE]
  BY DEF TypeOK
<1>2. TypedLine[t] \in Seq(Char) /\ Len(TypedLine[t]) = n
  BY <1>1, TypedLineIs
<1>3. CASE ~HasRoom(t)
  <2>1. TypedLine' = TypedLine
    BY <1>3 DEF Store, TypedLine
  <2>2. Line!Longer(TypedLine[t], c) = TypedLine[t]
    BY <1>2, <1>3 DEF Line!Longer, HasRoom
  <2>3. TypedLine = [u \in Terminals |-> TypedLine[u]]
    BY DEF TypedLine
  <2> QED
    BY <1>1, <2>1, <2>2, <2>3
<1>4. CASE HasRoom(t)
  <2>1. n \in 0..(BUFFER_SIZE - 1)
    BY <1>1, <1>4, KeyboardAssumption DEF HasRoom
  <2>2. /\ keyboardBuffer' = [d \in Cells |-> IF d = Cell(t, n) THEN c ELSE keyboardBuffer[d]]
        /\ keyboardBufferIdx' = [keyboardBufferIdx EXCEPT ![t] = n + 1]
    BY <1>4 DEF Store
  <2>3. ASSUME NEW u \in Terminals, NEW k \in 1..keyboardBufferIdx[u]
        PROVE  keyboardBuffer'[Cell(u, k - 1)] = keyboardBuffer[Cell(u, k - 1)]
    <3>1. keyboardBufferIdx[u] \in 0..BUFFER_SIZE
      BY <1>1
    <3>2. k - 1 \in 0..(BUFFER_SIZE - 1) /\ (u = t => k - 1 # n)
      BY <1>1, <3>1, KeyboardAssumption
    <3>3. Cell(u, k - 1) \in Cells /\ Cell(u, k - 1) # Cell(t, n)
      BY <1>1, <2>1, <3>2, CellApart
    <3> QED
      BY <2>2, <3>3
  <2>4. ASSUME NEW u \in Terminals \ {t} PROVE TypedLine'[u] = TypedLine[u]
    <3>1. keyboardBufferIdx'[u] = keyboardBufferIdx[u]
      BY <1>1, <2>2
    <3> QED
      BY <2>3, <3>1, SameLine
  <2>5. TypedLine'[t] = Append(TypedLine[t], c)
    <3> DEFINE l == Append(TypedLine[t], c)
    <3>1. /\ l \in Seq(Char) /\ Len(l) = n + 1 /\ l[n + 1] = c
          /\ \A k \in 1..n : l[k] = TypedLine[t][k]
      BY <1>2, AppendProperties
    <3>2. keyboardBufferIdx'[t] = n + 1
      BY <1>1, <2>2
    <3>3. keyboardBuffer'[Cell(t, n)] = c
      BY <1>1, <2>1, <2>2, CellApart
    <3>4. \A k \in 1..n : l[k] = keyboardBuffer'[Cell(t, k - 1)]
      BY <1>1, <2>3, <3>1, TypedLineIs
    <3> HIDE DEF l
    <3>5. \A k \in 1..(n + 1) : l[k] = keyboardBuffer'[Cell(t, k - 1)]
      <4>1. ASSUME NEW k \in 1..(n + 1), k # n + 1 PROVE k \in 1..n
        BY <1>1, <4>1
      <4>2. (n + 1) - 1 = n
        BY <1>1
      <4> QED
        BY <3>1, <3>3, <3>4, <4>1, <4>2
    <3>6. TypedLine'[t] = [k \in 1..(n + 1) |-> keyboardBuffer'[Cell(t, k - 1)]]
      BY <1>1, <3>2 DEF TypedLine, Cell
    <3>7. TypedLine'[t] = l
      BY <3>1, <3>5, <3>6, SameElements
    <3> QED
      BY <3>7 DEF l
  <2>6. Line!Longer(TypedLine[t], c) = Append(TypedLine[t], c)
    BY <1>1, <1>2, <1>4 DEF Line!Longer, HasRoom
  <2>7. TypedLine = [u \in Terminals |-> TypedLine[u]] /\ TypedLine' = [u \in Terminals |-> TypedLine'[u]]
    BY DEF TypedLine
  <2> QED
    BY <1>1, <2>4, <2>5, <2>6, <2>7
<1> QED
  BY <1>3, <1>4

(* Backspace takes the last character, although it clears the cell after   *)
(* it: with room in the buffer that cell belongs to no line.               *)
LEMMA ErasedLine ==
  ASSUME SwitchKeys, TypeOK, TypeOK', HasRoom(active_terminal),
         keyboardBufferIdx[active_terminal] # 0, Erase
  PROVE  /\ TypedLine[active_terminal] # <<>>
         /\ TypedLine' = [TypedLine EXCEPT ![active_terminal] = SubSeq(@, 1, Len(@) - 1)]
<1> DEFINE t == active_terminal
           n == keyboardBufferIdx[t]
<1>1. t \in Terminals /\ n \in 0..BUFFER_SIZE /\ keyboardBufferIdx \in [Terminals -> 0..BUFFER_SIZE]
  BY DEF TypeOK
<1>2. n \in 1..(BUFFER_SIZE - 1)
  BY <1>1, KeyboardAssumption DEF HasRoom
<1>3. TypedLine[t] \in Seq(Char) /\ Len(TypedLine[t]) = n
  BY <1>1, TypedLineIs
<1>4. /\ keyboardBuffer' = [d \in Cells |-> IF d = Cell(t, n) THEN NUL ELSE keyboardBuffer[d]]
      /\ keyboardBufferIdx' = [keyboardBufferIdx EXCEPT ![t] = n - 1]
  BY DEF Erase
<1>5. ASSUME NEW u \in Terminals, NEW k \in 1..keyboardBufferIdx[u]
      PROVE  keyboardBuffer'[Cell(u, k - 1)] = keyboardBuffer[Cell(u, k - 1)]
  <2>1. keyboardBufferIdx[u] \in 0..BUFFER_SIZE
    BY <1>1
  <2>2. k - 1 \in 0..(BUFFER_SIZE - 1) /\ (u = t => k - 1 # n) /\ n \in 0..(BUFFER_SIZE - 1)
    BY <1>1, <1>2, <2>1, KeyboardAssumption
  <2>3. Cell(u, k - 1) \in Cells /\ Cell(u, k - 1) # Cell(t, n)
    BY <1>1, <2>2, CellApart
  <2> QED
    BY <1>4, <2>3
<1>6. ASSUME NEW u \in Terminals \ {t} PROVE TypedLine'[u] = TypedLine[u]
  <2>1. keyboardBufferIdx'[u] = keyboardBufferIdx[u]
    BY <1>1, <1>4
  <2> QED
    BY <1>5, <2>1, SameLine
<1>7. TypedLine'[t] = SubSeq(TypedLine[t], 1, n - 1)
  <2> DEFINE l == SubSeq(TypedLine[t], 1, n - 1)
  <2>1. \A k \in 1..(n - 1) : TypedLine[t][k] \in Char
    BY <1>2, <1>3, ElementOfSeq
  <2>2. l \in Seq(Char) /\ Len(l) = n - 1 /\ \A k \in 1..(n - 1) : l[k] = TypedLine[t][k]
    <3>1. n - 1 \in Int /\ 1 \in Int /\ (n - 1) - 1 + 1 = n - 1 /\ (1 <= n - 1 \/ n - 1 = 0)
      BY <1>2
    <3>2. /\ l \in Seq(Char)
          /\ Len(l) = IF 1 <= n - 1 THEN (n - 1) - 1 + 1 ELSE 0
          /\ \A k \in 1..((n - 1) - 1 + 1) : l[k] = TypedLine[t][1 + k - 1]
      BY <2>1, <3>1, SubSeqProperties
    <3> QED
      BY <3>1, <3>2
  <2>3. keyboardBufferIdx'[t] = n - 1
    BY <1>1, <1>4
  <2>4. TypedLine'[t] = [k \in 1..(n - 1) |-> keyboardBuffer'[Cell(t, k - 1)]]
    BY <1>1, <2>3 DEF TypedLine, Cell
  <2>5. \A k \in 1..(n - 1) : l[k] = keyboardBuffer'[Cell(t, k - 1)]
    BY SMTT(40), <1>1, <1>2, <1>5, <2>2, TypedLineIs
  <2> HIDE DEF l
  <2>6. TypedLine'[t] = l
    BY <2>2, <2>4, <2>5, SameElements
  <2> QED
    BY <2>6 DEF l
<1>8. TypedLine[t] # <<>>
  BY <1>2, <1>3
<1>9. TypedLine = [u \in Terminals |-> TypedLine[u]] /\ TypedLine' = [u \in Terminals |-> TypedLine'[u]]
  BY DEF TypedLine
<1> QED
  BY <1>1, <1>3, <1>6, <1>7, <1>8, <1>9

(* Only Enter gives a newline.                                             *)
LEMMA LookupChar ==
  ASSUME NEW key, NEW s, Lookup(key, s) # NUL
  PROVE  IF key = "enter" THEN Lookup(key, s) = NEWLINE
         ELSE Lookup(key, s) \in {"a", "A", "l", "L", "1", "!"}
<1>1. CASE key = "a" BY <1>1 DEF Lookup, keyboardUS, keyboardUSShift
<1>2. CASE key = "l" BY <1>2 DEF Lookup, keyboardUS, keyboardUSShift
<1>3. CASE key = "1" BY <1>3 DEF Lookup, keyboardUS, keyboardUSShift
<1>4. CASE key = "enter" BY <1>4 DEF Lookup, keyboardUS, keyboardUSShift
<1>5. CASE key \notin {"a", "l", "1", "enter"} BY <1>5 DEF Lookup, keyboardUS, keyboardUSShift
<1> QED BY <1>1, <1>2, <1>3, <1>4, <1>5

(* A key at the prompt edits or enters the line in front, or does nothing  *)
(* that LineDiscipline sees.                                               *)
LEMMA KeyRefines ==
  ASSUME Waits, LineInv, LineInv', NEW key \in Keys, Key(key)
  PROVE  [Line!Next]_(Line!vars)
<1> DEFINE t == active_terminal
<1>1. TypeOK /\ TypeOK' /\ SwitchKeys /\ t \in Terminals /\ active_terminal' \in Terminals
  BY DEF Waits, LineInv, IInv, TypeOK
<1>2. PICK down \in BOOLEAN : keyboard_handler(key, down)
  BY Zenon DEF Key
<1>3. enterStatus = 0 /\ \A p \in Terminals : pc[p] \in {"user", "wait"}
  BY DEF Key, AtPrompt, Waits
<1>4. UNCHANGED <<pc, buf>>
  BY <1>2 DEF keyboard_handler, locals
<1>5. \A u \in Terminals : ~Taking(u) /\ ~Taking(u)'
  BY <1>3, <1>4, RingType DEF Taking, Reader
<1>6. Pending = {} /\ UNCHANGED HandedOver
  <2>1. Pending = {}
    BY <1>1, <1>3, <1>5 DEF Pending
  <2>2. UNCHANGED HandedOver
    BY <1>4, <1>5 DEF HandedOver, Reader
  <2> QED
    BY <2>1, <2>2
<1>7. Pending' = IF enterStatus' = 1 THEN {active_terminal'} ELSE {}
  BY <1>1, <1>5 DEF Pending, Taking, Reader
<1>8. CASE key = "backspace" /\ down
  <2>1. Erase /\ HasRoom(t) /\ enterStatus' = 0
    BY <1>2, <1>3, <1>8 DEF keyboard_handler, Key, Waits
  <2>2. UNCHANGED Pending
    BY <1>6, <1>7, <2>1
  <2>3. CASE keyboardBufferIdx[t] = 0
    <3>1. UNCHANGED TypedLine
      BY <2>1, <2>3 DEF Erase, TypedLine
    <3> QED
      BY <1>6, <2>2, <3>1 DEF Line!vars
  <2>4. CASE keyboardBufferIdx[t] # 0
    <3>1. Line!Erase(t)
      BY <1>1, <1>6, <2>1, <2>2, <2>4, ErasedLine DEF Line!Erase
    <3> QED
      BY <1>1, <3>1 DEF Line!Next
  <2> QED
    BY <2>3, <2>4
<1>9. CASE ~(key = "backspace" /\ down)
  <2> DEFINE s == StatusAfter(key, down)
             c == CharOf(key, down, s)
  <2>1. /\ Store(c) /\ active_terminal' = TerminalAfter(s)
        /\ enterStatus' = IF down /\ key = "enter" THEN 1 ELSE enterStatus
    BY <1>2, <1>9 DEF keyboard_handler
  <2>2. c # NUL => c = Lookup(key, s) /\ down /\ ~Switches(s)
    BY DEF CharOf
  <2>3. c \in Char
    BY LookupType DEF CharOf, Char
  <2>4. c = NUL => UNCHANGED TypedLine
    <3> HIDE DEF c
    <3> QED BY <2>1 DEF Store, TypedLine
  <2>5. c # NUL => TypedLine' = [TypedLine EXCEPT ![t] = Line!Longer(@, c)]
    <3> HIDE DEF c
    <3> QED BY <1>1, <2>1, <2>3, StoredLine
  <2>6. CASE down /\ key = "enter"
    <3> DEFINE u == active_terminal'
    <3>1. Pending' = Pending \cup {u} /\ u \notin Pending
      BY <1>6, <1>7, <2>1, <2>6
    <3>2. c # NUL => c = NEWLINE /\ u = t
      BY <2>1, <2>2, <2>6, LookupChar DEF TerminalAfter
    <3>3. \/ TypedLine' = [TypedLine EXCEPT ![u] = Line!Longer(@, NEWLINE)]
          \/ TypedLine' = TypedLine
      BY <2>4, <2>5, <3>2
    <3>4. Line!Enter(u)
      BY <1>6, <3>1, <3>3 DEF Line!Enter
    <3> QED
      BY <1>1, <3>4 DEF Line!Next
  <2>7. CASE ~(down /\ key = "enter")
    <3>1. UNCHANGED Pending
      BY <1>3, <1>6, <1>7, <2>1, <2>7
    <3>2. CASE c = NUL
      BY <1>6, <2>4, <3>1, <3>2 DEF Line!vars
    <3>3. CASE c # NUL
      <4>1. c \in {"a", "A", "l", "L", "1", "!"}
        BY <2>2, <2>7, <3>3, LookupChar
      <4>2. Line!Type(t, c)
        BY <1>6, <2>5, <3>1, <3>3 DEF Line!Type
      <4> HIDE DEF c
      <4> QED
        BY <1>1, <4>1, <4>2 DEF Line!Next
    <3> QED
      BY <3>2, <3>3
  <2> QED
    BY <2>6, <2>7
<1> QED
  BY <1>8, <1>9

(* A step that leaves the lines, the pending Enter and who is taking a     *)
(* line alone is one that LineDiscipline does not see.                     *)
LEMMA Unseen ==
  ASSUME UNCHANGED <<keyboardBuffer, keyboardBufferIdx, active_terminal, enterStatus>>,
         \A u \in Terminals : (Taking(u)' <=> Taking(u)) /\ (Taking(u) \/ buf'[Reader(u)] = buf[Reader(u)]),
         active_terminal \in Terminals
  PROVE  UNCHANGED Line!vars
<1>1. UNCHANGED TypedLine
  BY DEF TypedLine, Cell
<1>2. UNCHANGED Pending
  BY DEF Pending
<1>3. UNCHANGED HandedOver
  BY DEF HandedOver, Reader
<1> QED
  BY <1>1, <1>2, <1>3 DEF Line!vars

(* No reader gets what stands for a line in the middle of being taken.     *)
LEMMA NotNone == ASSUME NEW s \in Seq(Char) PROVE s # None
<1> SUFFICES ASSUME s = None PROVE FALSE
  OBVIOUS
<1>1. Len(s) = 1 /\ s[1] = "none"
  BY DEF None
<1>2. s[1] \in Char
  BY <1>1, ElementOfSeq
<1> QED
  BY <1>1, <1>2 DEF Char, NUL, NEWLINE

(* The reader in front begins to take the line when it resets enterStatus. *)
LEMMA TakeRefines ==
  ASSUME Waits, LineInv, NEW p \in Terminals, Take(p)
  PROVE  Line!Next
<1> DEFINE t == active_terminal
<1>1. /\ t \in Terminals /\ pc = [q \in Terminals |-> pc[q]] /\ buf \in [Terminals -> Seq(Char)]
      /\ pc[p] = "take" /\ p = Reader(t) /\ SwitchKeys
  BY DEF LineInv, IInv, TypeOK, FrontTakes, Take, Waits
<1>2. enterStatus = 1 /\ enterStatus' = 0
  BY <1>1 DEF LineInv, ReaderInv, Take
<1>3. /\ pc'[p] = "test" /\ \A q \in Terminals \ {p} : pc'[q] = pc[q] /\ buf'[q] = buf[q]
      /\ UNCHANGED <<keyboardBuffer, keyboardBufferIdx, active_terminal>>
  BY <1>1 DEF Take, Goto, keyboard
<1>4. \A u \in Terminals \ {t} : Reader(u) \in Terminals \ {p}
  BY <1>1, Ring, RingType
<1>5. ~Taking(t) /\ Taking(t)' /\ \A u \in Terminals \ {t} : Taking(u)' <=> Taking(u)
  BY <1>1, <1>3, <1>4 DEF Taking, Reader
<1>6. Pending = {t} /\ Pending' = {t} /\ UNCHANGED TypedLine
  <2>1. Taking(active_terminal)'
    BY <1>3, <1>5 DEF Taking, Reader
  <2> QED
    BY <1>2, <1>3, <2>1 DEF Pending, TypedLine, Cell
<1>7. HandedOver[t] # None
  <2>1. HandedOver[t] = buf[p] /\ buf[p] \in Seq(Char)
    BY <1>1, <1>5 DEF HandedOver
  <2> QED
    BY <2>1, NotNone
<1>8. HandedOver' = [HandedOver EXCEPT ![t] = None]
  <2>1. HandedOver'[t] = None
    BY <1>1, <1>3, <1>5 DEF HandedOver, Reader
  <2>2. \A u \in Terminals \ {t} : HandedOver'[u] = HandedOver[u]
    BY <1>3, <1>4, <1>5 DEF HandedOver, Reader
  <2>3. HandedOver = [u \in Terminals |-> HandedOver[u]] /\ HandedOver' = [u \in Terminals |-> HandedOver'[u]]
    BY DEF HandedOver
  <2> QED
    BY <1>1, <2>1, <2>2, <2>3
<1>9. Line!Begin(t)
  BY <1>6, <1>7, <1>8 DEF Line!Begin
<1> QED
  BY <1>1, <1>9 DEF Line!Next

(* And it has handed over the line, cut to the size of the request, when   *)
(* it resets the index: what it copied one character at a time, with the   *)
(* timer and the other processes in between, is the line as entered.       *)
LEMMA ResetRefines ==
  ASSUME Waits, LineInv, NEW p \in Terminals, ResetIdx(p)
  PROVE  Line!Next
<1> DEFINE t == active_terminal
           n == nbytes[p]
           len == keyboardBufferIdx[t]
           cut == IF n < len THEN n ELSE len
<1>1. /\ t \in Terminals /\ pc = [q \in Terminals |-> pc[q]] /\ buf \in [Terminals -> Seq(Char)]
      /\ pc[p] = "reset" /\ p = Reader(t) /\ SwitchKeys /\ TypeOK
      /\ keyboardBufferIdx \in [Terminals -> 0..BUFFER_SIZE] /\ i[p] \in Nat
  BY DEF LineInv, IInv, TypeOK, FrontTakes, ResetIdx, Waits
<1>2. enterStatus = 0 /\ CopiedSoFar(p) /\ n \in NBytes /\ n \in Int /\ len \in Nat
  BY <1>1, KeyboardAssumption DEF LineInv, ReaderInv
<1>3. /\ pc'[p] = "clear" /\ \A q \in Terminals \ {p} : pc'[q] = pc[q]
      /\ keyboardBufferIdx' = [keyboardBufferIdx EXCEPT ![t] = 0]
      /\ UNCHANGED <<keyboardBuffer, active_terminal, enterStatus, buf>>
  BY <1>1 DEF ResetIdx, IdxReset, Goto
<1>4. \A u \in Terminals \ {t} : Reader(u) \in Terminals \ {p}
  BY <1>1, Ring, RingType
<1>5. Taking(t) /\ ~Taking(t)' /\ \A u \in Terminals \ {t} : Taking(u)' <=> Taking(u)
  BY <1>1, <1>3, <1>4 DEF Taking, Reader
<1>6. Pending = {t} /\ Pending' = {}
  <2>1. ~Taking(active_terminal)'
    BY <1>3, <1>5 DEF Taking, Reader
  <2> QED
    BY <1>2, <1>3, <1>5, <2>1 DEF Pending
<1>7. TypedLine' = [TypedLine EXCEPT ![t] = <<>>]
  <2>1. TypedLine'[t] = <<>>
    <3>1. TypedLine'[t] = [k \in 1..0 |-> keyboardBuffer'[Cell(t, k - 1)]]
      BY <1>1, <1>3 DEF TypedLine, Cell
    <3>2. <<>> \in Seq(Char) /\ Len(<<>>) = 0
      BY EmptySeq
    <3> QED
      BY <3>1, <3>2, SameElements
  <2>2. \A u \in Terminals \ {t} : TypedLine'[u] = TypedLine[u]
    BY <1>1, <1>3 DEF TypedLine, Cell
  <2>3. TypedLine = [u \in Terminals |-> TypedLine[u]] /\ TypedLine' = [u \in Terminals |-> TypedLine'[u]]
    BY DEF TypedLine
  <2> QED
    BY <1>1, <2>1, <2>2, <2>3
<1>8. buf[p] = SubSeq(TypedLine[t], 1, cut)
  <2> DEFINE l == SubSeq(TypedLine[t], 1, cut)
  <2>1. /\ TypedLine[t] \in Seq(Char) /\ Len(TypedLine[t]) = len
        /\ \A k \in 1..len : TypedLine[t][k] = keyboardBuffer[Cell(t, k - 1)]
    BY <1>1, TypedLineIs
  <2>2. cut \in Int /\ cut <= len /\ i[p] = (IF 1 <= cut THEN cut ELSE 0)
    BY <1>1, <1>2 DEF CopiedSoFar
  <2> HIDE DEF cut
  <2>3. \A k \in 1..cut : TypedLine[t][k] \in Char
    BY <1>2, <2>1, <2>2, ElementOfSeq
  <2>4. /\ l \in Seq(Char) /\ Len(l) = (IF 1 <= cut THEN cut - 1 + 1 ELSE 0)
        /\ \A k \in 1..(cut - 1 + 1) : l[k] = TypedLine[t][1 + k - 1]
    BY <2>2, <2>3, SubSeqProperties
  <2>5. Len(l) = i[p]
    BY <2>2, <2>4
  <2>6. \A k \in 1..i[p] : l[k] = keyboardBuffer[Cell(t, k - 1)]
    BY <1>2, <2>1, <2>2, <2>4
  <2>7. /\ buf[p] \in Seq(Char) /\ Len(buf[p]) = i[p]
        /\ \A k \in 1..i[p] : buf[p][k] = keyboardBuffer[Cell(t, k - 1)]
    BY <1>1, <1>2 DEF CopiedSoFar
  <2> HIDE DEF l
  <2>8. buf[p] = l
    BY SMTT(40), <2>4, <2>5, <2>6, <2>7, SeqEqual
  <2> QED
    BY <2>8 DEF l
<1>9. HandedOver[t] = None /\ HandedOver' = [HandedOver EXCEPT ![t] = buf[p]]
  <2>1. HandedOver[t] = None /\ HandedOver'[t] = buf[p]
    BY <1>1, <1>3, <1>5 DEF HandedOver, Reader
  <2>2. \A u \in Terminals \ {t} : HandedOver'[u] = HandedOver[u]
    BY <1>3, <1>5 DEF HandedOver, Reader
  <2>3. HandedOver = [u \in Terminals |-> HandedOver[u]] /\ HandedOver' = [u \in Terminals |-> HandedOver'[u]]
    BY DEF HandedOver
  <2> QED
    BY <1>1, <2>1, <2>2, <2>3
<1>10. Line!Hand(t)
  <2>1. cut = (IF n < Len(TypedLine[t]) THEN n ELSE Len(TypedLine[t]))
    BY <1>1, TypedLineIs
  <2>2. HandedOver' = [HandedOver EXCEPT ![t] =
           SubSeq(TypedLine[t], 1, IF n < Len(TypedLine[t]) THEN n ELSE Len(TypedLine[t]))]
    BY <1>8, <1>9, <2>1
  <2> QED
    BY <1>2, <1>6, <1>7, <1>9, <2>2 DEF Line!Hand
<1> QED
  BY <1>1, <1>10 DEF Line!Next

(* The other steps of keyboard_read are not seen, except the return of a   *)
(* bad or empty request and the clearing of cells that no line has.        *)
LEMMA ProcessRefines ==
  ASSUME Waits, LineInv, LineInv', NEW p \in Terminals, running = p,
         Read(p) \/ Write(p) \/ ReadStep(p)
  PROVE  [Line!Next]_(Line!vars)
<1>1. /\ active_terminal \in Terminals /\ SwitchKeys
      /\ pc = [q \in Terminals |-> pc[q]] /\ buf = [q \in Terminals |-> buf[q]]
      /\ TypeOK /\ TypeOK'
  BY DEF LineInv, IInv, TypeOK, Waits
<1>2. UNCHANGED active_terminal /\ \A q \in Terminals \ {p} : pc'[q] = pc[q] /\ buf'[q] = buf[q]
  BY OneProcess
<1>3. ASSUME UNCHANGED <<keyboardBuffer, keyboardBufferIdx, enterStatus>>,
             pc'[p] \in {"test", "copy", "reset"} <=> pc[p] \in {"test", "copy", "reset"},
             pc[p] \in {"test", "copy", "reset"} \/ buf'[p] = buf[p]
      PROVE  UNCHANGED Line!vars
  <2>1. \A u \in Terminals : (Taking(u)' <=> Taking(u)) /\ (Taking(u) \/ buf'[Reader(u)] = buf[Reader(u)])
    BY <1>2, <1>3, RingType DEF Taking, Reader
  <2> QED
    BY <1>1, <1>2, <1>3, <2>1, Unseen
<1> USE DEF keyboard, locals
<1>4. CASE Read(p)
  BY <1>1, <1>3, <1>4 DEF Read, Goto
<1>5. CASE Write(p)
  BY <1>1, <1>3, <1>5 DEF Write, terminal_write, Waits
<1>6. CASE SeeEnter(p)
  BY <1>1, <1>3, <1>6 DEF SeeEnter, Goto
<1>7. CASE SeeTerminal(p)
  BY <1>1, <1>3, <1>7 DEF SeeTerminal, Goto
<1>8. CASE WaitBody(p)
  <2>1. /\ pc[p] \in {"body", "wait"} /\ pc'[p] \in {"user", "wait"}
        /\ UNCHANGED <<keyboardBuffer, keyboardBufferIdx, enterStatus>>
        /\ buf'[p] = <<>> \/ UNCHANGED buf
    BY <1>1, <1>8 DEF WaitBody, Goto
  <2>2. CASE UNCHANGED buf
    BY <1>3, <2>1, <2>2
  <2>3. CASE buf'[p] = <<>>
    <3>1. PICK t \in Terminals : p = Reader(t)
      BY <1>1, Ring
    <3>2. \A u \in Terminals \ {t} : Reader(u) \in Terminals \ {p}
      BY <1>1, <3>1, Ring, RingType
    <3>3. ~Taking(t) /\ ~Taking(t)' /\ \A u \in Terminals \ {t} : Taking(u)' <=> Taking(u)
      BY <1>2, <2>1, <3>1, <3>2 DEF Taking, Reader
    <3>4. UNCHANGED <<TypedLine, Pending>>
      <4>1. UNCHANGED TypedLine
        BY <2>1 DEF TypedLine, Cell
      <4>2. Taking(active_terminal)' <=> Taking(active_terminal)
        BY <1>1, <1>2, <3>3 DEF Taking, Reader
      <4>3. UNCHANGED Pending
        BY <1>2, <2>1, <4>2 DEF Pending
      <4> QED
        BY <4>1, <4>3
    <3>5. HandedOver[t] = buf[p] /\ HandedOver'[t] = <<>>
      BY <2>3, <3>1, <3>3 DEF HandedOver, Reader
    <3>6. \A u \in Terminals \ {t} : HandedOver'[u] = HandedOver[u]
      BY <1>2, <3>2, <3>3 DEF HandedOver, Reader
    <3>7. HandedOver = [u \in Terminals |-> HandedOver[u]] /\ HandedOver' = [u \in Terminals |-> HandedOver'[u]]
      BY DEF HandedOver
    <3>8. HandedOver' = [HandedOver EXCEPT ![t] = <<>>]
      BY <3>5, <3>6, <3>7
    <3>9. HandedOver[t] # None
      <4>1. buf[p] \in Seq(Char)
        BY DEF LineInv
      <4> QED
        BY <3>5, <4>1, NotNone
    <3>10. Line!Nothing(t)
      BY <3>4, <3>8, <3>9 DEF Line!Nothing
    <3> QED
      BY <3>10 DEF Line!Next
  <2> QED
    BY <2>1, <2>2, <2>3
<1>9. CASE Take(p)
  BY <1>9, TakeRefines
<1>10. CASE Test(p)
  BY <1>1, <1>3, <1>10 DEF Test, Goto
<1>11. CASE Copy(p)
  <2>1. pc[p] = "copy" /\ pc'[p] = "test" /\ UNCHANGED <<keyboardBuffer, keyboardBufferIdx, enterStatus>>
    BY <1>1, <1>11 DEF Copy, Goto
  <2> QED
    BY <1>3, <2>1
<1>12. CASE ResetIdx(p)
  BY <1>12, ResetRefines
<1>13. CASE ClearCells(p)
  <2>1. /\ pc[p] = "clear" /\ pc'[p] = "user" /\ UNCHANGED <<keyboardBufferIdx, enterStatus, buf>>
        /\ keyboardBuffer' =
             [c \in Cells |-> IF c \div BUFFER_SIZE = i[p] THEN NUL ELSE keyboardBuffer[c]]
    BY <1>1, <1>13 DEF ClearCells, Goto
  <2>2. i[p] \in Terminals /\ keyboardBufferIdx[i[p]] = 0
    BY <2>1 DEF LineInv, ReaderInv
  <2>3. \A u \in Terminals : (Taking(u)' <=> Taking(u)) /\ (Taking(u) \/ buf'[Reader(u)] = buf[Reader(u)])
    BY <1>2, <2>1, RingType DEF Taking, Reader
  <2>4. UNCHANGED TypedLine
    <3>1. ASSUME NEW u \in Terminals, NEW k \in 1..keyboardBufferIdx[u]
          PROVE  keyboardBuffer'[Cell(u, k - 1)] = keyboardBuffer[Cell(u, k - 1)]
      <4>1. keyboardBufferIdx[u] \in 0..BUFFER_SIZE
        BY <1>1 DEF TypeOK
      <4>2. k - 1 \in 0..(BUFFER_SIZE - 1) /\ u # i[p]
        BY <2>2, <4>1, KeyboardAssumption
      <4> QED
        BY <1>1, <2>1, <4>2, CellApart
    <3>2. \A u \in Terminals : TypedLine'[u] = TypedLine[u]
      BY <1>1, <2>1, <3>1, SameLine
    <3> QED
      BY <3>2 DEF TypedLine
  <2>5. UNCHANGED Pending
    BY <1>1, <1>2, <2>1, <2>3 DEF Pending
  <2>6. UNCHANGED HandedOver
    BY <2>3, <2>1 DEF HandedOver, Reader
  <2> QED
    BY <2>4, <2>5, <2>6 DEF Line!vars
<1> QED
  BY <1>4, <1>5, <1>6, <1>7, <1>8, <1>9, <1>10, <1>11, <1>12, <1>13 DEF ReadStep

(* For every buffer size, set of keys and request sizes, and however the   *)
(* timer cuts the readers' steps, keyboard_handler, keyboard_read and      *)
(* clear_keyboardBuffer implement LineDiscipline for a typist who waits.   *)
THEOREM LinesImplemented == ASSUME Waits PROVE Spec => ImplementsLines
<1>1. Init => LineInv
  <2> SUFFICES ASSUME Init PROVE LineInv
    OBVIOUS
  <2>1. TypeOK
    BY InitType
  <2>2. FrontTakes
    BY DEF Init, FrontTakes
  <2>3. FirstSlice
    BY DEF Init, FirstSlice, Terminals, SwitchKeys, Waits
  <2>4. buf \in [Terminals -> Seq(Char)] /\ \A p \in Terminals : ReaderInv(p)
    <3>1. <<>> \in Seq(Char)
      OBVIOUS
    <3> QED
      BY <3>1 DEF Init, ReaderInv
  <2> QED
    BY <2>1, <2>2, <2>3, <2>4 DEF LineInv, IInv
<1>2. LineInv /\ [Next]_vars => LineInv'
  BY NextLine
<1>3. Init => Line!Init
  <2> SUFFICES ASSUME Init PROVE Line!Init
    OBVIOUS
  <2>1. \A t \in Terminals : TypedLine[t] = <<>>
    <3> SUFFICES ASSUME NEW t \in Terminals PROVE TypedLine[t] = <<>>
      OBVIOUS
    <3>1. TypedLine[t] = [k \in 1..0 |-> keyboardBuffer[Cell(t, k - 1)]]
      BY DEF Init, TypedLine
    <3>2. <<>> \in Seq(Char) /\ Len(<<>>) = 0
      BY EmptySeq
    <3> QED
      BY <3>1, <3>2, SameElements
  <2>2. TypedLine = [t \in Terminals |-> <<>>]
    BY <2>1 DEF TypedLine
  <2>3. \A t \in Terminals : ~Taking(t) /\ buf[Reader(t)] = <<>>
    BY RingType DEF Init, Taking
  <2>4. Pending = {}
    BY <2>3, KeyboardAssumption DEF Init, Pending, Terminals
  <2>5. HandedOver = [t \in Terminals |-> <<>>]
    BY <2>3 DEF HandedOver
  <2> QED
    BY <2>2, <2>4, <2>5 DEF Line!Init
<1>4. LineInv /\ LineInv' /\ [Next]_vars => [Line!Next]_(Line!vars)
  <2> SUFFICES ASSUME LineInv, LineInv', [Next]_vars PROVE [Line!Next]_(Line!vars)
    OBVIOUS
  <2>1. CASE \E key \in Keys : Key(key)
    BY <2>1, KeyRefines
  <2>2. CASE \E p \in Terminals : running = p /\ (Read(p) \/ Write(p))
    BY <2>2, ProcessRefines
  <2>3. CASE \E p \in Terminals : ReadStep(p)
    BY <2>3, ProcessRefines DEF ReadStep
  <2>4. CASE Tick \/ UNCHANGED vars
    <3>1. UNCHANGED <<keyboard, enterStatus, pc, locals>>
      BY <2>4 DEF Tick, vars
    <3>2. active_terminal \in Terminals
      BY DEF LineInv, IInv, TypeOK
    <3> QED
      BY <3>1, <3>2, Unseen DEF keyboard, locals, Taking, Reader
  <2> QED
    BY <2>1, <2>2, <2>3, <2>4 DEF Next
<1> QED
  BY <1>1, <1>2, <1>3, <1>4, PTL DEF Spec, ImplementsLines, Line!Spec
=============================================================================
