------------------------------ MODULE Keyboard ------------------------------
(***************************************************************************)
(* The line discipline of keyboard.c and terminal.c: the keyboard          *)
(* interrupt fills a line buffer per terminal, and keyboard_read, which    *)
(* runs with interrupts on, waits for Enter and takes the line.            *)
(*                                                                         *)
(* The base shells are up and each terminal has one process in the ring    *)
(* (the invariants of module Kernel), so a process is named by its         *)
(* terminal_id.  The ring runs them from the last terminal down to 0, and  *)
(* switch_tasks sets pcb_terminal to the terminal of the process it takes  *)
(* the processor from.  The kernel is built without optimisation: each use *)
(* of a global is a load of its own.                                       *)
(***************************************************************************)
EXTENDS Integers, Sequences

CONSTANTS
  TERMINAL_QUANTITY,   \* 3
  BUFFER_SIZE,         \* 128
  Keys,                \* the keys the typist uses
  NBytes,              \* what processes pass to read
  TypeAhead,           \* keys are struck also while nobody waits at the prompt
  FullErase,           \* Backspace is struck also when the line is full
  BackgroundOutput     \* processes write also while an Enter is pending

Terminals == 0..(TERMINAL_QUANTITY - 1)
NUL == "nul"
NEWLINE == "newline"
ModifierKeys == {"lshift", "rshift", "ctrl", "alt", "F1", "F2", "F3", "caps"}
Modifiers == {"shift", "ctrl", "alt", "F1", "F2", "F3", "caps"}

ASSUME KeyboardAssumption ==
  /\ TERMINAL_QUANTITY \in 1..3
  /\ BUFFER_SIZE \in Nat \ {0}
  /\ Keys \subseteq {"a", "1", "l", "enter", "backspace", "tab", "lshift", "rshift",
                     "ctrl", "alt", "F1", "F2", "F3", "caps"}
  /\ NBytes \subseteq Int
  /\ TypeAhead \in BOOLEAN /\ FullErase \in BOOLEAN /\ BackgroundOutput \in BOOLEAN

VARIABLES
  keyboardBuffer,      \* the array [terminal][i], flat: cell t * BUFFER_SIZE + i
  keyboardBufferIdx,
  enterStatus,
  status,              \* altStatus, F1Status, ..., capsStatus
  active_terminal,
  pcb_terminal,
  running,             \* the process that has the processor
  pc,                  \* of each process, in keyboard_read
  nbytes, i, buf,      \* keyboard_read's argument and index (0 outside the
                       \* call), and what it put into the caller's buffer
  held                 \* the keys with a flag that are down (the release of
                       \* any other key changes nothing)

keyboard == <<keyboardBuffer, keyboardBufferIdx, status, active_terminal, held>>
locals == <<nbytes, i, buf>>
vars == <<keyboard, enterStatus, pcb_terminal, running, pc, locals>>

Cells == 0..(TERMINAL_QUANTITY * BUFFER_SIZE - 1)
Cell(t, k) == t * BUFFER_SIZE + k

Init ==
  /\ keyboardBuffer = [c \in Cells |-> NUL]
  /\ keyboardBufferIdx = [t \in Terminals |-> 0]
  /\ enterStatus = 0
  /\ status = [m \in Modifiers |-> 0]
  /\ active_terminal = 0
  /\ pcb_terminal = 0
  /\ running = 0
  /\ pc = [p \in Terminals |-> "user"]
  /\ nbytes = [p \in Terminals |-> 0]
  /\ i = [p \in Terminals |-> 0]
  /\ buf = [p \in Terminals |-> <<>>]
  /\ held = {}
-----------------------------------------------------------------------------
(* keyboard_handler, an interrupt gate: nothing comes between its steps.   *)

(* The key flags after a key goes down or up.                              *)
StatusAfter(key, down) ==
  LET flag == IF key \in {"lshift", "rshift"} THEN "shift" ELSE key
  IN  IF flag \notin Modifiers THEN status
      ELSE IF flag # "caps" THEN [status EXCEPT ![flag] = IF down THEN 1 ELSE 0]
      ELSE [status EXCEPT !["caps"] = IF down THEN 1 - @ ELSE @]

(* The tables: two letters and a digit stand for the keys that print.      *)
(* What Tab and Esc find there is not stored.                              *)
keyboardUS(key) ==
  CASE key \in {"a", "l", "1"} -> key
    [] key = "enter"           -> NEWLINE
    [] OTHER                   -> NUL

keyboardUSShift(key) ==
  CASE key = "a"     -> "A"
    [] key = "l"     -> "L"
    [] key = "1"     -> "!"
    [] key = "enter" -> NEWLINE
    [] OTHER         -> NUL

(* Caps lock counts for letters only, and undoes shift.                    *)
Capitilize(key, s) ==
  IF key \in {"a", "l"} THEN s["shift"] # s["caps"] ELSE s["shift"] = 1

Lookup(key, s) == IF Capitilize(key, s) THEN keyboardUSShift(key) ELSE keyboardUS(key)

(* Alt with F1, F2 or F3, in this order.                                   *)
Switches(s) == s["alt"] = 1 /\ \E f \in {"F1", "F2", "F3"} : s[f] = 1
TerminalAfter(s) ==
  IF ~Switches(s) THEN active_terminal
  ELSE IF s["F1"] = 1 THEN 0 ELSE IF s["F2"] = 1 THEN 1 ELSE 2

(* A key that is stored: not with Ctrl, and not when it switches terminals.*)
CharOf(key, down, s) ==
  IF down /\ s["ctrl"] = 0 /\ ~Switches(s) THEN Lookup(key, s) ELSE NUL

(* Backspace clears the cell at the index, not the one before it; when the *)
(* buffer is full that is the next terminal's first cell.                  *)
Erase ==
  LET t == active_terminal
  IN  IF keyboardBufferIdx[t] = 0 THEN UNCHANGED <<keyboardBuffer, keyboardBufferIdx>>
      ELSE /\ keyboardBuffer' = [c \in Cells |-> IF c = Cell(t, keyboardBufferIdx[t]) THEN NUL
                                                 ELSE keyboardBuffer[c]]
           /\ keyboardBufferIdx' = [keyboardBufferIdx EXCEPT ![t] = @ - 1]

HasRoom(t) == keyboardBufferIdx[t] < BUFFER_SIZE

Store(char) ==
  LET t == active_terminal
  IN  IF char = NUL \/ ~HasRoom(t) THEN UNCHANGED <<keyboardBuffer, keyboardBufferIdx>>
      ELSE /\ keyboardBuffer' =
                [c \in Cells |-> IF c = Cell(t, keyboardBufferIdx[t]) THEN char
                                 ELSE keyboardBuffer[c]]
           /\ keyboardBufferIdx' = [keyboardBufferIdx EXCEPT ![t] = @ + 1]

keyboard_handler(key, down) ==
  LET s == StatusAfter(key, down)
  IN  /\ status' = s
      /\ enterStatus' = IF down /\ key = "enter" THEN 1 ELSE enterStatus
      /\ IF key = "backspace" /\ down THEN Erase ELSE Store(CharOf(key, down, s))
      /\ active_terminal' = TerminalAfter(s)
      /\ UNCHANGED <<pcb_terminal, running, pc, locals>>

(* Whose keyboard_read takes the lines of terminal t, once each process    *)
(* has been switched to: the process run after that of terminal t.         *)
Reader(t) == (t + TERMINAL_QUANTITY - 1) % TERMINAL_QUANTITY

(* A typist who does not type ahead waits until the last line was taken    *)
(* and the process in front waits for another.                             *)
AtPrompt ==
  /\ enterStatus = 0
  /\ pc[Reader(active_terminal)] = "wait"
  /\ \A p \in Terminals : pc[p] \in {"user", "wait"}

Key(key) ==
  /\ TypeAhead \/ AtPrompt
  /\ key = "backspace" => FullErase \/ HasRoom(active_terminal)
  /\ \/ held' = held \cup ({key} \cap ModifierKeys) /\ keyboard_handler(key, TRUE)
     \/ key \in held /\ held' = held \ {key} /\ keyboard_handler(key, FALSE)
-----------------------------------------------------------------------------
(* keyboard_read by the running process.                                   *)

Goto(p, label) == pc' = [pc EXCEPT ![p] = label]

Read(p) ==
  /\ pc[p] = "user"
  /\ \E n \in NBytes : nbytes' = [nbytes EXCEPT ![p] = n]
  /\ Goto(p, "wait")
  /\ UNCHANGED <<keyboard, enterStatus, pcb_terminal, running, i, buf>>

(* The condition of the while loop: first enterStatus ...                  *)
SeeEnter(p) ==
  /\ pc[p] = "wait" /\ enterStatus = 1
  /\ Goto(p, "entered")
  /\ UNCHANGED <<keyboard, enterStatus, pcb_terminal, running, locals>>

AnyTerminal == TRUE
OwnTerminal == pcb_terminal = active_terminal

(* ... then whether the terminal is the one in front.                      *)
SeeTerminal(p) ==
  /\ pc[p] = "entered"
  /\ Goto(p, IF OwnTerminal THEN "take" ELSE "body")
  /\ UNCHANGED <<keyboard, enterStatus, pcb_terminal, running, locals>>

(* The body of the loop, under cli: a bad or an empty request returns.     *)
WaitBody(p) ==
  /\ pc[p] = "body" \/ (pc[p] = "wait" /\ enterStatus = 0)
  /\ Goto(p, IF nbytes[p] <= 0 THEN "user" ELSE "wait")
  /\ IF nbytes[p] <= 0
     THEN buf' = [buf EXCEPT ![p] = <<>>] /\ nbytes' = [nbytes EXCEPT ![p] = 0]
     ELSE UNCHANGED <<buf, nbytes>>
  /\ UNCHANGED <<keyboard, enterStatus, pcb_terminal, running, i>>

Take(p) ==
  /\ pc[p] = "take"
  /\ enterStatus' = 0
  /\ i' = [i EXCEPT ![p] = 0]
  /\ buf' = [buf EXCEPT ![p] = <<>>]
  /\ Goto(p, "test")
  /\ UNCHANGED <<keyboard, pcb_terminal, running, nbytes>>

Test(p) ==
  /\ pc[p] = "test"
  /\ Goto(p, IF i[p] < keyboardBufferIdx[active_terminal] /\ i[p] < nbytes[p]
             THEN "copy" ELSE "reset")
  /\ UNCHANGED <<keyboard, enterStatus, pcb_terminal, running, locals>>

Copy(p) ==
  /\ pc[p] = "copy"
  /\ buf' = [buf EXCEPT ![p] = Append(@, keyboardBuffer[Cell(active_terminal, i[p])])]
  /\ i' = [i EXCEPT ![p] = @ + 1]
  /\ Goto(p, "test")
  /\ UNCHANGED <<keyboard, enterStatus, pcb_terminal, running, nbytes>>

(* clear_keyboardBuffer(active_terminal): the index first, then the cells  *)
(* of the same terminal, kept in i for the second step.                    *)
NotReset(t) == keyboardBufferIdx
IdxReset(t) == [keyboardBufferIdx EXCEPT ![t] = 0]

ResetIdx(p) ==
  /\ pc[p] = "reset"
  /\ keyboardBufferIdx' = IdxReset(active_terminal)
  /\ i' = [i EXCEPT ![p] = active_terminal]
  /\ Goto(p, "clear")
  /\ UNCHANGED <<keyboardBuffer, status, active_terminal, held, enterStatus, pcb_terminal,
                 running, nbytes, buf>>

(* The loop of clear_keyboardBuffer runs with interrupts on; it is one     *)
(* step here.  While keys are only struck at the prompt nobody else        *)
(* touches the buffer meanwhile, and with TypeAhead the one step already   *)
(* loses what is typed before it (NoHoles).                                *)
ClearCells(p) ==
  /\ pc[p] = "clear"
  /\ keyboardBuffer' =
       [c \in Cells |-> IF c \div BUFFER_SIZE = i[p] THEN NUL ELSE keyboardBuffer[c]]
  /\ Goto(p, "user")
  /\ i' = [i EXCEPT ![p] = 0]
  /\ nbytes' = [nbytes EXCEPT ![p] = 0]
  /\ UNCHANGED <<keyboardBufferIdx, status, active_terminal, held, enterStatus, pcb_terminal,
                 running, buf>>

(* terminal_write resets enterStatus before it prints.                     *)
terminal_write(p) ==
  /\ pc[p] = "user"
  /\ enterStatus' = 0
  /\ UNCHANGED <<keyboard, pcb_terminal, running, pc, locals>>

(* Processes that print nothing of their own accord write only while no    *)
(* Enter is pending.                                                       *)
Write(p) ==
  /\ BackgroundOutput \/ enterStatus = 0
  /\ terminal_write(p)

ReadStep(p) ==
  /\ running = p
  /\ \/ SeeEnter(p) \/ SeeTerminal(p) \/ WaitBody(p) \/ Take(p)
     \/ Test(p) \/ Copy(p) \/ ResetIdx(p) \/ ClearCells(p)

(* switch_tasks.                                                           *)
Tick ==
  /\ running' = (running + TERMINAL_QUANTITY - 1) % TERMINAL_QUANTITY
  /\ pcb_terminal' = running
  /\ UNCHANGED <<keyboard, enterStatus, pc, locals>>

Next ==
  \/ \E key \in Keys : Key(key)
  \/ \E p \in Terminals : running = p /\ (Read(p) \/ Write(p))
  \/ \E p \in Terminals : ReadStep(p)
  \/ Tick

Spec == Init /\ [][Next]_vars

(* The timer goes on ticking, and a process that is given the processor    *)
(* again and again gets on with its system call.                           *)
FairSpec == Spec /\ WF_vars(Tick) /\ \A p \in Terminals : SF_vars(ReadStep(p))
-----------------------------------------------------------------------------
(* Types; the index never passes the end of the terminal's buffer.         *)
TypeOK ==
  /\ keyboardBuffer \in [Cells -> {NUL, NEWLINE, "a", "A", "l", "L", "1", "!"}]
  /\ keyboardBufferIdx \in [Terminals -> 0..BUFFER_SIZE]
  /\ enterStatus \in 0..1
  /\ status \in [Modifiers -> 0..1]
  /\ active_terminal \in Terminals
  /\ pcb_terminal \in Terminals
  /\ running \in Terminals
  /\ pc \in [Terminals -> {"user", "wait", "body", "entered", "take", "test", "copy", "reset",
                           "clear"}]
  /\ nbytes \in [Terminals -> {0} \cup NBytes]
  /\ i \in [Terminals -> Nat]
  /\ DOMAIN buf = Terminals
  /\ held \subseteq ModifierKeys

(* "clear the buffer, reset index": the characters a line is said to have  *)
(* are there, so no reader is handed a hole.                               *)
NoHoles ==
  \A t \in Terminals : \A k \in 0..(keyboardBufferIdx[t] - 1) : keyboardBuffer[Cell(t, k)] # NUL

(* keyboard_read waits while pcb_terminal is not the terminal in front: a  *)
(* process that takes a line is the reader of the terminal in front.       *)
FrontTakes ==
  \A p \in Terminals : pc[p] \in {"take", "test", "copy", "reset"} => p = Reader(active_terminal)

(* The terminals as LineDiscipline sees them: what is typed and not yet    *)
(* reset, the terminal whose Enter is not yet answered, and what its       *)
(* reader got.                                                             *)
None == <<"none">>
Taking(t) == pc[Reader(t)] \in {"test", "copy", "reset"}

TypedLine ==
  [t \in Terminals |-> [k \in 1..keyboardBufferIdx[t] |-> keyboardBuffer[Cell(t, k - 1)]]]
Pending == IF enterStatus = 1 \/ Taking(active_terminal) THEN {active_terminal} ELSE {}
HandedOver == [t \in Terminals |-> IF Taking(t) THEN None ELSE buf[Reader(t)]]

Line ==
  INSTANCE LineDiscipline WITH
    Limit   <- BUFFER_SIZE,
    Chars   <- {"a", "A", "l", "L", "1", "!"},
    Newline <- NEWLINE,
    Counts  <- NBytes,
    line    <- TypedLine,
    entered <- Pending,
    got     <- HandedOver

(* At the prompt the buffers, the flag and the loop of keyboard_read act   *)
(* as line editors that hand over whole lines, one per terminal.  That is  *)
(* so as long as nobody types ahead, strikes Backspace in a full line or   *)
(* writes while an Enter is pending: with TypeAhead, FullErase or          *)
(* BackgroundOutput it fails.                                              *)
ImplementsLines == Line!Spec

(* A line entered at a prompt is taken: keyboard_read of the process in    *)
(* front, if it asked for any characters, gets past its loop.  (A process  *)
(* that writes in between, with BackgroundOutput, takes the Enter away.)   *)
EnterAnswered ==
  \A t \in Terminals :
    /\ enterStatus = 1 /\ active_terminal = t
    /\ pc[Reader(t)] = "wait" /\ nbytes[Reader(t)] > 0
    ~> keyboardBufferIdx[t] = 0

(* "if shift/caps pushed lookup scancode in appropriate lookup table": the *)
(* shift flag is set while a shift key is down.                            *)
ShiftHeld == held \cap {"lshift", "rshift"} # {} => status["shift"] = 1
=============================================================================
