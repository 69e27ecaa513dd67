------------------------------- MODULE Screen -------------------------------
(***************************************************************************)
(* The console of lib.c: putc, scroll_up, tab, backspace and clear on the  *)
(* text page of each terminal, called by the keyboard interrupt (echo, for *)
(* the terminal in front), by terminal_write and vidmap (for the caller's  *)
(* terminal), and by puts and printf (for the one in front).               *)
(*                                                                         *)
(* System calls run with interrupts on, so the keyboard interrupt and the  *)
(* other processes come between the statements of terminal_write's putc: a *)
(* character that is put on the screen takes one step per statement        *)
(* (newline, tab, scrolling and clearing take one step each).  A process   *)
(* writes to one terminal and no two to the same, as OutputRotation of     *)
(* Kernel says, so a terminal names its writer.  Attributes are left out:  *)
(* every write sets the same one.                                          *)
(***************************************************************************)
EXTENDS Integers

CONSTANTS
  TERMINAL_QUANTITY,  \* 3
  NUM_COLS,           \* 80
  NUM_ROWS,           \* 25
  TabStop,            \* 8
  Chars,              \* printable characters
  Writers             \* terminals with a process that writes

Terminals == 0..(TERMINAL_QUANTITY - 1)
Last == NUM_ROWS * NUM_COLS - 1
NEWLINE == "newline"
TAB == "tab"
Blank == " "

ASSUME ScreenAssumption ==
  /\ TERMINAL_QUANTITY \in Nat \ {0} /\ NUM_COLS \in Nat \ {0} /\ NUM_ROWS \in Nat \ {0, 1}
  /\ TabStop \in Nat \ {0}
  /\ NEWLINE \notin Chars /\ TAB \notin Chars
  /\ Writers \subseteq Terminals

VARIABLES
  video_mem,          \* of each terminal: position -> character; the page has
                      \* room for one row after the last, which is not shown
  screen_x, screen_y,
  active_terminal,
  writer,             \* the putc of each terminal's process: where it is, and
                      \* the character
  began               \* history: the position of the cursor when that putc
                      \* began, and whether the terminal has been in the
                      \* background since

screens == <<video_mem, screen_x, screen_y>>
vars == <<screens, active_terminal, writer, began>>

Positions == 0..(Last + NUM_COLS)
Idle == [at |-> "idle", c |-> Blank]
Never == [p |-> 0, behind |-> FALSE]

Init ==
  /\ video_mem = [t \in Terminals |-> [p \in Positions |-> Blank]]
  /\ screen_x = [t \in Terminals |-> 0]
  /\ screen_y = [t \in Terminals |-> 0]
  /\ active_terminal = 0
  /\ writer = [t \in Terminals |-> Idle]
  /\ began = [t \in Terminals |-> Never]
-----------------------------------------------------------------------------
(* A screen is what is on it and where its cursor is; lib.c's functions as *)
(* functions on screens.                                                   *)
Screen(t) == [mem |-> video_mem[t], x |-> screen_x[t], y |-> screen_y[t]]

Position(s) == NUM_COLS * s.y + s.x

SetScreen(t, s) ==
  /\ video_mem' = [video_mem EXCEPT ![t] = s.mem]
  /\ screen_x' = [screen_x EXCEPT ![t] = s.x]
  /\ screen_y' = [screen_y EXCEPT ![t] = s.y]

RowBelow(p) == p + NUM_COLS

(* The rows that move up are read at video_mem itself: terminal 0's.       *)
scroll_up(s) ==
  [mem |-> [p \in Positions |->
              IF p <= Last - NUM_COLS THEN video_mem[0][RowBelow(p)]
              ELSE IF p <= Last THEN Blank ELSE s.mem[p]],
   x |-> 0, y |-> NUM_ROWS - 1]

Newline(s) ==
  IF s.y = NUM_ROWS - 1 THEN scroll_up(s) ELSE [mem |-> s.mem, x |-> 0, y |-> s.y + 1]

Put(s, c) == [s EXCEPT !.mem[Position(s)] = c]
Advance(s) == [mem |-> s.mem,
               x   |-> (s.x + 1) % NUM_COLS,
               y   |-> (s.y + (s.x + 1) \div NUM_COLS) % NUM_ROWS]

AtEnd(s) == s.x = NUM_COLS - 1 /\ s.y = NUM_ROWS - 1

Character(s, c) == IF AtEnd(s) THEN scroll_up(s) ELSE Advance(Put(s, c))

(* tab: blanks to the next stop, unless the stop is the edge.  There is    *)
(* room on the row for them all, so they are put at once.                  *)
tab(s) ==
  LET size == IF NUM_COLS - s.x > TabStop THEN TabStop - (s.x % TabStop) ELSE 0
  IN  [mem |-> [p \in Positions |->
                  IF p - Position(s) \in 0..(size - 1) THEN Blank ELSE s.mem[p]],
       x |-> s.x + size, y |-> s.y]

putc(s, c) ==
  IF c = NEWLINE THEN Newline(s) ELSE IF c = TAB THEN tab(s) ELSE Character(s, c)

StaysOnRow(s) == [s EXCEPT !.x = IF @ = 0 THEN 0 ELSE @ - 1]
StepBack(s) ==
  IF s.y # 0 /\ s.x = 0 THEN [mem |-> s.mem, x |-> NUM_COLS - 1, y |-> s.y - 1]
  ELSE [s EXCEPT !.x = @ - 1]

backspace(s) ==
  LET p == Position(s) - 1
  IN  IF p < 0 THEN s ELSE StepBack([s EXCEPT !.mem[p] = Blank])
-----------------------------------------------------------------------------
(* The keyboard interrupt: echo, Backspace, and Alt with F1, F2 or F3.     *)
Echo ==
  /\ \/ \E c \in Chars \cup {NEWLINE, TAB} :
          SetScreen(active_terminal, putc(Screen(active_terminal), c))
     \/ SetScreen(active_terminal, backspace(Screen(active_terminal)))
  /\ UNCHANGED <<active_terminal, writer, began>>

SwitchTerminal ==
  /\ active_terminal' \in Terminals
  /\ began' = [began EXCEPT ![active_terminal'] = [p |-> @.p, behind |-> FALSE]]
  /\ UNCHANGED <<screens, writer>>

Wiped(t) == [video_mem EXCEPT ![t] = [p \in Positions |-> IF p <= Last THEN Blank ELSE @[p]]]

AllAtZero(cursor) == [t \in Terminals |-> 0]
FrontAtZero(cursor) == [cursor EXCEPT ![active_terminal] = 0]

(* clear, by Ctrl+L for the terminal in front or by the terminal's process *)
(* in vidmap: wipes the terminal's page and resets the cursor of the       *)
(* terminal in front.                                                      *)
clear(t) ==
  /\ t = active_terminal \/ writer[t].at = "idle"
  /\ video_mem' = Wiped(t)
  /\ screen_x' = FrontAtZero(screen_x)
  /\ screen_y' = FrontAtZero(screen_y)
  /\ UNCHANGED <<active_terminal, writer, began>>
-----------------------------------------------------------------------------
(* putc by terminal_write, statement by statement.                         *)
Step(t, s, at) ==
  /\ SetScreen(t, s)
  /\ writer' = [writer EXCEPT ![t] = IF at = "idle" THEN Idle ELSE [@ EXCEPT !.at = at]]
  /\ began' = [began EXCEPT ![t] = IF at = "idle" THEN Never ELSE @]
  /\ UNCHANGED active_terminal

Call(t) ==
  /\ writer[t].at = "idle"
  /\ \E c \in Chars \cup {NEWLINE, TAB} : writer' = [writer EXCEPT ![t] = [at |-> "start", c |-> c]]
  /\ began' = [began EXCEPT ![t] = [p |-> Position(Screen(t)), behind |-> t # active_terminal]]
  /\ UNCHANGED <<screens, active_terminal>>

(* The branches that end in a return, and the check for the last position. *)
Start(t) ==
  /\ writer[t].at = "start"
  /\ IF writer[t].c \in {NEWLINE, TAB} \/ AtEnd(Screen(t))
     THEN Step(t, putc(Screen(t), writer[t].c), "idle")
     ELSE Step(t, Screen(t), "put")

PutChar(t) ==
  /\ writer[t].at = "put"
  /\ Step(t, Put(Screen(t), writer[t].c), "right")

Right(t) ==
  /\ writer[t].at = "right"
  /\ Step(t, [Screen(t) EXCEPT !.x = @ + 1], "down")

DownUnbounded(t) ==
  /\ writer[t].at = "down"
  /\ Step(t, [Screen(t) EXCEPT !.y = @ + screen_x[t] \div NUM_COLS], "wrap")

Down(t) ==
  /\ writer[t].at = "down"
  /\ Step(t, [Screen(t) EXCEPT !.y = (@ + screen_x[t] \div NUM_COLS) % NUM_ROWS], "wrap")

Wrap(t) ==
  /\ writer[t].at = "wrap"
  /\ Step(t, [Screen(t) EXCEPT !.x = @ % NUM_COLS], "idle")

Next ==
  \/ Echo
  \/ SwitchTerminal
  \/ \E t \in Terminals : clear(t)
  \/ \E t \in Writers : Call(t) \/ Start(t) \/ PutChar(t) \/ Right(t) \/ Down(t) \/ Wrap(t)

Spec == Init /\ [][Next]_vars
-----------------------------------------------------------------------------
(* Types.                                                                  *)
TypeOK ==
  /\ video_mem \in [Terminals -> [Positions -> Chars \cup {Blank}]]
  /\ screen_x \in [Terminals -> 0..NUM_COLS]
  /\ screen_y \in [Terminals -> 0..(NUM_ROWS - 1)]
  /\ active_terminal \in Terminals
  /\ began \in [Terminals -> [p : 0..Last, behind : BOOLEAN]]

(* "Output a character to the console": a character that a process puts on *)
(* a terminal in the background is then where the cursor was, and the      *)
(* cursor is one position further, whatever is echoed, cleared, switched   *)
(* to and written elsewhere between the statements of its putc.            *)
Arrives ==
  [][\A t \in Terminals :
       writer[t].at = "wrap" /\ writer'[t].at = "idle" /\ began[t].behind =>
         /\ video_mem'[t][began[t].p] = writer[t].c
         /\ Position(Screen(t)') = began[t].p + 1]_vars

(* The keyboard may move the cursor between putc's check for the last      *)
(* position and its writes.  Even then no cursor passes the position after *)
(* the last: what is put there is not shown, but it is in the terminal's   *)
(* own page.                                                               *)
InsidePage == \A t \in Terminals : Position(Screen(t)) \in 0..(Last + 1)

(* Backspace undoes the echo of a character, also over the edge of a row:  *)
(* anywhere but at the last position, which scrolls.                       *)
BackspaceUndoes ==
  \A t \in Terminals : \A c \in Chars :
    LET s == Screen(t)
    IN  writer[t].at = "idle" /\ ~AtEnd(s) =>
          backspace(putc(s, c)) = [s EXCEPT !.mem[Position(s)] = Blank]

(* Output that scrolls terminal t moves its text up by one row, with a     *)
(* blank row at the bottom.                                                *)
Scrolls(t) ==
  /\ Start(t)
  /\ \/ writer[t].c = NEWLINE /\ screen_y[t] = NUM_ROWS - 1
     \/ writer[t].c \in Chars /\ AtEnd(Screen(t))
  => \A p \in 0..Last :
       video_mem'[t][p] = IF p > Last - NUM_COLS THEN Blank ELSE video_mem[t][p + NUM_COLS]

(* "scroll up one line when reached end of screen or last row and enter    *)
(* pushed": so on every terminal.                                          *)
ScrollsEach == [][\A t \in Terminals : Scrolls(t)]_vars

(* putc will "Output a character to the console": it is then before the    *)
(* cursor, on this row or at the end of the row above.                     *)
Shown ==
  \A t \in Terminals : \A c \in Chars :
    LET s == Screen(t)
        n == putc(s, c)
        p == Position(n) - 1
    IN  writer[t].at = "idle" => p >= 0 /\ n.mem[p] = c

(* "scroll up one line when reached end of screen": output never takes the *)
(* cursor from the last row to the first one.                              *)
EndScrolls ==
  [][\A t \in Terminals : writer[t].at = "down" /\ writer'[t].at = "wrap"
       => ~(screen_y[t] = NUM_ROWS - 1 /\ screen_y'[t] = 0)]_vars

(* clear takes a terminal: it leaves the cursors of the others alone.      *)
ClearsOwn ==
  [][\A t, u \in Terminals : clear(t) /\ u # t =>
       screen_x'[u] = screen_x[u] /\ screen_y'[u] = screen_y[u]]_vars
=============================================================================
