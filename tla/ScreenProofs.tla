---------------------------- MODULE ScreenProofs ----------------------------
(***************************************************************************)
(* Theorems about Screen, for every size of the screen and every number of *)
(* terminals.                                                              *)
(***************************************************************************)
EXTENDS Screen, TLAPS

(* A cursor between two calls of putc.                                     *)
OnScreen(x, y) == x \in 0..(NUM_COLS - 1) /\ y \in 0..(NUM_ROWS - 1)

(* The product in a position, row by row.                                  *)
LEMMA Rows ==
  ASSUME NEW y \in 0..(NUM_ROWS - 1)
  PROVE  /\ NUM_COLS * y \in Nat
         /\ NUM_COLS * y <= NUM_ROWS * NUM_COLS - NUM_COLS
         /\ NUM_COLS * (y + 1) = NUM_COLS * y + NUM_COLS
<1>1. NUM_COLS \in Nat /\ NUM_ROWS \in Nat /\ NUM_COLS > 0
  BY ScreenAssumption
<1>2. NUM_COLS * y \in Nat
  BY <1>1
<1>3. NUM_COLS * (y + 1) = NUM_COLS * y + NUM_COLS
  BY <1>1
<1>4. NUM_COLS * (NUM_ROWS - 1 - y) \in Nat
  BY <1>1
<1>5. NUM_COLS * (NUM_ROWS - 1 - y) = NUM_ROWS * NUM_COLS - NUM_COLS - NUM_COLS * y
  BY <1>1
<1> QED
  BY <1>1, <1>2, <1>3, <1>4, <1>5

(* A cursor on the screen points into the page.                            *)
LEMMA InPage ==
  ASSUME NEW x, NEW y, OnScreen(x, y)
  PROVE  NUM_COLS * y + x \in Positions
<1>1. NUM_COLS * y \in Nat /\ NUM_COLS * y <= NUM_ROWS * NUM_COLS - NUM_COLS
  BY Rows DEF OnScreen
<1>2. NUM_COLS \in Nat /\ NUM_ROWS * NUM_COLS \in Nat /\ x \in Nat /\ x < NUM_COLS
  BY ScreenAssumption DEF OnScreen
<1> DEFINE a == NUM_COLS * y  b == NUM_ROWS * NUM_COLS
<1> HIDE DEF a, b
<1>3. a \in Nat /\ b \in Nat /\ a <= b - NUM_COLS
  BY <1>1, <1>2 DEF a, b
<1>4. a + x \in 0..(b - 1 + NUM_COLS)
  BY <1>2, <1>3
<1> QED
  BY <1>4 DEF Positions, Last, a, b

(* Where the cursor goes after a character that does not scroll, and from  *)
(* there back with StepBack: to where it was.                              *)
LEMMA AdvanceBack ==
  ASSUME NEW x, NEW y, OnScreen(x, y), ~(x = NUM_COLS - 1 /\ y = NUM_ROWS - 1)
  PROVE  LET x1 == (x + 1) % NUM_COLS
             y1 == (y + (x + 1) \div NUM_COLS) % NUM_ROWS
         IN  \/ x < NUM_COLS - 1 /\ x1 = x + 1 /\ y1 = y
             \/ x = NUM_COLS - 1 /\ x1 = 0 /\ y1 = y + 1
<1>1. NUM_COLS \in Nat /\ NUM_ROWS \in Nat /\ NUM_COLS > 0 /\ x \in Nat /\ y \in Nat
      /\ x < NUM_COLS /\ y < NUM_ROWS
  BY ScreenAssumption DEF OnScreen
<1>2. CASE x < NUM_COLS - 1
  <2>1. (x + 1) % NUM_COLS = x + 1 /\ (x + 1) \div NUM_COLS = 0
    BY <1>1, <1>2
  <2>2. y % NUM_ROWS = y
    BY <1>1
  <2> QED
    BY <1>1, <1>2, <2>1, <2>2
<1>3. CASE x = NUM_COLS - 1
  <2>1. NUM_COLS % NUM_COLS = 0 /\ NUM_COLS \div NUM_COLS = 1
    BY <1>1
  <2>2. y + 1 < NUM_ROWS
    BY <1>1, <1>3
  <2>3. (y + 1) % NUM_ROWS = y + 1
    BY <1>1, <2>2
  <2> QED
    BY <1>1, <1>3, <2>1, <2>3
<1> QED
  BY <1>1, <1>2, <1>3
-----------------------------------------------------------------------------
(* A screen, its cursor possibly past the edge of its row as inside putc,  *)
(* and one between two calls of putc.                                      *)
Page(mem) == mem = [p \in Positions |-> mem[p]]
Bounded(s) ==
  /\ s = [mem |-> s.mem, x |-> s.x, y |-> s.y]
  /\ Page(s.mem)
  /\ s.x \in 0..NUM_COLS
  /\ s.y \in 0..(NUM_ROWS - 1)
WellFormed(s) == Bounded(s) /\ s.x < NUM_COLS

(* Backspace undoes a character that did not scroll.                       *)
LEMMA Undo ==
  ASSUME NEW s, WellFormed(s), ~AtEnd(s), NEW c
  PROVE  backspace(Character(s, c)) = [s EXCEPT !.mem[Position(s)] = Blank]
<1> DEFINE x == s.x  y == s.y  p == NUM_COLS * y + x
           x1 == (x + 1) % NUM_COLS  y1 == (y + (x + 1) \div NUM_COLS) % NUM_ROWS
           m1 == [s.mem EXCEPT ![p] = c]
           s1 == [mem |-> m1, x |-> x1, y |-> y1]
<1>1. s = [mem |-> s.mem, x |-> x, y |-> y] /\ OnScreen(x, y) /\ p \in Positions
  <2>1. s = [mem |-> s.mem, x |-> x, y |-> y] /\ OnScreen(x, y)
    BY ScreenAssumption DEF WellFormed, Bounded, OnScreen
  <2> QED
    BY <2>1, InPage
<1>2. Character(s, c) = s1
  <2>1. Put(s, c) = [mem |-> m1, x |-> x, y |-> y]
    BY <1>1 DEF Put, Position
  <2>2. Advance([mem |-> m1, x |-> x, y |-> y]) = s1
    BY DEF Advance
  <2> QED
    BY <2>1, <2>2 DEF Character
<1>3. \/ x < NUM_COLS - 1 /\ x1 = x + 1 /\ y1 = y
      \/ x = NUM_COLS - 1 /\ x1 = 0 /\ y1 = y + 1
  BY <1>1, AdvanceBack DEF AtEnd
<1>4. /\ NUM_COLS \in Nat /\ NUM_COLS > 0 /\ x \in Nat /\ y \in Nat
      /\ NUM_COLS * y \in Nat /\ NUM_COLS * (y + 1) = NUM_COLS * y + NUM_COLS
  BY <1>1, Rows, ScreenAssumption DEF OnScreen
<1>5. (NUM_COLS * y1 + x1) - 1 = p
  BY <1>3, <1>4
<1>6. p >= 0
  BY <1>4
<1>7. [m1 EXCEPT ![p] = Blank] = [s.mem EXCEPT ![p] = Blank]
  BY <1>1 DEF WellFormed, Bounded, Page
<1> DEFINE mb == [s.mem EXCEPT ![p] = Blank]
<1>8. [s1 EXCEPT !.mem[p] = Blank] = [mem |-> mb, x |-> x1, y |-> y1]
  BY <1>7
<1>9. [s EXCEPT !.mem[Position(s)] = Blank] = [mem |-> mb, x |-> x, y |-> y]
  BY <1>1 DEF Position
<1>10. backspace(s1) = StepBack([mem |-> mb, x |-> x1, y |-> y1])
  <2>1. s1.x = x1 /\ s1.y = y1
    OBVIOUS
  <2> HIDE DEF s1, mb, p, x1, y1
  <2>2. Position(s1) = NUM_COLS * y1 + x1
    BY <2>1 DEF Position
  <2>3. Position(s1) - 1 = p
    BY Zenon, <1>5, <2>2
  <2>4. ~(p < 0)
    BY <1>4, <1>6 DEF p
  <2> QED
    BY <1>8, <2>3, <2>4 DEF backspace
<1>11. StepBack([mem |-> mb, x |-> x1, y |-> y1]) = [mem |-> mb, x |-> x, y |-> y]
  <2> HIDE DEF mb, x1, y1, x, y
  <2>1. CASE x < NUM_COLS - 1
    <3>1. x1 # 0 /\ x1 - 1 = x /\ y1 = y
      BY <1>3, <1>4, <2>1
    <3> QED
      BY <3>1 DEF StepBack
  <2>2. CASE x = NUM_COLS - 1
    <3>1. x1 = 0 /\ y1 # 0 /\ y1 - 1 = y
      BY <1>3, <1>4, <2>2
    <3> QED
      BY <2>2, <3>1 DEF StepBack
  <2> QED
    BY <1>3, <2>1, <2>2
<1> QED
  BY <1>2, <1>9, <1>10, <1>11

(* putc keeps a screen bounded, and one between two calls well formed.     *)
LEMMA PutcKeeps ==
  ASSUME NEW s, Bounded(s), NEW c
  PROVE  Bounded(putc(s, c)) /\ (s.x < NUM_COLS => putc(s, c).x < NUM_COLS)
<1> DEFINE x == s.x  y == s.y
<1>0. /\ s = [mem |-> s.mem, x |-> x, y |-> y] /\ Page(s.mem)
      /\ NUM_COLS \in Nat /\ NUM_ROWS \in Nat /\ TabStop \in Nat
      /\ NUM_COLS > 0 /\ NUM_ROWS > 0 /\ TabStop > 0
      /\ x \in Nat /\ y \in Nat /\ x <= NUM_COLS /\ y < NUM_ROWS
  BY ScreenAssumption DEF Bounded
<1>1. WellFormed(scroll_up(s))
  BY <1>0 DEF WellFormed, Bounded, scroll_up, Page
<1>2. WellFormed(Newline(s))
  <2>1. CASE y = NUM_ROWS - 1
    BY <1>1, <2>1 DEF Newline
  <2>2. CASE y # NUM_ROWS - 1
    <3>1. Newline(s) = [mem |-> s.mem, x |-> 0, y |-> y + 1]
      BY <1>0, <2>2 DEF Newline
    <3> QED
      BY <1>0, <2>2, <3>1 DEF WellFormed, Bounded
  <2> QED
    BY <2>1, <2>2
<1>3. Bounded(tab(s)) /\ (x < NUM_COLS => tab(s).x < NUM_COLS)
  <2> DEFINE size == IF NUM_COLS - x > TabStop THEN TabStop - (x % TabStop) ELSE 0
             mem == [p \in Positions |->
                       IF p - (NUM_COLS * y + x) \in 0..(size - 1) THEN Blank ELSE s.mem[p]]
  <2>1. tab(s) = [mem |-> mem, x |-> x + size, y |-> y]
    BY <1>0 DEF tab, Position
  <2>2. x % TabStop \in 0..(TabStop - 1)
    BY <1>0
  <2>3. x + size \in 0..NUM_COLS /\ (x < NUM_COLS => x + size < NUM_COLS)
    BY <1>0, <2>2
  <2>4. Page(mem)
    BY DEF Page
  <2> HIDE DEF size, mem
  <2> QED
    BY <1>0, <2>1, <2>3, <2>4 DEF Bounded
<1>4. WellFormed(Character(s, c))
  <2>1. CASE AtEnd(s)
    BY <1>1, <2>1 DEF Character
  <2>2. CASE ~AtEnd(s)
    <3> DEFINE x1 == (x + 1) % NUM_COLS
               y1 == (y + (x + 1) \div NUM_COLS) % NUM_ROWS
               m1 == [s.mem EXCEPT ![NUM_COLS * y + x] = c]
    <3>1. Put(s, c) = [mem |-> m1, x |-> x, y |-> y]
      BY <1>0 DEF Put, Position
    <3>2. Advance([mem |-> m1, x |-> x, y |-> y]) = [mem |-> m1, x |-> x1, y |-> y1]
      BY DEF Advance
    <3>3. Character(s, c) = [mem |-> m1, x |-> x1, y |-> y1]
      BY <2>2, <3>1, <3>2 DEF Character
    <3>4. x1 \in 0..(NUM_COLS - 1) /\ y1 \in 0..(NUM_ROWS - 1)
      <4>1. (x + 1) \div NUM_COLS \in Nat
        BY <1>0
      <4> QED
        BY <1>0, <4>1
    <3>5. Page(m1)
      BY <1>0 DEF Page
    <3> HIDE DEF x1, y1, m1
    <3> QED
      BY <1>0, <3>3, <3>4, <3>5 DEF WellFormed, Bounded
  <2> QED
    BY <2>1, <2>2
<1> QED
  BY <1>2, <1>3, <1>4 DEF putc, WellFormed

(* So does backspace.                                                      *)
LEMMA BackspaceKeeps ==
  ASSUME NEW s, Bounded(s)
  PROVE  Bounded(backspace(s)) /\ (s.x < NUM_COLS => backspace(s).x < NUM_COLS)
<1> DEFINE x == s.x  y == s.y  p == NUM_COLS * y + x - 1  m1 == [s.mem EXCEPT ![p] = Blank]
<1>0. /\ s = [mem |-> s.mem, x |-> x, y |-> y] /\ Page(s.mem)
      /\ NUM_COLS \in Nat /\ NUM_ROWS \in Nat /\ NUM_COLS > 0
      /\ x \in Nat /\ y \in Nat /\ x <= NUM_COLS /\ y < NUM_ROWS
  BY ScreenAssumption DEF Bounded
<1>1. CASE p < 0
  <2>0. Position(s) - 1 < 0
    BY <1>0, <1>1 DEF Position
  <2>1. backspace(s) = s
    BY <2>0 DEF backspace
  <2> QED
    BY <2>1
<1>2. CASE ~(p < 0)
  <2>1. y = 0 => NUM_COLS * y = 0
    BY <1>0
  <2>2. y = 0 => x > 0
    BY <1>0, <1>2, <2>1
  <2>3. backspace(s) = StepBack([mem |-> m1, x |-> x, y |-> y])
    BY <1>0, <1>2 DEF backspace, Position
  <2>4. Page(m1)
    BY <1>0 DEF Page
  <2> HIDE DEF m1
  <2>5. CASE y # 0 /\ x = 0
    <3>1. backspace(s) = [mem |-> m1, x |-> NUM_COLS - 1, y |-> y - 1]
      BY <2>3, <2>5 DEF StepBack
    <3> QED
      BY <1>0, <2>4, <2>5, <3>1 DEF Bounded
  <2>6. CASE ~(y # 0 /\ x = 0)
    <3>1. backspace(s) = [mem |-> m1, x |-> x - 1, y |-> y]
      BY <2>3, <2>6 DEF StepBack
    <3> QED
      BY <1>0, <2>2, <2>4, <2>6, <3>1 DEF Bounded
  <2> QED
    BY <2>5, <2>6
<1> QED
  BY <1>1, <1>2
-----------------------------------------------------------------------------
(* The screens with interrupts inside putc: a cursor is past the edge of   *)
(* its row only between Right and Wrap of the terminal's writer, whatever  *)
(* the keyboard does to it meanwhile.                                      *)
BeforeRight == {"idle", "start", "put", "right"}

CursorOK(t) ==
  /\ Bounded(Screen(t))
  /\ writer[t].at \in BeforeRight => screen_x[t] < NUM_COLS
  /\ writer[t] = [at |-> writer[t].at, c |-> writer[t].c]
  /\ began[t] = [p |-> began[t].p, behind |-> began[t].behind]

CursorInv ==
  /\ video_mem = [t \in Terminals |-> video_mem[t]]
  /\ screen_x = [t \in Terminals |-> screen_x[t]]
  /\ screen_y = [t \in Terminals |-> screen_y[t]]
  /\ writer = [t \in Terminals |-> writer[t]]
  /\ began = [t \in Terminals |-> began[t]]
  /\ active_terminal \in Terminals
  /\ \A t \in Terminals : CursorOK(t)

(* What SetScreen does to the screens.                                     *)
LEMMA SetOne ==
  ASSUME CursorInv, NEW t \in Terminals, NEW s, SetScreen(t, s)
  PROVE  /\ video_mem'[t] = s.mem /\ screen_x'[t] = s.x /\ screen_y'[t] = s.y
         /\ \A u \in Terminals \ {t} : /\ video_mem'[u] = video_mem[u]
                                       /\ screen_x'[u] = screen_x[u]
                                       /\ screen_y'[u] = screen_y[u]
         /\ video_mem' = [u \in Terminals |-> video_mem'[u]]
         /\ screen_x' = [u \in Terminals |-> screen_x'[u]]
         /\ screen_y' = [u \in Terminals |-> screen_y'[u]]
<1>1. /\ video_mem' = [u \in Terminals |-> IF u = t THEN s.mem ELSE video_mem[u]]
      /\ screen_x' = [u \in Terminals |-> IF u = t THEN s.x ELSE screen_x[u]]
      /\ screen_y' = [u \in Terminals |-> IF u = t THEN s.y ELSE screen_y[u]]
  BY DEF CursorInv, SetScreen
<1> QED
  BY <1>1

(* What a step of putc does to its own terminal, and to the others.        *)
LEMMA StepScreen ==
  ASSUME CursorInv, NEW t \in Terminals, NEW s, NEW at, Step(t, s, at)
  PROVE  video_mem'[t] = s.mem /\ screen_x'[t] = s.x /\ screen_y'[t] = s.y
  BY SetOne DEF Step

(* Its place in putc and the history, when it is not the last one.         *)
LEMMA StepWriter ==
  ASSUME CursorInv, NEW t \in Terminals, NEW s, NEW at, Step(t, s, at), at # "idle"
  PROVE  /\ writer'[t] = [at |-> at, c |-> writer[t].c]
         /\ began'[t] = began[t]
  BY DEF Step, CursorInv, CursorOK

(* When it is the last one.                                                *)
LEMMA StepLast ==
  ASSUME CursorInv, NEW t \in Terminals, NEW s, Step(t, s, "idle")
  PROVE  writer'[t] = Idle /\ began'[t] = Never
  BY DEF Step, CursorInv, CursorOK

(* The other terminals, which it leaves alone.                             *)
LEMMA StepOthers ==
  ASSUME CursorInv, NEW t \in Terminals, NEW s, NEW at, Step(t, s, at),
         NEW u \in Terminals \ {t}
  PROVE  /\ video_mem'[u] = video_mem[u] /\ screen_x'[u] = screen_x[u]
         /\ screen_y'[u] = screen_y[u] /\ writer'[u] = writer[u] /\ began'[u] = began[u]
<1>1. writer'[u] = writer[u] /\ began'[u] = began[u]
  BY DEF Step, CursorInv
<1> QED
  BY <1>1, SetOne DEF Step

(* The variables stay functions on the terminals.                          *)
LEMMA StepShape ==
  ASSUME CursorInv, NEW t \in Terminals, NEW s, NEW at, Step(t, s, at)
  PROVE  /\ video_mem' = [u \in Terminals |-> video_mem'[u]]
         /\ screen_x' = [u \in Terminals |-> screen_x'[u]]
         /\ screen_y' = [u \in Terminals |-> screen_y'[u]]
         /\ writer' = [u \in Terminals |-> writer'[u]]
         /\ began' = [u \in Terminals |-> began'[u]]
<1>1. writer' = [u \in Terminals |-> writer'[u]] /\ began' = [u \in Terminals |-> began'[u]]
  BY DEF Step, CursorInv
<1> QED
  BY <1>1, SetOne DEF Step

(* The same for a screen given by its parts.                               *)
LEMMA StepTo ==
  ASSUME CursorInv, NEW t \in Terminals, NEW m, NEW x, NEW y, NEW at, at # "idle",
         Step(t, [mem |-> m, x |-> x, y |-> y], at)
  PROVE  /\ video_mem'[t] = m /\ screen_x'[t] = x /\ screen_y'[t] = y
         /\ writer'[t].at = at /\ writer'[t].c = writer[t].c /\ began'[t] = began[t]
<1> DEFINE s == [mem |-> m, x |-> x, y |-> y]
<1>1. s.mem = m /\ s.x = x /\ s.y = y
  OBVIOUS
<1>2. Step(t, s, at)
  OBVIOUS
<1> HIDE DEF s
<1>3. video_mem'[t] = s.mem /\ screen_x'[t] = s.x /\ screen_y'[t] = s.y
  BY Zenon, <1>2, StepScreen
<1>4. writer'[t] = [at |-> at, c |-> writer[t].c] /\ began'[t] = began[t]
  BY Zenon, <1>2, StepWriter
<1> QED
  BY <1>1, <1>3, <1>4

(* Echo writes what a call of putc or backspace leaves.                    *)
LEMMA EchoKeeps == ASSUME CursorInv, Echo PROVE CursorInv'
<1>0. PICK a : a = active_terminal
  OBVIOUS
<1>1. a \in Terminals /\ Bounded(Screen(a)) /\ Screen(a).x = screen_x[a]
  BY <1>0 DEF CursorInv, CursorOK, Screen
<1>2. PICK s : /\ Bounded(s) /\ (screen_x[a] < NUM_COLS => s.x < NUM_COLS)
               /\ SetScreen(a, s)
  BY <1>0, <1>1, PutcKeeps, BackspaceKeeps DEF Echo
<1>3. UNCHANGED <<active_terminal, writer, began>>
  BY DEF Echo
<1>4. ASSUME NEW u \in Terminals PROVE CursorOK(u)'
  <2>1. CASE u = a
    <3>1. s = [mem |-> s.mem, x |-> s.x, y |-> s.y]
      BY <1>2 DEF Bounded
    <3>2. Screen(a)' = s
      BY <1>1, <1>2, <3>1, SetOne DEF Screen
    <3>3. Bounded(Screen(u))'
      BY <1>2, <2>1, <3>2 DEF Bounded
    <3> QED
      BY <1>1, <1>2, <1>3, <2>1, <3>3, SetOne DEF CursorInv, CursorOK
  <2>2. CASE u # a
    BY <1>1, <1>2, <1>3, <2>2, SetOne DEF CursorInv, CursorOK, Bounded, Screen
  <2> QED
    BY <2>1, <2>2
<1> QED
  BY <1>1, <1>2, <1>3, <1>4, SetOne DEF CursorInv

(* clear puts the cursor of the terminal in front in the corner.           *)
LEMMA ClearKeeps == ASSUME CursorInv, NEW t \in Terminals, clear(t) PROVE CursorInv'
<1>1. /\ video_mem' = [u \in Terminals |->
           IF u = t THEN [p \in Positions |-> IF p <= Last THEN Blank ELSE video_mem[u][p]]
           ELSE video_mem[u]]
      /\ screen_x' = [u \in Terminals |-> IF u = active_terminal THEN 0 ELSE screen_x[u]]
      /\ screen_y' = [u \in Terminals |-> IF u = active_terminal THEN 0 ELSE screen_y[u]]
      /\ UNCHANGED <<active_terminal, writer, began>>
  BY DEF CursorInv, clear, Wiped, FrontAtZero
<1>2. ASSUME NEW u \in Terminals PROVE CursorOK(u)'
  <2>1. Page(video_mem[u]) /\ screen_x[u] \in 0..NUM_COLS /\ screen_y[u] \in 0..(NUM_ROWS - 1)
    BY DEF CursorInv, CursorOK, Bounded, Screen
  <2>2. Page(video_mem'[u])
    BY <1>1, <2>1 DEF Page
  <2>3. screen_x'[u] \in 0..NUM_COLS /\ screen_y'[u] \in 0..(NUM_ROWS - 1)
        /\ (screen_x[u] < NUM_COLS => screen_x'[u] < NUM_COLS)
    BY <1>1, <2>1, ScreenAssumption
  <2>4. Bounded(Screen(u))'
    BY <2>2, <2>3 DEF Bounded, Screen
  <2> QED
    BY <1>1, <2>3, <2>4 DEF CursorInv, CursorOK
<1> QED
  BY <1>1, <1>2 DEF CursorInv

(* A step of a writer that leaves its screen as it has to.                 *)
LEMMA StepKeeps ==
  ASSUME CursorInv, NEW t \in Terminals, NEW s, NEW at, Step(t, s, at),
         Bounded(s), at \in BeforeRight => s.x < NUM_COLS
  PROVE  CursorInv'
<1>1. ASSUME NEW u \in Terminals PROVE CursorOK(u)'
  <2>1. CASE u = t
    <3>1. s = [mem |-> s.mem, x |-> s.x, y |-> s.y]
      BY DEF Bounded
    <3>2. Screen(t)' = s
      BY <3>1, StepScreen DEF Screen
    <3>3. Bounded(Screen(t))'
      BY <3>2 DEF Bounded
    <3>4. began'[t] = [p |-> began'[t].p, behind |-> began'[t].behind]
      <4>1. began'[t] = Never \/ began'[t] = began[t]
        BY Zenon, StepWriter, StepLast
      <4>2. Never = [p |-> Never.p, behind |-> Never.behind]
        BY DEF Never
      <4>3. began[t] = [p |-> began[t].p, behind |-> began[t].behind]
        BY DEF CursorInv, CursorOK
      <4> QED
        BY Zenon, <4>1, <4>2, <4>3
    <3>5. writer'[t] = [at |-> at, c |-> writer'[t].c] /\ writer'[t].at = at
      <4>1. CASE at = "idle"
        <5>1. writer'[t] = Idle
          BY Zenon, <4>1, StepLast
        <5> QED
          BY <4>1, <5>1 DEF Idle
      <4>2. CASE at # "idle"
        <5>1. writer'[t] = [at |-> at, c |-> writer[t].c]
          BY Zenon, <4>2, StepWriter
        <5> QED
          BY <5>1
      <4> QED
        BY <4>1, <4>2
    <3>6. screen_x'[t] = s.x
      BY Zenon, StepScreen
    <3> QED
      BY <2>1, <3>3, <3>4, <3>5, <3>6 DEF CursorOK
  <2>2. CASE u # t
    BY <2>2, StepOthers DEF CursorInv, CursorOK, Bounded, Screen
  <2> QED
    BY <2>1, <2>2
<1> QED
  BY <1>1, StepShape DEF CursorInv, Step

(* What Call does.                                                         *)
LEMMA CallOne ==
  ASSUME CursorInv, NEW t \in Terminals, Call(t)
  PROVE  /\ UNCHANGED <<screens, active_terminal>>
         /\ writer[t].at = "idle"
         /\ \E c : writer' = [u \in Terminals |->
                                IF u = t THEN [at |-> "start", c |-> c] ELSE writer[u]]
         /\ began' = [u \in Terminals |->
              IF u = t THEN [p |-> Position(Screen(t)), behind |-> t # active_terminal]
              ELSE began[u]]
<1>1. PICK c : writer' = [writer EXCEPT ![t] = [at |-> "start", c |-> c]]
  BY DEF Call
<1>2. writer' = [u \in Terminals |-> IF u = t THEN [at |-> "start", c |-> c] ELSE writer[u]]
  BY <1>1 DEF CursorInv
<1> QED
  BY <1>2 DEF Call, CursorInv

(* The steps of putc keep it.                                              *)
LEMMA WriterKeeps ==
  ASSUME CursorInv, NEW t \in Terminals,
         Call(t) \/ Start(t) \/ PutChar(t) \/ Right(t) \/ Down(t) \/ Wrap(t)
  PROVE  CursorInv'
<1> DEFINE m == video_mem[t]  x == screen_x[t]  y == screen_y[t]
<1>0. /\ NUM_COLS \in Nat /\ NUM_COLS > 0 /\ NUM_ROWS \in Nat /\ NUM_ROWS > 0
      /\ Page(m) /\ x \in 0..NUM_COLS /\ y \in 0..(NUM_ROWS - 1)
      /\ writer[t].at \in BeforeRight => x < NUM_COLS
      /\ Screen(t) = [mem |-> m, x |-> x, y |-> y]
  BY ScreenAssumption DEF CursorInv, CursorOK, Bounded, Screen
<1>1. CASE Call(t)
  <2>1. PICK c : writer' = [u \in Terminals |->
                              IF u = t THEN [at |-> "start", c |-> c] ELSE writer[u]]
    BY <1>1, CallOne
  <2>2. ASSUME NEW u \in Terminals PROVE CursorOK(u)'
    <3>1. Bounded(Screen(u))' /\ screen_x'[u] = screen_x[u]
      BY <1>1, CallOne DEF CursorInv, CursorOK, Bounded, Screen, screens
    <3>2. /\ writer'[u] = [at |-> writer'[u].at, c |-> writer'[u].c]
          /\ writer'[u].at \in BeforeRight => writer[u].at \in BeforeRight
      BY <1>1, <2>1, CallOne DEF CursorInv, CursorOK, BeforeRight
    <3>3. began'[u] = [p |-> began'[u].p, behind |-> began'[u].behind]
      BY <1>1, CallOne DEF CursorInv, CursorOK
    <3> QED
      BY <3>1, <3>2, <3>3 DEF CursorInv, CursorOK
  <2> QED
    BY <1>1, <2>1, <2>2, CallOne DEF CursorInv, screens
<1>2. CASE Start(t)
  <2>1. screen_x[t] < NUM_COLS /\ Bounded(Screen(t)) /\ Screen(t).x = screen_x[t]
    BY <1>2 DEF Start, BeforeRight, CursorInv, CursorOK, Screen
  <2>2. PICK s, at : Step(t, s, at) /\ Bounded(s) /\ s.x < NUM_COLS
    BY <1>2, <2>1, PutcKeeps DEF Start
  <2> QED
    BY <2>2, StepKeeps
<1>3. CASE PutChar(t)
  <2> DEFINE m1 == [m EXCEPT ![NUM_COLS * y + x] = writer[t].c]
  <2>1. Put(Screen(t), writer[t].c) = [mem |-> m1, x |-> x, y |-> y]
    BY <1>0 DEF Put, Position
  <2>2. Step(t, [mem |-> m1, x |-> x, y |-> y], "right")
    BY <1>3, <2>1 DEF PutChar
  <2>3. Page(m1)
    BY <1>0 DEF Page
  <2>4. x < NUM_COLS
    BY <1>0, <1>3 DEF PutChar, BeforeRight
  <2> HIDE DEF m1
  <2>5. Bounded([mem |-> m1, x |-> x, y |-> y])
    BY <1>0, <2>3 DEF Bounded
  <2> QED
    BY <2>2, <2>4, <2>5, StepKeeps
<1>4. CASE Right(t)
  <2>1. [Screen(t) EXCEPT !.x = @ + 1] = [mem |-> m, x |-> x + 1, y |-> y]
    BY <1>0
  <2>2. Step(t, [mem |-> m, x |-> x + 1, y |-> y], "down")
    BY <1>4, <2>1 DEF Right
  <2>3. x + 1 \in 0..NUM_COLS
    BY <1>0, <1>4 DEF Right, BeforeRight
  <2>4. Bounded([mem |-> m, x |-> x + 1, y |-> y])
    BY <1>0, <2>3 DEF Bounded
  <2> QED
    BY <2>2, <2>4, StepKeeps DEF BeforeRight
<1>5. CASE Down(t)
  <2> DEFINE y1 == (y + x \div NUM_COLS) % NUM_ROWS
  <2>1. [Screen(t) EXCEPT !.y = (@ + screen_x[t] \div NUM_COLS) % NUM_ROWS] = [mem |-> m, x |-> x, y |-> y1]
    BY <1>0
  <2>2. Step(t, [mem |-> m, x |-> x, y |-> y1], "wrap")
    BY <1>5, <2>1 DEF Down
  <2>3. x \div NUM_COLS \in Nat
    BY <1>0
  <2>4. y1 \in 0..(NUM_ROWS - 1)
    BY <1>0, <2>3
  <2> HIDE DEF y1
  <2>5. Bounded([mem |-> m, x |-> x, y |-> y1])
    BY <1>0, <2>4 DEF Bounded
  <2> QED
    BY <2>2, <2>5, StepKeeps DEF BeforeRight
<1>6. CASE Wrap(t)
  <2> DEFINE x1 == x % NUM_COLS
  <2>1. [Screen(t) EXCEPT !.x = @ % NUM_COLS] = [mem |-> m, x |-> x1, y |-> y]
    BY <1>0
  <2>2. Step(t, [mem |-> m, x |-> x1, y |-> y], "idle")
    BY <1>6, <2>1 DEF Wrap
  <2>3. x1 \in 0..NUM_COLS /\ x1 < NUM_COLS
    BY <1>0
  <2> HIDE DEF x1
  <2>4. Bounded([mem |-> m, x |-> x1, y |-> y])
    BY <1>0, <2>3 DEF Bounded
  <2> QED
    BY <2>2, <2>3, <2>4, StepKeeps
<1> QED
  BY <1>1, <1>2, <1>3, <1>4, <1>5, <1>6

(* Init establishes it.                                                    *)
LEMMA CursorInit == Init => CursorInv
  BY ScreenAssumption
     DEF Init, CursorInv, CursorOK, Bounded, Screen, Page, Terminals, Idle, Never

(* What SwitchTerminal does.                                               *)
LEMMA SwitchOne ==
  ASSUME CursorInv, SwitchTerminal
  PROVE  /\ UNCHANGED <<screens, writer>>
         /\ active_terminal' \in Terminals
         /\ began' = [u \in Terminals |->
              IF u = active_terminal' THEN [p |-> began[u].p, behind |-> FALSE] ELSE began[u]]
  BY DEF SwitchTerminal, CursorInv

(* Every step keeps it.                                                    *)
LEMMA CursorNext == CursorInv /\ [Next]_vars => CursorInv'
<1> SUFFICES ASSUME CursorInv, [Next]_vars PROVE CursorInv'
  OBVIOUS
<1>1. CASE SwitchTerminal
  <2>1. ASSUME NEW u \in Terminals PROVE CursorOK(u)'
    <3>1. began'[u] = [p |-> began'[u].p, behind |-> began'[u].behind]
      BY <1>1, SwitchOne DEF CursorInv, CursorOK
    <3> QED
      BY <1>1, <3>1, SwitchOne DEF CursorInv, CursorOK, Bounded, Screen, screens
  <2> QED
    BY <1>1, <2>1, SwitchOne DEF CursorInv, screens
<1>2. CASE UNCHANGED vars
  BY <1>2 DEF vars, screens, CursorInv, CursorOK, Bounded, Screen
<1>3. ASSUME NEW t \in Writers,
             Call(t) \/ Start(t) \/ PutChar(t) \/ Right(t) \/ Down(t) \/ Wrap(t)
      PROVE  CursorInv'
  BY <1>3, WriterKeeps, ScreenAssumption
<1> QED
  BY <1>1, <1>2, <1>3, EchoKeeps, ClearKeeps DEF Next

(* With interrupts inside putc, no cursor of a screen of any size passes   *)
(* the position after the last one.                                        *)
THEOREM InsidePageAlways == Spec => []InsidePage
<1>1. CursorInv => InsidePage
  <2> SUFFICES ASSUME CursorInv, NEW t \in Terminals
               PROVE  Position(Screen(t)) \in 0..(Last + 1)
    BY DEF InsidePage
  <2> DEFINE a == NUM_COLS * screen_y[t]  b == NUM_ROWS * NUM_COLS
  <2>1. /\ screen_x[t] \in 0..NUM_COLS /\ screen_y[t] \in 0..(NUM_ROWS - 1)
        /\ Position(Screen(t)) = a + screen_x[t]
    BY DEF CursorInv, CursorOK, Bounded, Screen, Position
  <2>2. a \in Nat /\ a <= b - NUM_COLS
    BY <2>1, Rows
  <2>3. b \in Nat /\ NUM_COLS \in Nat
    BY ScreenAssumption
  <2> HIDE DEF a, b
  <2>4. a + screen_x[t] \in 0..b
    BY <2>1, <2>2, <2>3
  <2>5. Last + 1 = b
    BY <2>3 DEF Last, b
  <2> QED
    BY <2>1, <2>4, <2>5
<1> QED
  BY <1>1, CursorInit, CursorNext, PTL DEF Spec

(* Backspace undoes the echo of a character, also over the edge of a row:  *)
(* on a screen of any size, anywhere but at the last position, after any   *)
(* interleaving.                                                           *)
THEOREM BackspaceUndoesAlways == Spec => []BackspaceUndoes
<1>1. CursorInv => BackspaceUndoes
  <2> SUFFICES ASSUME CursorInv, NEW t \in Terminals, NEW c \in Chars,
                      writer[t].at = "idle", ~AtEnd(Screen(t))
               PROVE  backspace(putc(Screen(t), c)) =
                        [Screen(t) EXCEPT !.mem[Position(Screen(t))] = Blank]
    BY Zenon DEF BackspaceUndoes
  <2>1. putc(Screen(t), c) = Character(Screen(t), c)
    BY ScreenAssumption DEF putc
  <2>2. WellFormed(Screen(t))
    BY DEF CursorInv, CursorOK, WellFormed, Screen, BeforeRight
  <2> QED
    BY <2>1, <2>2, Undo
<1> QED
  BY <1>1, CursorInit, CursorNext, PTL DEF Spec
-----------------------------------------------------------------------------
(* What has become of a character whose terminal was in the background     *)
(* since its putc began at position p: nothing but the putc's own steps.   *)
Written(t) == video_mem[t][began[t].p] = writer[t].c

OnItsWay(t) ==
  LET x == screen_x[t]
      y == screen_y[t]
      p == began[t].p
  IN  /\ p \in Positions
      /\ \/ writer[t].at = "start" /\ NUM_COLS * y + x = p
         \/ writer[t].at = "put"   /\ NUM_COLS * y + x = p /\ ~AtEnd(Screen(t))
         \/ writer[t].at = "right" /\ NUM_COLS * y + x = p /\ ~AtEnd(Screen(t)) /\ Written(t)
         \/ writer[t].at = "down"  /\ NUM_COLS * y + x = p + 1 /\ Written(t)
                                   /\ ~(x = NUM_COLS /\ y = NUM_ROWS - 1)
         \/ writer[t].at = "wrap"  /\ NUM_COLS * y + (x % NUM_COLS) = p + 1 /\ Written(t)

Underway == \A t \in Terminals : began[t].behind => t # active_terminal /\ OnItsWay(t)

(* A terminal that a step leaves alone.                                    *)
LEMMA Untouched ==
  ASSUME NEW t \in Terminals, OnItsWay(t),
         video_mem'[t] = video_mem[t], screen_x'[t] = screen_x[t], screen_y'[t] = screen_y[t],
         writer'[t] = writer[t], began'[t].p = began[t].p
  PROVE  OnItsWay(t)'
  BY DEF OnItsWay, Written, AtEnd, Screen

(* putc begins behind the terminal in front.                               *)
LEMMA CallOnItsWay ==
  ASSUME CursorInv, Underway, NEW t \in Terminals, Call(t)
  PROVE  Underway'
<1>1. PICK c : writer' = [u \in Terminals |->
                            IF u = t THEN [at |-> "start", c |-> c] ELSE writer[u]]
  BY CallOne
<1>2. ASSUME NEW u \in Terminals, began'[u].behind
      PROVE  u # active_terminal' /\ OnItsWay(u)'
  <2>1. CASE u = t
    <3>0. began'[t] = [p |-> Position(Screen(t)), behind |-> t # active_terminal]
      BY CallOne
    <3>1. /\ writer'[t].at = "start" /\ began'[t].p = NUM_COLS * screen_y[t] + screen_x[t]
          /\ t # active_terminal
      <4>1. writer'[t].at = "start" /\ began'[t].p = NUM_COLS * screen_y[t] + screen_x[t]
        BY <1>1, <3>0 DEF Position, Screen
      <4>2. began'[t].behind = (t # active_terminal)
        BY <3>0
      <4> QED
        BY Zenon, <1>2, <2>1, <4>1, <4>2
    <3>2. OnScreen(screen_x[t], screen_y[t])
      <4>1. writer[t].at \in BeforeRight
        BY CallOne DEF BeforeRight
      <4>2. /\ screen_x[t] < NUM_COLS /\ screen_x[t] \in 0..NUM_COLS
            /\ screen_y[t] \in 0..(NUM_ROWS - 1)
        BY <4>1 DEF CursorInv, CursorOK, Bounded, Screen
      <4> QED
        BY <4>2, ScreenAssumption DEF OnScreen
    <3>3. began'[t].p \in Positions
      BY <3>1, <3>2, InPage
    <3> QED
      BY <2>1, <3>1, <3>3, CallOne DEF OnItsWay, screens
  <2>2. CASE u # t
    BY <1>1, <1>2, <2>2, CallOne, Untouched DEF Underway, screens
  <2> QED
    BY <2>1, <2>2
<1> QED
  BY <1>2 DEF Underway

(* A step of a putc keeps the others where they are.                       *)
LEMMA StepOnItsWay ==
  ASSUME CursorInv, Underway, NEW t \in Terminals, NEW s, NEW at, Step(t, s, at),
         began[t].behind /\ at # "idle" => OnItsWay(t)'
  PROVE  Underway'
<1>1. ASSUME NEW u \in Terminals, began'[u].behind
      PROVE  u # active_terminal' /\ OnItsWay(u)'
  <2>1. CASE u = t
    <3>1. at # "idle"
      <4>1. at = "idle" => began'[t] = Never
        BY Zenon, StepLast
      <4>2. Never.behind = FALSE
        BY DEF Never
      <4> QED
        BY Zenon, <1>1, <2>1, <4>1, <4>2
    <3>2. began'[t] = began[t] /\ active_terminal' = active_terminal
      <4>1. began'[t] = began[t]
        BY Zenon, <3>1, StepWriter
      <4> QED
        BY <4>1 DEF Step
    <3> QED
      BY Zenon, <1>1, <2>1, <3>1, <3>2 DEF Underway
  <2>2. CASE u # t
    <3>1. /\ video_mem'[u] = video_mem[u] /\ screen_x'[u] = screen_x[u]
          /\ screen_y'[u] = screen_y[u] /\ writer'[u] = writer[u] /\ began'[u] = began[u]
      BY Zenon, <2>2, StepOthers
    <3>2. active_terminal' = active_terminal
      BY DEF Step
    <3>3. u # active_terminal /\ OnItsWay(u)
      BY Zenon, <1>1, <3>1 DEF Underway
    <3> QED
      BY <3>1, <3>2, <3>3, Untouched
  <2> QED
    BY <2>1, <2>2
<1> QED
  BY <1>1 DEF Underway

(* The steps of putc take the character one statement further.             *)
LEMMA WriterOnItsWay ==
  ASSUME CursorInv, Underway, NEW t \in Terminals,
         Start(t) \/ PutChar(t) \/ Right(t) \/ Down(t) \/ Wrap(t)
  PROVE  Underway'
<1> DEFINE m == video_mem[t]  x == screen_x[t]  y == screen_y[t]  p == began[t].p
<1>0. /\ NUM_COLS \in Nat /\ NUM_COLS > 0 /\ NUM_ROWS \in Nat /\ NUM_ROWS > 0
      /\ Page(m) /\ x \in 0..NUM_COLS /\ y \in 0..(NUM_ROWS - 1)
      /\ Screen(t) = [mem |-> m, x |-> x, y |-> y]
  BY ScreenAssumption DEF CursorInv, CursorOK, Bounded, Screen
<1>1. began[t].behind => OnItsWay(t)
  BY DEF Underway
<1>2. CASE Start(t)
  <2>1. CASE writer[t].c \in {NEWLINE, TAB} \/ AtEnd(Screen(t))
    BY <1>2, <2>1, StepOnItsWay DEF Start
  <2>2. CASE ~(writer[t].c \in {NEWLINE, TAB} \/ AtEnd(Screen(t)))
    <3>1. Step(t, Screen(t), "put") /\ writer[t].at = "start"
      BY <1>2, <2>2 DEF Start
    <3>2. /\ video_mem'[t] = m /\ screen_x'[t] = x /\ screen_y'[t] = y
          /\ writer'[t].at = "put" /\ began'[t] = began[t]
      BY <1>0, <3>1, StepTo
    <3>3. ASSUME began[t].behind PROVE OnItsWay(t)'
      BY <1>1, <2>2, <3>1, <3>2, <3>3 DEF OnItsWay, AtEnd, Screen
    <3> QED
      BY <3>1, <3>3, StepOnItsWay
  <2> QED
    BY <2>1, <2>2
<1>3. CASE PutChar(t)
  <2> DEFINE m1 == [m EXCEPT ![NUM_COLS * y + x] = writer[t].c]
  <2>1. Step(t, Put(Screen(t), writer[t].c), "right") /\ writer[t].at = "put"
    BY <1>3 DEF PutChar
  <2>2. Put(Screen(t), writer[t].c) = [mem |-> m1, x |-> x, y |-> y]
    BY <1>0 DEF Put, Position
  <2>3. /\ video_mem'[t] = m1 /\ screen_x'[t] = x /\ screen_y'[t] = y
        /\ writer'[t].at = "right" /\ writer'[t].c = writer[t].c /\ began'[t] = began[t]
    BY <2>1, <2>2, StepTo
  <2>4. ASSUME began[t].behind PROVE OnItsWay(t)'
    <3>1. p \in Positions /\ NUM_COLS * y + x = p /\ ~AtEnd(Screen(t))
      BY <1>1, <2>1, <2>4 DEF OnItsWay
    <3>2. m1[p] = writer[t].c
      BY <1>0, <3>1 DEF Page
    <3> QED
      BY <2>3, <3>1, <3>2 DEF OnItsWay, Written, AtEnd, Screen
  <2> QED
    BY <2>1, <2>4, StepOnItsWay
<1>4. CASE Right(t)
  <2>1. Step(t, [Screen(t) EXCEPT !.x = @ + 1], "down") /\ writer[t].at = "right"
    BY <1>4 DEF Right
  <2>2. /\ video_mem'[t] = m /\ screen_x'[t] = x + 1 /\ screen_y'[t] = y
        /\ writer'[t].at = "down" /\ writer'[t].c = writer[t].c /\ began'[t] = began[t]
    <3>1. [Screen(t) EXCEPT !.x = @ + 1] = [mem |-> m, x |-> x + 1, y |-> y]
      BY <1>0
    <3> QED
      BY <2>1, <3>1, StepTo
  <2>3. ASSUME began[t].behind PROVE OnItsWay(t)'
    <3>1. p \in Positions /\ NUM_COLS * y + x = p /\ ~(x = NUM_COLS - 1 /\ y = NUM_ROWS - 1)
          /\ Written(t)
      BY <1>1, <2>1, <2>3 DEF OnItsWay, AtEnd, Screen
    <3>2. NUM_COLS * y \in Nat
      BY <1>0
    <3>3. NUM_COLS * y + (x + 1) = p + 1 /\ ~(x + 1 = NUM_COLS /\ y = NUM_ROWS - 1)
      BY <1>0, <3>1, <3>2
    <3> QED
      BY <2>2, <3>1, <3>3 DEF OnItsWay, Written
  <2> QED
    BY <2>1, <2>3, StepOnItsWay
<1>5. CASE Down(t)
  <2> DEFINE y1 == (y + x \div NUM_COLS) % NUM_ROWS
  <2>1. Step(t, [Screen(t) EXCEPT !.y = (@ + screen_x[t] \div NUM_COLS) % NUM_ROWS], "wrap")
        /\ writer[t].at = "down"
    BY <1>5 DEF Down
  <2>2. /\ video_mem'[t] = m /\ screen_x'[t] = x /\ screen_y'[t] = y1
        /\ writer'[t].at = "wrap" /\ writer'[t].c = writer[t].c /\ began'[t] = began[t]
    <3>1. [Screen(t) EXCEPT !.y = (@ + screen_x[t] \div NUM_COLS) % NUM_ROWS] =
            [mem |-> m, x |-> x, y |-> y1]
      BY <1>0
    <3> HIDE DEF y1
    <3> QED
      BY <2>1, <3>1, StepTo
  <2>3. ASSUME began[t].behind PROVE OnItsWay(t)'
    <3>1. p \in Positions /\ NUM_COLS * y + x = p + 1 /\ ~(x = NUM_COLS /\ y = NUM_ROWS - 1)
          /\ Written(t)
      BY <1>1, <2>1, <2>3 DEF OnItsWay
    <3>2. NUM_COLS * y1 + (x % NUM_COLS) = p + 1
      <4>1. CASE x < NUM_COLS
        <5>1. x \div NUM_COLS = 0 /\ x % NUM_COLS = x
          BY <1>0, <4>1
        <5>2. y1 = y
          BY <1>0, <5>1
        <5> QED
          BY <3>1, <5>1, <5>2
      <4>2. CASE x = NUM_COLS
        <5>1. x \div NUM_COLS = 1 /\ x % NUM_COLS = 0
          BY <1>0, <4>2
        <5>2. y + 1 < NUM_ROWS
          BY <1>0, <3>1, <4>2
        <5>3. y1 = y + 1
          BY <1>0, <5>1, <5>2
        <5>4. NUM_COLS * (y + 1) = NUM_COLS * y + NUM_COLS
          BY <1>0, Rows
        <5> HIDE DEF y1
        <5>5. NUM_COLS * y1 = p + 1
          BY <3>1, <4>2, <5>3, <5>4
        <5>6. p + 1 \in Int
          BY <3>1, <1>0 DEF Positions, Last
        <5>7. NUM_COLS * y1 + 0 = p + 1
          BY <5>5, <5>6
        <5> HIDE DEF x, p
        <5> QED
          BY Zenon, <5>1, <5>7
      <4>3. x < NUM_COLS \/ x = NUM_COLS
        BY <1>0
      <4> QED
        BY Zenon, <4>1, <4>2, <4>3
    <3> HIDE DEF y1
    <3> QED
      BY <2>2, <3>1, <3>2 DEF OnItsWay, Written
  <2> QED
    BY <2>1, <2>3, StepOnItsWay
<1>6. CASE Wrap(t)
  BY <1>6, StepOnItsWay DEF Wrap
<1> QED
  BY <1>2, <1>3, <1>4, <1>5, <1>6

(* The keyboard touches only the terminal in front, and clear only that    *)
(* one's cursor and a terminal with no putc under way.                     *)
LEMMA KeyboardOnItsWay ==
  ASSUME CursorInv, Underway,
         Echo \/ SwitchTerminal \/ \E t \in Terminals : clear(t)
  PROVE  Underway'
<1> SUFFICES ASSUME NEW u \in Terminals, began'[u].behind
             PROVE  u # active_terminal' /\ OnItsWay(u)'
  BY DEF Underway
<1>1. CASE Echo
  <2>1. PICK s : SetScreen(active_terminal, s)
    BY <1>1 DEF Echo
  <2>2. u # active_terminal /\ OnItsWay(u)
    BY <1>1 DEF Echo, Underway
  <2>3. video_mem'[u] = video_mem[u] /\ screen_x'[u] = screen_x[u] /\ screen_y'[u] = screen_y[u]
    BY <2>1, <2>2, SetOne DEF CursorInv
  <2> QED
    BY <1>1, <2>2, <2>3, Untouched DEF Echo
<1>2. CASE SwitchTerminal
  <2>1. u # active_terminal' /\ began'[u] = began[u]
    BY <1>2, SwitchOne
  <2> QED
    BY <1>2, <2>1, SwitchOne, Untouched DEF Underway, screens
<1>3. ASSUME NEW t \in Terminals, clear(t) PROVE u # active_terminal' /\ OnItsWay(u)'
  <2>1. UNCHANGED <<active_terminal, writer, began>>
    BY <1>3 DEF clear
  <2>2. u # active_terminal /\ OnItsWay(u)
    BY <2>1 DEF Underway
  <2>3. u # t
    BY <1>3, <2>2 DEF clear, OnItsWay
  <2>4. video_mem'[u] = video_mem[u] /\ screen_x'[u] = screen_x[u] /\ screen_y'[u] = screen_y[u]
    BY <1>3, <2>2, <2>3 DEF clear, Wiped, FrontAtZero, CursorInv
  <2> QED
    BY <2>1, <2>2, <2>4, Untouched
<1> QED
  BY <1>1, <1>2, <1>3

(* Every step keeps it.                                                    *)
LEMMA UnderwayNext == CursorInv /\ Underway /\ [Next]_vars => Underway'
<1> SUFFICES ASSUME CursorInv, Underway, [Next]_vars PROVE Underway'
  OBVIOUS
<1>1. CASE UNCHANGED vars
  BY <1>1, Untouched DEF vars, screens, Underway
<1>2. ASSUME NEW t \in Writers,
             Call(t) \/ Start(t) \/ PutChar(t) \/ Right(t) \/ Down(t) \/ Wrap(t)
      PROVE  Underway'
  BY <1>2, CallOnItsWay, WriterOnItsWay, ScreenAssumption
<1> QED
  BY <1>1, <1>2, KeyboardOnItsWay DEF Next

(* On screens of any size and any number of terminals, a character that is *)
(* put on a terminal in the background arrives where the cursor was and    *)
(* moves it by one, whatever comes between the statements of its putc.     *)
THEOREM ArrivesAlways == Spec => Arrives
<1> DEFINE Arrived ==
             \A t \in Terminals :
               writer[t].at = "wrap" /\ writer'[t].at = "idle" /\ began[t].behind =>
                 /\ video_mem'[t][began[t].p] = writer[t].c
                 /\ Position(Screen(t)') = began[t].p + 1
<1>1. Init => Underway
  BY DEF Init, Underway, Never
<1>2. CursorInv /\ Underway /\ [Next]_vars => Arrived
  <2> SUFFICES ASSUME CursorInv, Underway, [Next]_vars, NEW t \in Terminals,
                      writer[t].at = "wrap", writer'[t].at = "idle", began[t].behind
               PROVE  /\ video_mem'[t][began[t].p] = writer[t].c
                      /\ Position(Screen(t)') = began[t].p + 1
    OBVIOUS
  <2>1. NUM_COLS * screen_y[t] + (screen_x[t] % NUM_COLS) = began[t].p + 1 /\ Written(t)
    BY DEF Underway, OnItsWay
  <2>2. CASE Wrap(t)
    <3>1. Step(t, [Screen(t) EXCEPT !.x = @ % NUM_COLS], "idle")
      BY <2>2 DEF Wrap
    <3>2. /\ video_mem'[t] = video_mem[t] /\ screen_y'[t] = screen_y[t]
          /\ screen_x'[t] = screen_x[t] % NUM_COLS
      <4> DEFINE s == [Screen(t) EXCEPT !.x = @ % NUM_COLS]
      <4>1. s.mem = video_mem[t] /\ s.y = screen_y[t] /\ s.x = screen_x[t] % NUM_COLS
        BY DEF Screen
      <4>2. Step(t, s, "idle")
        BY <3>1
      <4> HIDE DEF s
      <4> QED
        BY <4>1, <4>2, StepScreen
    <3> QED
      BY <2>1, <3>2 DEF Written, Position, Screen
  <2>3. writer'[t] # writer[t]
    OBVIOUS
  <2>4. PICK u \in Writers : Call(u) \/ Start(u) \/ PutChar(u) \/ Right(u) \/ Down(u) \/ Wrap(u)
    BY <2>3 DEF Next, vars, Echo, SwitchTerminal, clear
  <2>5. u \in Terminals
    BY <2>4, ScreenAssumption
  <2>6. \A v \in Terminals \ {u} : writer'[v] = writer[v]
    BY <2>4, <2>5 DEF Call, Start, PutChar, Right, Down, Wrap, Step, CursorInv
  <2>7. u = t
    BY <2>3, <2>6
  <2> QED
    BY <2>2, <2>4, <2>7 DEF Call, Start, PutChar, Right, Down
<1>3. CursorInv /\ Underway /\ [Next]_vars => [Arrived]_vars
  BY <1>2
<1> QED
  BY <1>1, <1>3, CursorInit, CursorNext, UnderwayNext, PTL DEF Spec, Arrives
=============================================================================
