--------------------------- MODULE UserlandProofs ---------------------------
(***************************************************************************)
(* Theorems about the user programs: the ball of pingpong, the test of the *)
(* error returns and the numerals of counter (cat and ls are with the file *)
(* system they read).                                                      *)
(***************************************************************************)
EXTENDS Userland, SequenceTheorems, FiniteSetTheorems, TLAPS

(* A step of cat or ls is one of the program that runs, and leaves it      *)
(* running.                                                                *)
LEMMA CatRuns == cat \/ ls => program \in {"cat", "ls"} /\ program' = program
BY DEF cat, ls, At, Go, Return, GiveUp

(* The same for grep.                                                      *)
LEMMA GrepRuns == grep => program = "grep" /\ program' = program
<1>1. GrepStart => program = "grep" /\ program' = program
  BY DEF GrepStart, At, Go, Return, GiveUp
<1>2. GrepDirectory => program = "grep" /\ program' = program
  BY DEF GrepDirectory, At, Go, Return, GiveUp
<1>3. OneFileOpen \/ OneFileFill => program = "grep" /\ program' = program
  BY DEF OneFileOpen, OneFileFill, At, Go, Return, GiveUp
<1>4. OneFileKeep \/ OneFileSearch => program = "grep" /\ program' = program
  BY DEF OneFileKeep, OneFileSearch, At, Go, Return, GiveUp
<1>5. OneFileClose => program = "grep" /\ program' = program
  BY DEF OneFileClose, At, Go, Return, GiveUp
<1> QED
  BY <1>1, <1>2, <1>3, <1>4, <1>5 DEF grep

(* The same for the programs that need no files.                           *)
LEMMA SmallRun ==
  hello \/ testprint \/ counter \/ shell =>
    /\ program \in {"hello", "testprint", "counter", "shell"} /\ program' = program
    /\ program = "counter" => counter
<1>1. hello \/ testprint => program \in {"hello", "testprint"} /\ program' = program
  BY DEF hello, testprint, At, Go, Return, GiveUp
<1>2. counter => program = "counter" /\ program' = program
  BY DEF counter, At, Go, Return, GiveUp
<1>3. shell => program = "shell" /\ program' = program
  BY DEF shell, At, Go, Return, GiveUp
<1> QED
  BY <1>1, <1>2, <1>3

(* The same for fish.                                                      *)
LEMMA FishRuns == fish => program = "fish" /\ program' = program
<1>1. Start \/ SetRate \/ Wait => program = "fish" /\ program' = program
  BY DEF Start, SetRate, Wait, At, Go
<1>2. Change => program = "fish" /\ program' = program
  BY DEF Change, At, Go, Return
<1>3. add_frames => program = "fish" /\ program' = program
  BY DEF add_frames, OpenFrame, ReadChar, PlaceChar, EndRow, At, Go, Return
<1> QED
  BY <1>1, <1>2, <1>3 DEF fish

(* The same for pingpong.                                                  *)
LEMMA PingpongRuns == pingpong => program = "pingpong" /\ program' = program
BY DEF pingpong, At, Go

(* The same for the test program.                                          *)
LEMMA SyserrRuns == syserr => program = "syserr" /\ program' = program
<1>1. Select => program = "syserr" /\ program' = program
  BY DEF Select, At, Go, Return, GiveUp
<1>2. RunCall => program = "syserr" /\ program' = program
  BY DEF RunCall, At, Go
<1>3. EndTest => program = "syserr" /\ program' = program
  BY DEF EndTest, At, Go
<1>4. Overall => program = "syserr" /\ program' = program
  BY DEF Overall, At, Return
<1> QED
  BY <1>1, <1>2, <1>3, <1>4 DEF syserr

(* Only pingpong moves while pingpong runs, and so for the test program.   *)
LEMMA StepRuns ==
  ASSUME Step
  PROVE  /\ program' = program
         /\ program = "pingpong" => pingpong
         /\ program = "syserr" => syserr
         /\ program = "counter" => counter
BY CatRuns, GrepRuns, SmallRun, FishRuns, PingpongRuns, SyserrRuns DEF Step

-----------------------------------------------------------------------------
(* pingpong.  The columns the ball may be in, its line with the ball in    *)
(* column b, and its local variables.                                      *)
BallColumns == STARTLOOP..(LOOPMAX - 1)

BallLine(b, k) ==
  [i \in 1..(BUFMAX - 1) |->
     IF (i - 1) \notin BallColumns THEN World[i - 1]
     ELSE IF i - 1 = b THEN Balls[k] ELSE BLANK]

BallLocal(fd, j, step, k) == [fd |-> fd, j |-> j, step |-> step, curchar |-> k]

(* The ball is between the walls, and what was drawn last is at most one   *)
(* column from where it will be drawn next.                                *)
PongInv ==
  program = "pingpong" =>
    /\ pc \in {"start", "rate", "draw"}
    /\ pc # "draw" => out = <<>>
    /\ pc # "start" =>
         \E fd : \E j \in BallColumns : \E step \in {1, -1} : \E k \in DOMAIN Balls :
           local = BallLocal(fd, j, step, k)
    /\ out # <<>> => \E b \in BallColumns : \E k \in DOMAIN Balls :
                       out = BallLine(b, k) /\ local.j - b \in -1..1

(* What the constants of pingpong are.                                     *)
LEMMA PongConstants ==
  /\ SCREENWIDTH \in Nat /\ SCREENWIDTH >= 4
  /\ BUFMAX = SCREENWIDTH + 2 /\ STARTLOOP = 2 /\ START = 1 /\ LOOPMAX = SCREENWIDTH - 1
  /\ BallColumns = 2..(SCREENWIDTH - 2)
  /\ Len(Balls) \in Nat \ {0} /\ DOMAIN Balls = 1..Len(Balls)
  /\ \A k \in DOMAIN Balls : Balls[k] \notin {"|", BLANK, NEWLINE}
<1>1. SCREENWIDTH \in Nat /\ SCREENWIDTH >= 4
  BY ProgramsAssumption
<1>2. BUFMAX = SCREENWIDTH + 2 /\ STARTLOOP = 2 /\ START = 1 /\ LOOPMAX = SCREENWIDTH - 1
  BY <1>1 DEF BUFMAX, STARTLOOP, START, LOOPMAX
<1>3. BallColumns = 2..(SCREENWIDTH - 2)
  BY <1>1, <1>2 DEF BallColumns
<1>4. Len(Balls) \in Nat \ {0} /\ DOMAIN Balls = 1..Len(Balls)
  BY ProgramsAssumption
<1> QED
  BY <1>1, <1>2, <1>3, <1>4, ProgramsAssumption

(* A line has one ball, where it was put, and the two walls.               *)
LEMMA LineShows ==
  ASSUME NEW b \in BallColumns, NEW k \in DOMAIN Balls
  PROVE  /\ {i \in DOMAIN BallLine(b, k) : BallLine(b, k)[i] \in Range(Balls)} = {b + 1}
         /\ {i \in DOMAIN BallLine(b, k) : BallLine(b, k)[i] = "|"} = {2, SCREENWIDTH}
<1> USE PongConstants
<1>1. Range(Balls) = {Balls[i] : i \in DOMAIN Balls}
  BY DEF Range
<1>2. "|" \notin Range(Balls) /\ BLANK \notin Range(Balls) /\ NEWLINE \notin Range(Balls)
  BY <1>1
<1>3. Balls[k] \in Range(Balls) /\ Balls[k] # "|"
  BY <1>1
<1>4. BUFMAX - 1 = SCREENWIDTH + 1 /\ BUFMAX - 2 = SCREENWIDTH /\ BUFMAX - 3 = SCREENWIDTH - 1
  OBVIOUS
<1>5. ASSUME NEW i \in 1..(SCREENWIDTH + 1)
      PROVE  BallLine(b, k)[i] = IF i = 2 \/ i = SCREENWIDTH THEN "|"
                                 ELSE IF i = SCREENWIDTH + 1 THEN NEWLINE
                                 ELSE IF i = b + 1 THEN Balls[k] ELSE BLANK
  <2>1. BallLine(b, k)[i] = IF (i - 1) \notin BallColumns THEN World[i - 1]
                            ELSE IF i - 1 = b THEN Balls[k] ELSE BLANK
    BY <1>4 DEF BallLine
  <2>2. World[i - 1] = IF i - 1 = 1 \/ i - 1 = SCREENWIDTH - 1 THEN "|"
                       ELSE IF i - 1 = SCREENWIDTH THEN NEWLINE ELSE BLANK
    BY SMTT(40), <1>4 DEF World
  <2> QED
    BY <2>1, <2>2
<1>6. "|" # BLANK /\ "|" # NEWLINE /\ BLANK # NEWLINE
  BY Zenon DEF BLANK, NEWLINE
<1>7. DOMAIN BallLine(b, k) = 1..(SCREENWIDTH + 1)
  BY <1>4 DEF BallLine
<1>8. b + 1 \in 3..(SCREENWIDTH - 1)
  OBVIOUS
<1>9. {i \in 1..(SCREENWIDTH + 1) : BallLine(b, k)[i] \in Range(Balls)} = {b + 1}
  BY <1>2, <1>3, <1>5, <1>8
<1>10. {i \in 1..(SCREENWIDTH + 1) : BallLine(b, k)[i] = "|"} = {2, SCREENWIDTH}
  BY <1>3, <1>5, <1>6, <1>8
<1> QED
  BY <1>7, <1>9, <1>10

(* Out, back, and the next character: the ball stays between the walls and *)
(* moves by one column at most.                                            *)
LEMMA BallMoves ==
  ASSUME NEW fd, NEW j \in BallColumns, NEW step \in {1, -1}, NEW k \in DOMAIN Balls,
         local = BallLocal(fd, j, step, k)
  PROVE  \E i \in BallColumns : \E way \in {1, -1} : \E c \in DOMAIN Balls :
           Moved = BallLocal(fd, i, way, c) /\ i - j \in -1..1
<1> USE PongConstants
<1>1. local.j = j /\ local.step = step /\ local.curchar = k
  BY DEF BallLocal
<1>2. CASE step = 1 /\ j + 1 < LOOPMAX
  <2>1. Moved = [local EXCEPT !.j = j + 1]
    BY <1>1, <1>2 DEF Moved
  <2>2. Moved = BallLocal(fd, j + 1, 1, k)
    BY <1>2, <2>1 DEF BallLocal
  <2>3. j + 1 \in BallColumns /\ (j + 1) - j \in -1..1
    BY <1>2
  <2> QED
    BY <2>2, <2>3
<1>3. CASE step = 1 /\ ~(j + 1 < LOOPMAX)
  <2>1. j = LOOPMAX - 1
    BY <1>3
  <2>2. Moved = [local EXCEPT !.j = LOOPMAX - 1, !.step = -1]
    BY <1>1, <1>3 DEF Moved
  <2>3. [local EXCEPT !.j = LOOPMAX - 1, !.step = -1] = [[local EXCEPT !.j = LOOPMAX - 1] EXCEPT !.step = -1]
    OBVIOUS
  <2>4. [local EXCEPT !.j = LOOPMAX - 1] = BallLocal(fd, j, 1, k)
    BY <1>3, <2>1 DEF BallLocal
  <2>5. [BallLocal(fd, j, 1, k) EXCEPT !.step = -1] = BallLocal(fd, j, -1, k)
    BY DEF BallLocal
  <2>6. Moved = BallLocal(fd, j, -1, k)
    BY Zenon, <2>2, <2>3, <2>4, <2>5
  <2>7. j - j \in -1..1
    OBVIOUS
  <2> QED
    BY <2>6, <2>7
<1>4. CASE step = -1 /\ j - 1 >= STARTLOOP
  <2>1. Moved = [local EXCEPT !.j = j - 1]
    BY <1>1, <1>4 DEF Moved
  <2>2. Moved = BallLocal(fd, j - 1, -1, k)
    BY <1>4, <2>1 DEF BallLocal
  <2>3. j - 1 \in BallColumns /\ (j - 1) - j \in -1..1
    BY <1>4
  <2> QED
    BY <2>2, <2>3
<1>5. CASE step = -1 /\ ~(j - 1 >= STARTLOOP)
  <2> DEFINE c == IF k = Len(Balls) THEN 1 ELSE k + 1
  <2>1. j = STARTLOOP /\ c \in DOMAIN Balls
    BY <1>5
  <2>2. Moved = [local EXCEPT !.j = STARTLOOP, !.step = 1, !.curchar = c]
    BY <1>1, <1>5 DEF Moved
  <2> HIDE DEF c
  <2>3. [local EXCEPT !.j = STARTLOOP, !.step = 1, !.curchar = c]
          = [[[local EXCEPT !.j = STARTLOOP] EXCEPT !.step = 1] EXCEPT !.curchar = c]
    OBVIOUS
  <2>4. [local EXCEPT !.j = STARTLOOP] = BallLocal(fd, j, -1, k)
    BY <1>5, <2>1 DEF BallLocal
  <2>5. [BallLocal(fd, j, -1, k) EXCEPT !.step = 1] = BallLocal(fd, j, 1, k)
    BY DEF BallLocal
  <2>6. [BallLocal(fd, j, 1, k) EXCEPT !.curchar = c] = BallLocal(fd, j, 1, c)
    BY DEF BallLocal
  <2>7. Moved = BallLocal(fd, j, 1, c)
    BY Zenon, <2>2, <2>3, <2>4, <2>5, <2>6
  <2>8. j - j \in -1..1
    OBVIOUS
  <2> QED
    BY <2>1, <2>7, <2>8
<1> QED
  BY <1>2, <1>3, <1>4, <1>5

(* What BallInside says of one step.                                       *)
BallOk ==
  program = "pingpong" /\ out' # <<>> =>
    LET ball(line) == {i \in DOMAIN line : line[i] \in Range(Balls)}
        wall(line) == {i \in DOMAIN line : line[i] = "|"}
    IN  /\ \E w, v \in wall(out'), b \in ball(out') :
             wall(out') = {w, v} /\ ball(out') = {b} /\ w < b /\ b < v
        /\ out # <<>> =>
             /\ wall(out') = wall(out)
             /\ \A b \in ball(out), c \in ball(out') : c - b \in -1..1

(* Drawing a line keeps the ball where it is.                              *)
LEMMA LineDrawn ==
  ASSUME NEW b \in BallColumns, NEW k \in DOMAIN Balls, out' = BallLine(b, k),
         out # <<>> => \E a \in BallColumns : \E c \in DOMAIN Balls :
                         out = BallLine(a, c) /\ b - a \in -1..1
  PROVE  BallOk
<1> USE PongConstants
<1> DEFINE ball(line) == {i \in DOMAIN line : line[i] \in Range(Balls)}
           wall(line) == {i \in DOMAIN line : line[i] = "|"}
<1>1. ball(out') = {b + 1} /\ wall(out') = {2, SCREENWIDTH}
  <2>1. ball(BallLine(b, k)) = {b + 1} /\ wall(BallLine(b, k)) = {2, SCREENWIDTH}
    BY LineShows
  <2> HIDE DEF ball, wall
  <2> QED
    BY <2>1
<1>2. 2 < b + 1 /\ b + 1 < SCREENWIDTH
  OBVIOUS
<1>3. \E w, v \in wall(out'), d \in ball(out') :
        wall(out') = {w, v} /\ ball(out') = {d} /\ w < d /\ d < v
  <2> HIDE DEF ball, wall
  <2> QED
    BY <1>1, <1>2
<1>4. ASSUME out # <<>>
      PROVE  wall(out') = wall(out) /\ \A d \in ball(out), e \in ball(out') : e - d \in -1..1
  <2>1. PICK a \in BallColumns, c \in DOMAIN Balls : out = BallLine(a, c) /\ b - a \in -1..1
    BY <1>4
  <2>0. ball(BallLine(a, c)) = {a + 1} /\ wall(BallLine(a, c)) = {2, SCREENWIDTH}
    BY LineShows
  <2> HIDE DEF ball, wall
  <2>2. ball(out) = {a + 1} /\ wall(out) = {2, SCREENWIDTH}
    BY <2>0, <2>1
  <2>3. (b + 1) - (a + 1) \in -1..1
    BY <2>1
  <2> QED
    BY <1>1, <2>2, <2>3
<1> HIDE DEF ball, wall
<1>5. BallOk
  <2> USE DEF ball, wall
  <2> QED
    BY Zenon, <1>3, <1>4 DEF BallOk
<1> QED
  BY <1>5

(* A step of pingpong.                                                     *)
LEMMA PongStep ==
  ASSUME PongInv, pingpong
  PROVE  PongInv' /\ BallOk
<1> USE PongConstants
<1>0. program = "pingpong" /\ program' = "pingpong"
  BY PingpongRuns
<1>1. CASE pc = "start"
  <2>1. /\ pc' = "rate" /\ out' = out /\ out = <<>>
        /\ local' = BallLocal(retval', STARTLOOP, 1, 1)
    BY <1>0, <1>1 DEF pingpong, At, Go, Silent, BallLocal, PongInv
  <2>2. STARTLOOP \in BallColumns /\ 1 \in DOMAIN Balls
    OBVIOUS
  <2>3. PongInv'
    BY <1>0, <2>1, <2>2 DEF PongInv
  <2>4. BallOk
    BY <2>1 DEF BallOk
  <2> QED
    BY <2>3, <2>4
<1>2. CASE pc = "rate"
  <2>1. pc' = "draw" /\ out' = out /\ out = <<>> /\ local' = local
    BY <1>0, <1>2 DEF pingpong, At, Go, Silent, PongInv
  <2>0. PICK fd : \E j \in BallColumns : \E step \in {1, -1} : \E k \in DOMAIN Balls :
                    local = BallLocal(fd, j, step, k)
    BY <1>0, <1>2 DEF PongInv
  <2>2. PICK j \in BallColumns, step \in {1, -1}, k \in DOMAIN Balls : local = BallLocal(fd, j, step, k)
    BY <2>0
  <2>3. PongInv'
    BY <1>0, <2>1, <2>2 DEF PongInv
  <2>4. BallOk
    BY <2>1 DEF BallOk
  <2> QED
    BY <2>3, <2>4
<1>3. CASE pc = "draw"
  <2>1. /\ pc' = "draw" /\ local' = Moved
        /\ out' = [i \in 1..(BUFMAX - 1) |-> Drawn[i - 1]]
    BY <1>0, <1>3 DEF pingpong, At, Go
  <2>0. PICK fd : \E j \in BallColumns : \E step \in {1, -1} : \E k \in DOMAIN Balls :
                    local = BallLocal(fd, j, step, k)
    BY <1>0, <1>3 DEF PongInv
  <2>2. PICK j \in BallColumns, step \in {1, -1}, k \in DOMAIN Balls : local = BallLocal(fd, j, step, k)
    BY <2>0
  <2>3. local.j = j /\ local.curchar = k
    BY <2>2 DEF BallLocal
  <2>4. out' = BallLine(j, k)
    <3>1. ASSUME NEW i \in 1..(BUFMAX - 1) PROVE Drawn[i - 1] = BallLine(j, k)[i]
      <4>1. DOMAIN World = 0..(BUFMAX - 2) /\ i - 1 \in 0..(BUFMAX - 2)
        BY DEF World
      <4> QED
        BY <2>3, <4>1 DEF Drawn, BallLine, BallColumns
    <3>2. BallLine(j, k) = [i \in 1..(BUFMAX - 1) |-> BallLine(j, k)[i]]
      BY DEF BallLine
    <3> QED
      BY <2>1, <3>1, <3>2
  <2>5. PICK i \in BallColumns, way \in {1, -1}, c \in DOMAIN Balls :
          Moved = BallLocal(fd, i, way, c) /\ i - j \in -1..1
    BY <2>2, BallMoves
  <2>6. local' = BallLocal(fd, i, way, c) /\ local'.j = i
    BY <2>1, <2>5 DEF BallLocal
  <2>7. PongInv'
    <3>1. \E f : \E a \in BallColumns : \E w \in {1, -1} : \E d \in DOMAIN Balls :
            local' = BallLocal(f, a, w, d)
      BY <2>6
    <3>2. \E a \in BallColumns : \E d \in DOMAIN Balls :
            out' = BallLine(a, d) /\ local'.j - a \in -1..1
      BY <2>4, <2>5, <2>6
    <3> QED
      BY <1>0, <2>1, <3>1, <3>2 DEF PongInv
  <2>8. out # <<>> => \E a \in BallColumns : \E d \in DOMAIN Balls :
                        out = BallLine(a, d) /\ j - a \in -1..1
    BY <1>0, <2>3 DEF PongInv
  <2>9. BallOk
    BY <2>4, <2>8, LineDrawn
  <2> QED
    BY <2>7, <2>9
<1> QED
  BY <1>0, <1>1, <1>2, <1>3 DEF PongInv

(* So is every step: the other programs leave pingpong alone, and a new    *)
(* process starts with an empty screen.                                    *)
LEMMA NextPong ==
  ASSUME PongInv, [UserNext]_userVars
  PROVE  PongInv' /\ (BallOk \/ UNCHANGED process)
<1>1. CASE Step
  <2>1. CASE program = "pingpong"
    BY <1>1, <2>1, StepRuns, PongStep
  <2>2. CASE program # "pingpong"
    BY <1>1, <2>2, StepRuns DEF PongInv, BallOk
  <2> QED
    BY <2>1, <2>2
<1>2. CASE Exec
  <2>1. pc' = "start" /\ out' = <<>>
    BY <1>2 DEF Exec, Executed
  <2> QED
    BY <2>1 DEF PongInv, BallOk
<1>3. CASE UNCHANGED userVars
  BY <1>3 DEF userVars, process, PongInv
<1> QED
  BY <1>1, <1>2, <1>3 DEF UserNext

(* pingpong's ball never leaves the space between the walls and never      *)
(* jumps, for every width of the line and every alphabet of characters.    *)
THEOREM BallInsideAlways == UserSpec => BallInside
<1>1. UserInit => PongInv
  BY DEF UserInit, PongInv
<1>2. PongInv /\ [UserNext]_userVars => PongInv'
  BY NextPong
<1>3. PongInv /\ [UserNext]_userVars => [BallOk]_process
  BY NextPong
<1> QED
  BY <1>1, <1>2, <1>3, PTL DEF UserSpec, BallInside, BallOk

-----------------------------------------------------------------------------
(* The test program.  What it takes for granted: the table has the eight   *)
(* descriptors it counts on, the directory has itself in it and neither of *)
(* the names the test makes up.                                            *)
TestDisk ==
  /\ MAX_FD = 8
  /\ Found(".") # {}
  /\ Found("helloo") = {} /\ Found("shel") = {}

(* The descriptors in use, of those that open hands out.                   *)
InUseAre(S) ==
  /\ fileArray = [fd \in FDs |-> fileArray[fd]]
  /\ \A fd \in 2..7 : fileArray[fd].flags = IF fd \in S THEN 1 ELSE 0

(* The calls that fail when no descriptor is in use.                       *)
BadNames == {"helloo", "shel", ""}

BadCalls ==
  {Call(name, fd) : name \in {"read", "write", "close"}, fd \in Int} \cup
  {Call("open", name) : name \in BadNames} \cup
  {Call("vidmap", start) : start \in {0, KERNEL_PAGE}} \cup
  {Call("number", num) : num \in {BIG_NUM, NEG_NUM, 0}}

(* All the tests but the third are made of such calls.                     *)
LEMMA OthersAreBad ==
  ASSUME NEW t \in 1..8, t # 3
  PROVE  Tests[t] \in Seq(BadCalls)
<1> DEFINE C == BadCalls
<1>1. \A name \in {"read", "write", "close"} : \A fd \in Int : Call(name, fd) \in C
  BY DEF BadCalls
<1>2. \A name \in BadNames : Call("open", name) \in C
  BY DEF BadCalls
<1>3. \A start \in {0, KERNEL_PAGE} : Call("vidmap", start) \in C
  BY DEF BadCalls
<1>4. \A num \in {BIG_NUM, NEG_NUM, 0} : Call("number", num) \in C
  BY DEF BadCalls
<1> HIDE DEF C
<1>5. err_neg_fd \in Seq(C) /\ err_big_fd \in Seq(C)
  <2>1. NEG_FD \in Int /\ BIG_FD \in Int
    BY SMT DEF NEG_FD, BIG_FD
  <2> QED
    BY <1>1, <2>1 DEF err_neg_fd, err_big_fd, OnBad
<1>6. err_open \in Seq(C)
  <2>1. PICK empty : empty = ""
    BY Zenon
  <2>2. err_open = OnEach("open", <<"helloo", "shel", empty>>)
    BY Zenon, <2>1 DEF err_open
  <2>3. Call("open", "helloo") \in C /\ Call("open", "shel") \in C /\ Call("open", empty) \in C
    BY Zenon, <1>2, <2>1 DEF BadNames
  <2>4. err_open = <<Call("open", "helloo"), Call("open", "shel"), Call("open", empty)>>
    BY <2>2 DEF OnEach
  <2> QED
    BY <2>3, <2>4
<1>7. err_vidmap \in Seq(C)
  <2>1. err_vidmap = <<Call("vidmap", 0), Call("vidmap", KERNEL_PAGE)>>
    BY DEF err_vidmap, OnEach
  <2> QED
    BY <1>3, <2>1
<1>8. err_syscall_num \in Seq(C)
  <2>1. err_syscall_num = <<Call("number", BIG_NUM), Call("number", NEG_NUM), Call("number", 0)>>
    BY DEF err_syscall_num, OnEach
  <2> QED
    BY <1>4, <2>1
<1>9. err_stdin_out \in Seq(C)
  BY <1>1 DEF err_stdin_out
<1>10. err_unopened \in Seq(C)
  <2>1. ASSUME NEW a \in 0..2, NEW name \in {"read", "write", "close"}
        PROVE  OnEach(name, FromTo(a, 7)) \in Seq(C)
    <3>1. OnEach(name, FromTo(a, 7)) = [i \in 1..(7 - a + 1) |-> Call(name, a + i - 1)]
      BY DEF OnEach, FromTo
    <3>2. \A i \in 1..(7 - a + 1) : Call(name, a + i - 1) \in C
      BY <1>1
    <3>3. 7 - a + 1 \in Nat
      OBVIOUS
    <3>4. PICK n \in Nat : n = 7 - a + 1
      BY <3>3
    <3>5. PICK f : f = [i \in 1..n |-> Call(name, a + i - 1)]
      OBVIOUS
    <3>6. \A i \in 1..n : f[i] \in C
      BY <3>2, <3>4, <3>5
    <3>7. f \in Seq(C)
      BY <3>5, <3>6
    <3> QED
      BY Zenon, <3>1, <3>4, <3>5, <3>7
  <2>2. /\ OnEach("close", FromTo(0, 7)) \in Seq(C)
        /\ OnEach("read", FromTo(2, 7)) \in Seq(C)
        /\ OnEach("write", FromTo(2, 7)) \in Seq(C)
    BY <2>1
  <2>3. \A r, s \in Seq(C) : r \o s \in Seq(C)
    BY ConcatProperties
  <2> QED
    BY <2>2, <2>3 DEF err_unopened
<1>11. /\ Tests[1] = err_neg_fd /\ Tests[2] = err_big_fd /\ Tests[4] = err_open
       /\ Tests[5] = err_unopened /\ Tests[6] = err_vidmap /\ Tests[7] = err_stdin_out
       /\ Tests[8] = err_syscall_num
  BY DEF Tests
<1>12. t \in {1, 2, 4, 5, 6, 7, 8}
  OBVIOUS
<1>13. Tests[t] \in Seq(C)
  BY <1>5, <1>6, <1>7, <1>8, <1>9, <1>10, <1>11, <1>12
<1> QED
  BY <1>13 DEF C

(* The third opens the directory seven times, then closes what it got.     *)
LEMMA ThirdIs ==
  /\ Len(Tests[3]) = 13
  /\ \A i \in 1..7 : Tests[3][i] = Call("open", ".")
  /\ \A i \in 8..13 : Tests[3][i] = Call("close", i - 6)
<1> DEFINE opens == [i \in 1..7 |-> Call("open", ".")]
           closes == OnEach("close", FromTo(2, 7))
           C == {Call("open", ".")} \cup {Call("close", fd) : fd \in Int}
<1>1. closes = [i \in 1..6 |-> Call("close", 2 + i - 1)]
  BY DEF OnEach, FromTo
<1>2. opens \in Seq(C) /\ closes \in Seq(C) /\ Len(opens) = 7 /\ Len(closes) = 6
  <2>1. Call("open", ".") \in C /\ \A i \in 1..6 : Call("close", 2 + i - 1) \in C
    OBVIOUS
  <2> HIDE DEF closes, C
  <2> QED
    BY <1>1, <2>1
<1>3. Tests[3] = opens \o closes
  BY DEF Tests, err_open_lots
<1>4. \A i \in 1..7 : opens[i] = Call("open", ".")
  OBVIOUS
<1>5. \A i \in 8..13 : closes[i - 7] = Call("close", i - 6)
  <2> TAKE i \in 8..13
  <2>1. i - 7 \in 1..6 /\ 2 + (i - 7) - 1 = i - 6
    OBVIOUS
  <2> HIDE DEF closes
  <2> QED
    BY <1>1, <2>1
<1> HIDE DEF opens, closes, C
<1>6. /\ Len(opens \o closes) = Len(opens) + Len(closes)
      /\ \A i \in 1..(Len(opens) + Len(closes)) :
           (opens \o closes)[i] = IF i <= Len(opens) THEN opens[i] ELSE closes[i - Len(opens)]
  BY ONLY <1>2, ConcatProperties
<1>7. PICK all : all = opens \o closes
  OBVIOUS
<1>8. Len(all) = 13 /\ \A i \in 1..13 : all[i] = IF i <= 7 THEN opens[i] ELSE closes[i - 7]
  <2>1. /\ Len(all) = Len(opens) + Len(closes)
        /\ \A i \in 1..(Len(opens) + Len(closes)) :
             all[i] = IF i <= Len(opens) THEN opens[i] ELSE closes[i - Len(opens)]
    BY Zenon, <1>6, <1>7
  <2> QED
    BY ONLY <1>2, <2>1
<1>9. Tests[3] = all
  BY Zenon, <1>3, <1>7
<1> QED
  BY ONLY <1>4, <1>5, <1>8, <1>9

(* With no descriptor in use such a call returns -1.                       *)
LEMMA BadCallFails ==
  ASSUME TestDisk, InUseAre({}), NEW c \in BadCalls, Perform(c)
  PROVE  retval' = -1 /\ fileArray' = fileArray
<1>1. \A fd : ~IsOpen(fd)
  BY DEF TestDisk, InUseAre, IsOpen, MIN_FD
<1>2. ASSUME NEW fd, Perform(Call("read", fd)) \/ Perform(Call("write", fd)) \/ Perform(Call("close", fd))
      PROVE  retval' = -1 /\ fileArray' = fileArray
  BY <1>1, <1>2 DEF Perform, Call, read, write, close
<1>3. ASSUME NEW name \in BadNames, Perform(Call("open", name))
      PROVE  retval' = -1 /\ fileArray' = fileArray
  <2>1. Openable(name) = {}
    BY Zenon DEF Openable, BadNames, TestDisk
  <2>2. open(name)
    BY <1>3 DEF Perform, Call
  <2> QED
    BY <2>1, <2>2 DEF open
<1>4. ASSUME NEW start \in {0, KERNEL_PAGE}, Perform(Call("vidmap", start))
      PROVE  retval' = -1 /\ fileArray' = fileArray
  <2>1. vidmap_fails(start)
    BY SMT DEF vidmap_fails, KERNEL_PAGE, USR_LOW_BOUND
  <2> QED
    BY <1>4, <2>1 DEF Perform, Call
<1>5. ASSUME NEW num \in {BIG_NUM, NEG_NUM, 0}, Perform(Call("number", num))
      PROVE  retval' = -1 /\ fileArray' = fileArray
  <2>1. BadNumber(num)
    BY SMT DEF BadNumber, BIG_NUM, NEG_NUM
  <2> QED
    BY <1>5, <2>1 DEF Perform, Call
<1> QED
  BY <1>2, <1>3, <1>4, <1>5 DEF BadCalls

(* open takes the descriptor after the ones in use.                        *)
LEMMA OpensNext ==
  ASSUME TestDisk, NEW m \in 1..6, InUseAre(2..m), open(".")
  PROVE  retval' = m + 1 /\ InUseAre(2..(m + 1))'
<1> USE DEF MIN_FD
<1>1. FreeFD = {m + 1}
  BY DEF FreeFD, TestDisk, InUseAre
<1>2. Openable(".") # {}
  BY Zenon DEF Openable, TestDisk
<1>3. PICK i \in Openable("."), fd \in FreeFD :
        /\ fileArray' = [fileArray EXCEPT ![fd] =
             [type          |-> dentry[i].filetype,
              inode_indx    |-> IF dentry[i].filetype = REG_FILE THEN dentry[i].idx_inode ELSE 0,
              file_position |-> 0,
              flags         |-> 1]]
        /\ retval' = fd
  BY Zenon, <1>1, <1>2 DEF open
<1>4. fd = m + 1 /\ 2..7 \subseteq FDs
  BY <1>1 DEF FDs, TestDisk
<1>5. fileArray'[m + 1].flags = 1 /\ \A d \in FDs \ {m + 1} : fileArray'[d] = fileArray[d]
  BY <1>3, <1>4 DEF InUseAre
<1>6. fileArray' = [d \in FDs |-> fileArray'[d]]
  BY <1>3 DEF InUseAre
<1>7. \A d \in 2..7 : fileArray'[d].flags = IF d \in 2..(m + 1) THEN 1 ELSE 0
  BY <1>4, <1>5 DEF InUseAre
<1> QED
  BY <1>3, <1>4, <1>6, <1>7 DEF InUseAre

(* With all of them in use it fails.                                       *)
LEMMA NoneLeft ==
  ASSUME TestDisk, InUseAre(2..7), open(".")
  PROVE  retval' = -1 /\ fileArray' = fileArray
<1>1. FreeFD = {}
  BY DEF FreeFD, TestDisk, InUseAre, MIN_FD
<1> QED
  BY Zenon, <1>1 DEF open

(* close frees the first one in use.                                       *)
LEMMA ClosesFirst ==
  ASSUME TestDisk, NEW m \in 2..7, InUseAre(m..7), close(m)
  PROVE  retval' = 0 /\ InUseAre((m + 1)..7)'
<1> USE DEF MIN_FD
<1>1. IsOpen(m) /\ 2..7 \subseteq FDs
  BY DEF IsOpen, TestDisk, InUseAre, FDs
<1>2. fileArray' = [fileArray EXCEPT ![m] = Closed] /\ retval' = 0
  BY <1>1 DEF close
<1>3. fileArray'[m].flags = 0 /\ \A d \in FDs \ {m} : fileArray'[d] = fileArray[d]
  BY <1>1, <1>2 DEF InUseAre, Closed
<1>4. fileArray' = [d \in FDs |-> fileArray'[d]]
  BY <1>2 DEF InUseAre
<1>5. \A d \in 2..7 : fileArray'[d].flags = IF d \in (m + 1)..7 THEN 1 ELSE 0
  BY <1>1, <1>3 DEF InUseAre
<1> QED
  BY <1>2, <1>4, <1>5 DEF InUseAre

(* The descriptors in use after r calls of the third test.                 *)
InThird(r) == IF r <= 6 THEN 2..(r + 1) ELSE (r - 5)..7

(* Where test t is once its calls have returned res.                       *)
Progress(t, res) ==
  /\ res \in Seq(Int) /\ Len(res) <= Len(Tests[t])
  /\ t # 3 => InUseAre({}) /\ \A i \in 1..Len(res) : res[i] = -1
  /\ t = 3 => /\ InUseAre(InThird(Len(res)))
              /\ \A i \in 1..Len(res) : i <= 7 => res[i] = IF i <= 6 THEN i + 1 ELSE -1

(* A call of the tests is the system call of its name.                     *)
LEMMA Performs ==
  ASSUME NEW arg
  PROVE  /\ Perform(Call("open", arg)) => open(arg)
         /\ Perform(Call("close", arg)) => close(arg)
BY DEF Perform, Call

(* A call of a test fails if it should, and the third test's return the    *)
(* descriptors in order until there are none.                              *)
LEMMA CallGoesOn ==
  ASSUME TestDisk, NEW t \in 1..8, NEW res, Progress(t, res), Len(res) < Len(Tests[t]),
         Perform(Tests[t][Len(res) + 1]), NEW v, v = retval'
  PROVE  v \in Int /\ Progress(t, Append(res, v))'
<1>1. res \in Seq(Int) /\ Len(res) \in Nat
  BY DEF Progress
<1>2. ASSUME v \in Int
      PROVE  /\ Append(res, v) \in Seq(Int) /\ Len(Append(res, v)) = Len(res) + 1
             /\ \A i \in 1..Len(res) : Append(res, v)[i] = res[i]
             /\ Append(res, v)[Len(res) + 1] = v
  BY <1>1, <1>2, AppendProperties
<1>3. CASE t # 3
  <2>1. Tests[t] \in Seq(BadCalls) /\ InUseAre({}) /\ \A i \in 1..Len(res) : res[i] = -1
    BY <1>3, OthersAreBad DEF Progress
  <2>2. Len(res) + 1 \in 1..Len(Tests[t]) /\ Len(Tests[t]) \in Nat
    BY <1>1, <2>1
  <2>3. Tests[t][Len(res) + 1] \in BadCalls
    BY <2>1, <2>2
  <2>4. v = -1 /\ fileArray' = fileArray
    BY <2>1, <2>3, BadCallFails
  <2>5. InUseAre({})'
    BY <2>1, <2>4 DEF InUseAre
  <2>6. PICK new : new = Append(res, v)
    OBVIOUS
  <2>7. /\ new \in Seq(Int) /\ Len(new) = Len(res) + 1
        /\ \A i \in 1..Len(res) : new[i] = res[i]
        /\ new[Len(res) + 1] = v
    BY <1>2, <2>4, <2>6
  <2>8. \A i \in 1..Len(new) : new[i] = -1
    <3> TAKE i \in 1..Len(new)
    <3>1. i \in 1..Len(res) \/ i = Len(res) + 1
      BY <1>1, <2>7
    <3> QED
      BY <2>1, <2>4, <2>7, <3>1
  <2>9. Progress(t, new)'
    BY <1>1, <1>3, <2>2, <2>5, <2>7, <2>8 DEF Progress
  <2>10. v \in Int
    BY <2>4
  <2> QED
    BY Zenon, <2>6, <2>9, <2>10
<1>4. CASE t = 3
  <2> DEFINE r == Len(res)
  <2>1. /\ InUseAre(InThird(r)) /\ r \in 0..12
        /\ \A i \in 1..r : i <= 7 => res[i] = IF i <= 6 THEN i + 1 ELSE -1
    <3>1. Len(Tests[t]) = 13
      BY <1>4, ThirdIs
    <3>2. Len(res) < 13
      BY Zenon, <3>1
    <3>3. PICK n \in Nat : n = Len(res)
      BY <1>1
    <3>4. n \in 0..12
      <4>1. n < 13
        BY Zenon, <3>2, <3>3
      <4> QED
        BY ONLY <4>1, n \in Nat
    <3>5. r \in 0..12
      BY Zenon, <3>3, <3>4
    <3> QED
      BY <1>4, <3>5 DEF Progress
  <2>2. Len(Tests[3]) = 13 /\ Perform(Tests[3][r + 1])
    BY <1>4, ThirdIs
  <2> HIDE DEF r
  <2>3. /\ v \in Int /\ InUseAre(InThird(r + 1))'
        /\ r + 1 <= 7 => v = IF r + 1 <= 6 THEN r + 2 ELSE -1
    <3>1. CASE r \in 0..5
      <4>1. Tests[3][r + 1] = Call("open", ".")
        BY <2>1, <3>1, ThirdIs
      <4>2. open(".")
        BY Zenon, <2>2, <4>1, Performs
      <4>3. InUseAre(2..(r + 1)) /\ r + 1 \in 1..6
        BY <2>1, <3>1 DEF InThird
      <4>4. retval' = (r + 1) + 1 /\ InUseAre(2..((r + 1) + 1))'
        BY ONLY TestDisk, <4>2, <4>3, OpensNext
      <4>5. InThird(r + 1) = 2..((r + 1) + 1)
        BY <3>1 DEF InThird
      <4> QED
        BY <3>1, <4>4, <4>5
    <3>2. CASE r = 6
      <4>1. Tests[3][r + 1] = Call("open", ".")
        BY <2>1, <3>2, ThirdIs
      <4>2. open(".")
        BY Zenon, <2>2, <4>1, Performs
      <4>3. InUseAre(2..7)
        BY <2>1, <3>2 DEF InThird
      <4>4. retval' = -1 /\ fileArray' = fileArray
        BY <4>2, <4>3, NoneLeft
      <4>5. InUseAre(2..7)' /\ InThird(r + 1) = 2..7
        BY <3>2, <4>3, <4>4 DEF InThird, InUseAre
      <4>6. InUseAre(InThird(r + 1))'
        BY Zenon, <4>5
      <4>7. v = -1
        BY <4>4
      <4> QED
        BY <3>2, <4>6, <4>7
    <3>3. CASE r \in 7..12
      <4>1. Tests[3][r + 1] = Call("close", (r + 1) - 6)
        BY <3>3, ThirdIs
      <4>2. PICK m \in 2..7 : m = r - 5
        BY <3>3
      <4>3. (r + 1) - 6 = m
        BY <3>3, <4>2
      <4>4. close(m)
        BY Zenon, <2>2, <4>1, <4>3, Performs
      <4>5. InUseAre(m..7)
        BY <2>1, <3>3, <4>2 DEF InThird
      <4>6. retval' = 0 /\ InUseAre((m + 1)..7)'
        BY ONLY TestDisk, <4>4, <4>5, m \in 2..7, ClosesFirst
      <4>7. InThird(r + 1) = (m + 1)..7
        BY <3>3, <4>2 DEF InThird
      <4> QED
        BY <3>3, <4>6, <4>7
    <3> QED
      BY <2>1, <3>1, <3>2, <3>3
  <2>4. PICK new : new = Append(res, v)
    OBVIOUS
  <2>5. /\ new \in Seq(Int) /\ Len(new) = r + 1
        /\ \A i \in 1..r : new[i] = res[i]
        /\ new[r + 1] = v
    BY <1>2, <2>3, <2>4 DEF r
  <2>6. \A i \in 1..(r + 1) : i <= 7 => new[i] = IF i <= 6 THEN i + 1 ELSE -1
    <3> TAKE i \in 1..(r + 1)
    <3>1. CASE i = r + 1
      BY <2>1, <2>3, <2>5, <3>1
    <3>2. CASE i \in 1..r
      BY <2>1, <2>5, <3>2
    <3> QED
      BY <2>1, <3>1, <3>2
  <2>7. Progress(t, new)'
    <3>1. r + 1 <= 13
      BY ONLY <2>1
    <3>2. Len(new) <= Len(Tests[t])
      BY Zenon, <1>4, <2>2, <2>5, <3>1
    <3>3. InUseAre(InThird(Len(new)))'
      BY Zenon, <2>3, <2>5
    <3>4. \A i \in 1..Len(new) : i <= 7 => new[i] = IF i <= 6 THEN i + 1 ELSE -1
      BY Zenon, <2>5, <2>6
    <3> QED
      BY Zenon, <1>4, <2>5, <3>2, <3>3, <3>4 DEF Progress
  <2> QED
    BY Zenon, <2>3, <2>4, <2>7
<1> QED
  BY <1>3, <1>4

(* A test that has made all its calls passes, and leaves no descriptor in  *)
(* use.                                                                    *)
LEMMA TestEnds ==
  ASSUME TestDisk, NEW t \in 1..8, NEW res, Progress(t, res), Len(res) = Len(Tests[t])
  PROVE  Verdict(t, res) = 0 /\ InUseAre({})
<1>1. res \in Seq(Int) /\ Len(res) \in Nat /\ DOMAIN res = 1..Len(res)
  BY DEF Progress
<1> DEFINE failed == {i \in DOMAIN res : res[i] = -1}
<1>2. CASE t # 3
  <2>1. InUseAre({}) /\ \A i \in 1..Len(res) : res[i] = -1
    BY <1>2 DEF Progress
  <2>2. failed = DOMAIN res
    BY <1>1, <2>1
  <2> QED
    BY <1>2, <2>1, <2>2 DEF Verdict
<1>3. CASE t = 3
  <2>1. /\ Len(res) = 13 /\ InUseAre(InThird(13))
        /\ \A i \in 1..13 : i <= 7 => res[i] = IF i <= 6 THEN i + 1 ELSE -1
    BY <1>3, ThirdIs DEF Progress
  <2>2. InThird(13) = {}
    BY DEF InThird
  <2>3. failed \cap (1..7) = {7}
    BY <1>1, <2>1
  <2>4. Cardinality(failed \cap (1..7)) = 1
    BY <2>3, FS_Singleton
  <2> QED
    BY <1>3, <2>1, <2>2, <2>4 DEF Verdict
<1> QED
  BY <1>2, <1>3

(* What the test program prints: no test fails.                            *)
TestMessages == {"PASS", "Invalid test number. Choose from tests 1-8 or 0"}

TestLocal(left, res) == [left |-> left, results |-> res, fail |-> 0]

(* The test in front of those left has made some of its calls, and no test *)
(* has failed yet.                                                         *)
TestsLeft(left, res) ==
  /\ left \in Seq(1..8) /\ res \in Seq(Int)
  /\ IF left = <<>> THEN InUseAre({}) ELSE Progress(Head(left), res)

TestInv ==
  program = "syserr" =>
    /\ out \in Seq(TestMessages)
    /\ pc \in {"start", "test", "done"}
    /\ pc = "start" => InUseAre({})
    /\ pc = "done" => status = 0
    /\ pc = "test" => \E left, res : local = TestLocal(left, res) /\ TestsLeft(left, res)

(* The next test begins with no descriptor in use.                         *)
LEMMA TestBegins ==
  ASSUME InUseAre({}), NEW left \in Seq(1..8)
  PROVE  TestsLeft(left, <<>>)
<1>1. <<>> \in Seq(Int) /\ Len(<<>>) = 0
  OBVIOUS
<1>2. InThird(0) = {}
  BY DEF InThird
<1>3. ASSUME left # <<>>
      PROVE  Progress(Head(left), <<>>)
  <2>1. PICK t \in 1..8 : t = Head(left)
    BY <1>3
  <2>2. Len(Tests[t]) \in Nat
    BY SMTT(40), ThirdIs, OthersAreBad
  <2>3. InUseAre(InThird(0))
    BY Zenon, <1>2
  <2>4. Progress(t, <<>>)
    BY <1>1, <2>2, <2>3 DEF Progress
  <2> QED
    BY Zenon, <2>1, <2>4
<1> QED
  BY <1>1, <1>3 DEF TestsLeft

(* main: a wrong number is answered with a message, the others select the  *)
(* tests.                                                                  *)
LEMMA SelectKeeps == ASSUME TestInv, program = "syserr", Select PROVE TestInv'
<1>1. InUseAre({}) /\ out \in Seq(TestMessages) /\ fileArray' = fileArray
  BY DEF TestInv, Select, At, files
<1>2. InUseAre({})'
  BY <1>1 DEF InUseAre
<1>3. PICK n \in 0..9 :
        IF n > Len(Tests) THEN GiveUp("Invalid test number. Choose from tests 1-8 or 0", 0)
        ELSE /\ Silent
             /\ Go("test", [left |-> IF n = 0 THEN FromTo(1, Len(Tests)) ELSE <<n>>,
                            results |-> <<>>, fail |-> 0])
  BY Zenon DEF Select
<1>4. Len(Tests) = 8
  BY DEF Tests
<1>5. CASE n > Len(Tests)
  <2>1. PICK message : message = "Invalid test number. Choose from tests 1-8 or 0"
    BY Zenon
  <2>2. GiveUp(message, 0) /\ message \in TestMessages
    BY Zenon, <1>3, <1>5, <2>1 DEF TestMessages
  <2>3. out' = out \o <<message>> /\ pc' = "done" /\ status' = 0
    BY <2>2 DEF GiveUp, Say, Return
  <2>4. out' \in Seq(TestMessages)
    BY <1>1, <2>2, <2>3
  <2> QED
    BY <2>3, <2>4 DEF TestInv
<1>6. CASE ~(n > Len(Tests))
  <2> DEFINE left == IF n = 0 THEN FromTo(1, Len(Tests)) ELSE <<n>>
  <2>1. out' = out /\ pc' = "test" /\ local' = TestLocal(left, <<>>)
    BY <1>3, <1>6 DEF Silent, Go, TestLocal
  <2>2. left \in Seq(1..8)
    <3>1. n \in 0..8
      BY <1>4, <1>6
    <3>2. FromTo(1, Len(Tests)) = [i \in 1..8 |-> i]
      BY <1>4 DEF FromTo
    <3>3. [i \in 1..8 |-> i] \in Seq(1..8)
      OBVIOUS
    <3>4. ASSUME n # 0 PROVE <<n>> \in Seq(1..8)
      <4>1. n \in 1..8
        BY <3>1, <3>4
      <4> QED
        BY <4>1
    <3> QED
      BY Zenon, <3>2, <3>3, <3>4
  <2> HIDE DEF left
  <2>3. TestsLeft(left, <<>>)'
    <3>1. InUseAre({}) => TestsLeft(left, <<>>)
      BY <2>2, TestBegins
    <3> QED
      BY <1>1, <1>2, <3>1 DEF TestsLeft, InUseAre, Progress
  <2>4. out' \in Seq(TestMessages)
    BY <1>1, <2>1
  <2> QED
    BY <2>1, <2>3, <2>4 DEF TestInv
<1> QED
  BY <1>5, <1>6

(* A call of the test in front.                                            *)
LEMMA RunCallKeeps ==
  ASSUME TestDisk, TestInv, program = "syserr", RunCall
  PROVE  TestInv'
<1>1. PICK left, res : local = TestLocal(left, res) /\ TestsLeft(left, res)
  BY DEF TestInv, RunCall, At
<1>2. local.left = left /\ local.results = res
  BY <1>1 DEF TestLocal
<1>3. left # <<>> /\ left \in Seq(1..8) /\ res \in Seq(Int) /\ Progress(Head(left), res)
  BY <1>1, <1>2 DEF RunCall, TestsLeft
<1>4. PICK t \in 1..8 : t = Head(left)
  BY <1>3
<1>5. PICK v : v = retval'
  OBVIOUS
<1>6. Len(res) < Len(Tests[t]) /\ Perform(Tests[t][Len(res) + 1])
  BY Zenon, <1>2, <1>4 DEF RunCall
<1>7. Progress(t, res)
  BY Zenon, <1>3, <1>4
<1>8. v \in Int /\ Progress(t, Append(res, v))'
  BY <1>5, <1>6, <1>7, CallGoesOn
<1>9. /\ out' = out /\ pc' = "test"
      /\ local' = [local EXCEPT !.results = Append(res, v)]
  BY Zenon, <1>2, <1>5 DEF RunCall, Silent, Go
<1>10. local' = TestLocal(left, Append(res, v))
  BY <1>1, <1>9 DEF TestLocal
<1>11. TestsLeft(left, Append(res, v))'
  <2>1. Append(res, v) \in Seq(Int)
    BY <1>3, <1>8
  <2>2. Progress(Head(left), Append(res, v))'
    BY Zenon, <1>4, <1>8
  <2> QED
    BY Zenon, <1>3, <2>1, <2>2 DEF TestsLeft
<1>12. out' \in Seq(TestMessages)
  BY <1>9 DEF TestInv
<1>13. pc' = "test"
  BY <1>9
<1> QED
  BY <1>10, <1>11, <1>12, <1>13 DEF TestInv

(* The end of a test, which passes.                                        *)
LEMMA EndTestKeeps ==
  ASSUME TestDisk, TestInv, program = "syserr", EndTest
  PROVE  TestInv'
<1>1. PICK left, res : local = TestLocal(left, res) /\ TestsLeft(left, res)
  BY DEF TestInv, EndTest, At
<1>2. local.left = left /\ local.results = res /\ local.fail = 0
  BY <1>1 DEF TestLocal
<1>3. left # <<>> /\ left \in Seq(1..8) /\ res \in Seq(Int) /\ Progress(Head(left), res)
  BY <1>1, <1>2 DEF EndTest, TestsLeft
<1>4. PICK t \in 1..8 : t = Head(left)
  BY <1>3
<1>5. Len(res) = Len(Tests[t])
  BY Zenon, <1>2, <1>4 DEF EndTest
<1>6. Progress(t, res)
  BY Zenon, <1>3, <1>4
<1>7. Verdict(t, res) = 0 /\ InUseAre({})
  BY <1>5, <1>6, TestEnds
<1>8. Verdict(Head(local.left), local.results) = 0
  BY Zenon, <1>2, <1>4, <1>7
<1>9. /\ out' = out \o <<"PASS">> /\ pc' = "test" /\ fileArray' = fileArray
      /\ local' = [left |-> Tail(left), results |-> <<>>, fail |-> local.fail + 0]
  BY <1>2, <1>8 DEF EndTest, Say, Go, files
<1>10. local' = TestLocal(Tail(left), <<>>)
  <2>1. local.fail + 0 = 0
    BY <1>2
  <2> QED
    BY Zenon, <1>9, <2>1 DEF TestLocal
<1>11. Tail(left) \in Seq(1..8)
  BY <1>3
<1>12. TestsLeft(Tail(left), <<>>)'
  <2>1. TestsLeft(Tail(left), <<>>)
    BY <1>7, <1>11, TestBegins
  <2> QED
    BY <1>9, <2>1 DEF TestsLeft, InUseAre, Progress
<1>13. out' \in Seq(TestMessages)
  <2>1. PICK m : m = "PASS" /\ m \in TestMessages
    BY Zenon DEF TestMessages
  <2>2. out \in Seq(TestMessages)
    BY Zenon DEF TestInv, EndTest, At
  <2>3. out' = out \o <<m>>
    BY Zenon, <1>9, <2>1
  <2> QED
    BY ONLY <2>1, <2>2, <2>3
<1>14. pc' = "test"
  BY <1>9
<1> QED
  BY <1>10, <1>12, <1>13, <1>14 DEF TestInv

(* Every step keeps it; a new process has a new table.                     *)
LEMMA NextTest == ASSUME TestDisk, TestInv, [UserNext]_userVars PROVE TestInv'
<1>1. CASE Step
  <2>1. CASE program = "syserr"
    <3>1. CASE Select
      BY <2>1, <3>1, SelectKeeps
    <3>2. CASE RunCall
      BY <2>1, <3>2, RunCallKeeps
    <3>3. CASE EndTest
      BY <2>1, <3>3, EndTestKeeps
    <3>4. CASE Overall
      <4>1. local.fail = 0
        BY <2>1, <3>4 DEF TestInv, Overall, At, TestLocal
      <4> QED
        BY <2>1, <3>4, <4>1 DEF TestInv, Overall, At, Silent, Return
    <3> QED
      BY <1>1, <2>1, <3>1, <3>2, <3>3, <3>4, StepRuns DEF syserr
  <2>2. CASE program # "syserr"
    BY <1>1, <2>2, StepRuns DEF TestInv
  <2> QED
    BY <2>1, <2>2
<1>2. CASE Exec
  <2>1. pc' = "start" /\ out' = <<>> /\ fileArray' = Table
    BY <1>2 DEF Exec, Executed, NewProcess
  <2>2. InUseAre({})'
    BY <2>1 DEF TestDisk, InUseAre, Table, FDs, MIN_FD, Closed, Stdio
  <2> QED
    BY <2>1, <2>2 DEF TestInv
<1>3. CASE UNCHANGED userVars
  BY <1>3 DEF userVars, process, files, TestInv, InUseAre, TestsLeft, Progress
<1> QED
  BY <1>1, <1>2, <1>3 DEF UserNext

(* The kernel passes its own tests, one or all of them after the other, on *)
(* every disk of which the tests' assumptions are true.                    *)
THEOREM TestsPassAlways == ASSUME TestDisk PROVE UserSpec => []TestsPass
<1>1. UserInit => TestInv
  <2> SUFFICES ASSUME UserInit PROVE TestInv
    OBVIOUS
  <2>1. pc = "start" /\ out = <<>> /\ fileArray = Table
    BY DEF UserInit, Init
  <2>2. InUseAre({})
    BY <2>1 DEF TestDisk, InUseAre, Table, FDs, MIN_FD, Closed, Stdio
  <2> QED
    BY <2>1, <2>2 DEF TestInv
<1>2. TestInv /\ [UserNext]_userVars => TestInv'
  BY NextTest
<1>3. TestInv => TestsPass
  <2> SUFFICES ASSUME TestInv, program = "syserr"
               PROVE  "FAIL" \notin Range(out) /\ (pc = "done" => status = 0)
    BY DEF TestsPass
  <2>1. Range(out) \subseteq TestMessages
    BY DEF TestInv, Range
  <2>2. "FAIL" \notin TestMessages
    BY Zenon DEF TestMessages
  <2> QED
    BY <2>1, <2>2 DEF TestInv
<1> QED
  BY <1>1, <1>2, <1>3, PTL DEF UserSpec

-----------------------------------------------------------------------------
(* counter.  Its numerals and its output are computed recursively.         *)

(* A set of natural numbers that is not empty has a least element.         *)
LEMMA Least == ASSUME NEW T, T \subseteq Nat, T # {} PROVE \E x \in T : \A y \in T : x <= y
<1> DEFINE R == OpToRel(<, Nat)
<1>1. IsWellFoundedOn(R, Nat)
  BY NatLessThanWellFounded
<1>2. \A x, y \in Nat : y < x => <<y, x>> \in R
  BY DEF OpToRel
<1> HIDE DEF R
<1>3. \E x \in T : \A y \in T : ~(<<y, x>> \in R)
  BY <1>1, WFMin
<1>4. PICK x \in T : \A y \in T : ~(<<y, x>> \in R)
  BY <1>3
<1>5. \A y \in T : ~(y < x)
  BY <1>2, <1>4
<1> QED
  BY <1>5

(* Induction, on the set of the numbers that have the property.            *)
LEMMA ByInduction ==
  ASSUME NEW S, 0 \in S, \A n \in Nat : n \in S => n + 1 \in S
  PROVE  Nat \subseteq S
<1> SUFFICES ASSUME ~(Nat \subseteq S) PROVE FALSE
  OBVIOUS
<1> DEFINE T == {n \in Nat : n \notin S}
<1>1. PICK x \in T : \A y \in T : x <= y
  <2>1. T \subseteq Nat /\ T # {}
    OBVIOUS
  <2> HIDE DEF T
  <2> QED
    BY <2>1, Least
<1>2. x # 0 /\ x \in Nat
  OBVIOUS
<1>3. x - 1 \in Nat /\ x - 1 \in S
  BY <1>1, <1>2
<1>4. (x - 1) + 1 \in S
  BY <1>3
<1> QED
  BY <1>2, <1>4

(* A property that a number has if all smaller ones have it.               *)
LEMMA Strongly ==
  ASSUME NEW T, \A n \in Nat : (\A k \in 0..(n - 1) : k \in T) => n \in T
  PROVE  Nat \subseteq T
<1> DEFINE B == {n \in Nat : n \notin T}
<1>1. SUFFICES ASSUME B # {} PROVE FALSE
  OBVIOUS
<1>2. B \subseteq Nat
  OBVIOUS
<1>3. PICK x \in B : \A y \in B : x <= y
  <2> HIDE DEF B
  <2> QED
    BY ONLY <1>1, <1>2, Least
<1>4. \A k \in 0..(x - 1) : k \in T
  BY <1>3
<1> QED
  BY <1>3, <1>4

(* A function whose value at v is h[v] of its value at an earlier place,   *)
(* p[v].                                                                   *)
Backwards(N, X, p, h) == \A v \in 1..N : p[v] \in 0..(v - 1) /\ \A x \in X : h[v][x] \in X

Computed(N, base, p, h, f) == f[0] = base /\ \A v \in 1..N : f[v] = h[v][f[p[v]]]

(* There is such a function.                                               *)
LEMMA Recursively ==
  ASSUME NEW N \in Nat, NEW X, NEW base \in X, NEW p, NEW h, Backwards(N, X, p, h)
  PROVE  \E f \in [0..N -> X] : Computed(N, base, p, h, f)
<1> USE DEF Backwards, Computed
<1> DEFINE Upto(m, f) == f[0] = base /\ \A v \in 1..m : f[v] = h[v][f[p[v]]]
           S == {m \in Nat : m <= N => \E f \in [0..m -> X] : Upto(m, f)}
<1>1. 0 \in S
  <2>1. [i \in 0..0 |-> base] \in [0..0 -> X] /\ Upto(0, [i \in 0..0 |-> base])
    OBVIOUS
  <2> QED
    BY <2>1
<1>2. ASSUME NEW m \in Nat, m \in S PROVE m + 1 \in S
  <2>1. SUFFICES ASSUME m + 1 <= N PROVE \E f \in [0..(m + 1) -> X] : Upto(m + 1, f)
    <3> HIDE DEF Upto
    <3>1. m + 1 \in Nat
      OBVIOUS
    <3> QED
      BY Zenon, <3>1
  <2>2. PICK f \in [0..m -> X] : Upto(m, f)
    BY <1>2, <2>1
  <2>3. p[m + 1] \in 0..m /\ \A x \in X : h[m + 1][x] \in X
    BY <2>1
  <2> DEFINE g == [i \in 0..(m + 1) |-> IF i <= m THEN f[i] ELSE h[m + 1][f[p[m + 1]]]]
  <2>4. g \in [0..(m + 1) -> X]
    BY <2>2, <2>3
  <2>5. (\A i \in 0..m : g[i] = f[i]) /\ g[m + 1] = h[m + 1][f[p[m + 1]]]
    OBVIOUS
  <2> HIDE DEF g
  <2>6. g[0] = base
    BY <2>2, <2>5
  <2>7. ASSUME NEW v \in 1..(m + 1) PROVE g[v] = h[v][g[p[v]]]
    <3>1. CASE v = m + 1
      BY <2>3, <2>5, <3>1
    <3>2. CASE v \in 1..m
      <4>1. p[v] \in 0..m
        BY <2>1, <3>2
      <4> QED
        BY <2>2, <2>5, <3>2, <4>1
    <3> QED
      BY <3>1, <3>2
  <2> QED
    BY <2>4, <2>6, <2>7
<1>3. Nat \subseteq S
  <2> HIDE DEF S
  <2> QED
    BY ONLY <1>1, <1>2, ByInduction
<1> QED
  BY <1>3

Digits == {lookup[d] : d \in 1..10}

(* The last digit of a number and what is left of it.                      *)
LEMMA Tens ==
  ASSUME NEW v \in Nat
  PROVE  /\ v % 10 \in 0..9 /\ v \div 10 \in Nat
         /\ v # 0 => v \div 10 \in 0..(v - 1)
         /\ v < 10 <=> v \div 10 = 0
         /\ v < 10 => v % 10 = v
OBVIOUS

(* itoa's loop over the digits, from the last one on.                      *)
IsPlaces(n, f) ==
  f = [v \in 0..n |-> IF v = 0 THEN <<>> ELSE <<lookup[(v % 10) + 1]>> \o f[v \div 10]]

LEMMA PlacesAre == ASSUME NEW n \in Nat PROVE \E f : IsPlaces(n, f) /\ LowestFirst(n, 10) = f[n]
<1> DEFINE X == Seq(Digits)
           p == [v \in 1..n |-> v \div 10]
           h == [v \in 1..n |-> [x \in X |-> <<lookup[(v % 10) + 1]>> \o x]]
<1>1. Backwards(n, X, p, h)
  <2> SUFFICES ASSUME NEW v \in 1..n PROVE p[v] \in 0..(v - 1) /\ \A x \in X : h[v][x] \in X
    BY DEF Backwards
  <2>1. v \div 10 \in 0..(v - 1) /\ lookup[(v % 10) + 1] \in Digits
    BY Tens DEF Digits
  <2> QED
    BY <2>1
<1>2. <<>> \in X
  OBVIOUS
<1>3. PICK f \in [0..n -> X] : Computed(n, <<>>, p, h, f)
  <2> HIDE DEF X, p, h
  <2> QED
    BY <1>1, <1>2, Recursively
<1>4. ASSUME NEW v \in 1..n PROVE f[v] = <<lookup[(v % 10) + 1]>> \o f[v \div 10]
  <2>1. v \div 10 \in 0..n
    BY Tens
  <2>2. f[v \div 10] \in X
    BY <2>1
  <2> QED
    BY <1>3, <2>2 DEF Computed
<1>5. IsPlaces(n, f)
  <2>1. \A v \in 0..n : f[v] = IF v = 0 THEN <<>> ELSE <<lookup[(v % 10) + 1]>> \o f[v \div 10]
    <3> TAKE v \in 0..n
    <3>1. v = 0 \/ v \in 1..n
      OBVIOUS
    <3> QED
      BY ONLY <1>3, <1>4, <3>1 DEF Computed
  <2> QED
    BY <2>1 DEF IsPlaces
<1>6. LowestFirst(n, 10) = (CHOOSE g : IsPlaces(n, g))[n]
  BY DEF LowestFirst, IsPlaces
<1> QED
  BY <1>5, <1>6, Zenon

(* The numerals the output is compared with.                               *)
IsNumerals(n, f) ==
  f = [v \in 0..n |-> IF v < 10 THEN <<lookup[v + 1]>> ELSE f[v \div 10] \o <<lookup[(v % 10) + 1]>>]

LEMMA NumeralsAre == ASSUME NEW n \in Nat PROVE \E f : IsNumerals(n, f) /\ Decimal(n) = f[n]
<1> DEFINE X == Seq(Digits)
           zero == <<lookup[1]>>
           p == [v \in 1..n |-> v \div 10]
           h == [v \in 1..n |-> [x \in X |->
                   IF v < 10 THEN <<lookup[v + 1]>> ELSE x \o <<lookup[(v % 10) + 1]>>]]
<1>1. Backwards(n, X, p, h)
  <2> SUFFICES ASSUME NEW v \in 1..n PROVE p[v] \in 0..(v - 1) /\ \A x \in X : h[v][x] \in X
    BY DEF Backwards
  <2>1. v \div 10 \in 0..(v - 1) /\ lookup[(v % 10) + 1] \in Digits
    BY Tens DEF Digits
  <2>2. v < 10 => lookup[v + 1] \in Digits
    BY DEF Digits
  <2> QED
    BY <2>1, <2>2
<1>2. zero \in X
  BY DEF Digits
<1>3. PICK f \in [0..n -> X] : Computed(n, zero, p, h, f)
  <2> HIDE DEF X, p, h, zero
  <2> QED
    BY <1>1, <1>2, Recursively
<1>4. ASSUME NEW v \in 1..n
      PROVE  f[v] = IF v < 10 THEN <<lookup[v + 1]>> ELSE f[v \div 10] \o <<lookup[(v % 10) + 1]>>
  <2>1. v \div 10 \in 0..n
    BY Tens
  <2>2. f[v \div 10] \in X
    BY <2>1
  <2>3. /\ v < 10 => h[v][f[v \div 10]] = <<lookup[v + 1]>>
        /\ ~(v < 10) => h[v][f[v \div 10]] = f[v \div 10] \o <<lookup[(v % 10) + 1]>>
    BY <2>2
  <2>4. f[v] = h[v][f[p[v]]] /\ p[v] = v \div 10
    <3> HIDE DEF h
    <3> QED
      BY <1>3 DEF Computed
  <2> HIDE DEF h, p
  <2>5. f[v] = h[v][f[v \div 10]]
    BY ONLY <2>4
  <2> QED
    BY ONLY <2>3, <2>5
<1>5. f[0] = <<lookup[0 + 1]>>
  BY <1>3 DEF Computed
<1>6. IsNumerals(n, f)
  <2>1. \A v \in 0..n :
          f[v] = IF v < 10 THEN <<lookup[v + 1]>> ELSE f[v \div 10] \o <<lookup[(v % 10) + 1]>>
    <3> TAKE v \in 0..n
    <3>1. CASE v = 0
      BY ONLY <1>5, <3>1
    <3>2. CASE v \in 1..n
      BY Zenon, <1>4, <3>2
    <3> QED
      BY <3>1, <3>2
  <2> QED
    BY <2>1 DEF IsNumerals
<1>7. Decimal(n) = (CHOOSE g : IsNumerals(n, g))[n]
  BY DEF Decimal, IsNumerals
<1> QED
  BY <1>6, <1>7, Zenon

(* Reversing a sequence puts its first element last.                       *)
LEMMA Reversed ==
  ASSUME NEW X, NEW d \in X, NEW s \in Seq(X)
  PROVE  /\ ece391_strrev(<<d>> \o s) = ece391_strrev(s) \o <<d>>
         /\ ece391_strrev(s) \in Seq(X)
<1>1. PICK n \in Nat : n = Len(s)
  OBVIOUS
<1> DEFINE a == <<d>> \o s
           b == ece391_strrev(s)
<1>2. /\ a \in Seq(X) /\ Len(a) = n + 1 /\ a[1] = d
      /\ \A i \in 1..n : a[i + 1] = s[i]
  BY <1>1
<1>3. b = [i \in 1..n |-> s[n + 1 - i]]
  BY <1>1 DEF ece391_strrev
<1>4. b \in Seq(X) /\ Len(b) = n
  BY <1>1, <1>3
<1>5. b \o <<d>> = [i \in 1..(n + 1) |-> IF i = n + 1 THEN d ELSE s[n + 1 - i]]
  <2>1. b \o <<d>> = [i \in 1..(n + 1) |-> IF i <= n THEN b[i] ELSE <<d>>[i - n]]
    BY <1>4
  <2>2. \A i \in 1..(n + 1) : (IF i <= n THEN b[i] ELSE <<d>>[i - n]) = IF i = n + 1 THEN d ELSE s[n + 1 - i]
    BY <1>3
  <2> HIDE DEF b
  <2> QED
    BY <2>1, <2>2
<1>6. ece391_strrev(a) = [i \in 1..(n + 1) |-> a[(n + 1) + 1 - i]]
  BY <1>2 DEF ece391_strrev
<1>7. \A i \in 1..(n + 1) : a[(n + 1) + 1 - i] = IF i = n + 1 THEN d ELSE s[n + 1 - i]
  <2> TAKE i \in 1..(n + 1)
  <2>1. CASE i = n + 1
    BY <1>2, <2>1
  <2>2. CASE i # n + 1
    <3>1. n + 1 - i \in 1..n /\ (n + 1) + 1 - i = (n + 1 - i) + 1
      BY <2>2
    <3> HIDE DEF a
    <3> QED
      BY <1>2, <2>2, <3>1
  <2> QED
    BY <2>1, <2>2
<1> QED
  <2> HIDE DEF a, b
  <2> QED
    BY <1>4, <1>5, <1>6, <1>7 DEF a, b

(* itoa prints a number as its decimal numeral.                            *)
LEMMA ItoaRight ==
  ASSUME NEW n \in Nat \ {0}
  PROVE  ece391_itoa(n, 10) = Decimal(n) /\ Decimal(n) \in Seq(Digits)
<1>1. PICK f : IsPlaces(n, f) /\ LowestFirst(n, 10) = f[n]
  BY PlacesAre
<1>2. PICK g : IsNumerals(n, g) /\ Decimal(n) = g[n]
  BY NumeralsAre
<1>3. \A v \in 0..n : f[v] = IF v = 0 THEN <<>> ELSE <<lookup[(v % 10) + 1]>> \o f[v \div 10]
  BY <1>1 DEF IsPlaces
<1>4. \A v \in 0..n : g[v] = IF v < 10 THEN <<lookup[v + 1]>> ELSE g[v \div 10] \o <<lookup[(v % 10) + 1]>>
  BY <1>2 DEF IsNumerals
<1> DEFINE Right(v) == f[v] \in Seq(Digits) /\ g[v] \in Seq(Digits) /\ ece391_strrev(f[v]) = g[v]
           T == {v \in Nat : v \in 1..n => Right(v)}
<1>5. ASSUME NEW v \in Nat, \A k \in 0..(v - 1) : k \in T PROVE v \in T
  <2> SUFFICES ASSUME v \in 1..n PROVE Right(v)
    OBVIOUS
  <2> DEFINE d == lookup[(v % 10) + 1]
  <2>1. d \in Digits /\ v \div 10 \in 0..(v - 1)
    BY Tens DEF Digits
  <2>2. v \in 0..n /\ v # 0
    OBVIOUS
  <2>3. f[v] = <<d>> \o f[v \div 10]
    BY Zenon, <1>3, <2>2
  <2>4. g[v] = IF v < 10 THEN <<lookup[v + 1]>> ELSE g[v \div 10] \o <<d>>
    BY Zenon, <1>4, <2>2
  <2>5. CASE v < 10
    <3>1. v \div 10 = 0 /\ v % 10 = v
      BY <2>5
    <3>2. f[v \div 10] = <<>>
      <4>1. 0 \in 0..n
        OBVIOUS
      <4> QED
        BY Zenon, <1>3, <3>1, <4>1
    <3>3. f[v] = <<d>>
      BY <2>1, <2>3, <3>2
    <3>4. g[v] = <<d>>
      BY Zenon, <2>4, <2>5, <3>1
    <3>5. ece391_strrev(<<d>>) = <<d>>
      BY DEF ece391_strrev
    <3> HIDE DEF d
    <3>6. <<d>> \in Seq(Digits)
      BY <2>1
    <3> QED
      BY <3>3, <3>4, <3>5, <3>6
  <2>6. CASE v >= 10
    <3>1. v \div 10 \in 1..n
      BY <2>6
    <3>2. Right(v \div 10)
      BY <1>5, <2>1, <3>1
    <3>3. g[v] = g[v \div 10] \o <<d>>
      <4>1. ~(v < 10)
        BY <2>6
      <4> QED
        BY Zenon, <2>4, <4>1
    <3> HIDE DEF d
    <3>4. PICK s \in Seq(Digits) : s = f[v \div 10]
      BY <3>2
    <3>5. PICK q \in Seq(Digits) : q = g[v \div 10] /\ ece391_strrev(s) = q
      BY <3>2, <3>4
    <3>6. ece391_strrev(<<d>> \o s) = ece391_strrev(s) \o <<d>>
      BY <2>1, Reversed
    <3>7. f[v] = <<d>> \o s /\ g[v] = q \o <<d>>
      BY Zenon, <2>3, <3>3, <3>4, <3>5
    <3>8. f[v] \in Seq(Digits) /\ g[v] \in Seq(Digits)
      BY <2>1, <3>7
    <3> QED
      BY Zenon, <3>5, <3>6, <3>7, <3>8
  <2> QED
    BY <2>5, <2>6
<1>6. Nat \subseteq T
  <2> HIDE DEF T
  <2> QED
    BY ONLY <1>5, Strongly
<1>7. Right(n)
  BY <1>6
<1> QED
  BY <1>1, <1>2, <1>7 DEF ece391_itoa

(* Concatenated, one sequence at a time.                                   *)
IsUpTo(seqs, f) == f = [k \in 0..Len(seqs) |-> IF k = 0 THEN <<>> ELSE f[k - 1] \o seqs[k]]

Joined(seqs, f) ==
  /\ Concatenated(seqs) = f[Len(seqs)] /\ f[0] = <<>>
  /\ \A k \in 1..Len(seqs) : f[k] = f[k - 1] \o seqs[k]

LEMMA UpToAre ==
  ASSUME NEW X, NEW seqs \in Seq(Seq(X))
  PROVE  \E f \in [0..Len(seqs) -> Seq(X)] : Joined(seqs, f)
<1>1. PICK n \in Nat : n = Len(seqs)
  OBVIOUS
<1> DEFINE Y == Seq(X)
           p == [v \in 1..n |-> v - 1]
           h == [v \in 1..n |-> [x \in Y |-> x \o seqs[v]]]
<1>2. \A v \in 1..n : seqs[v] \in Y
  BY <1>1
<1>3. Backwards(n, Y, p, h)
  BY <1>2 DEF Backwards
<1>4. <<>> \in Y
  OBVIOUS
<1>5. PICK f \in [0..n -> Y] : Computed(n, <<>>, p, h, f)
  <2> HIDE DEF Y, p, h
  <2> QED
    BY <1>3, <1>4, Recursively
<1>6. ASSUME NEW v \in 1..n PROVE f[v] = f[v - 1] \o seqs[v]
  <2>1. f[v - 1] \in Y
    OBVIOUS
  <2> QED
    BY <1>5, <2>1 DEF Computed
<1>7. f[0] = <<>>
  BY <1>5 DEF Computed
<1>8. IsUpTo(seqs, f)
  <2>1. \A v \in 0..n : f[v] = IF v = 0 THEN <<>> ELSE f[v - 1] \o seqs[v]
    <3> TAKE v \in 0..n
    <3>1. v = 0 \/ v \in 1..n
      OBVIOUS
    <3> QED
      BY ONLY <1>6, <1>7, <3>1
  <2> QED
    BY <1>1, <2>1 DEF IsUpTo
<1>9. PICK g : IsUpTo(seqs, g) /\ Concatenated(seqs) = g[n]
  <2>1. Concatenated(seqs) = (CHOOSE g : IsUpTo(seqs, g))[n]
    BY <1>1 DEF Concatenated, IsUpTo
  <2> QED
    BY <1>8, <2>1, Zenon
<1>10. \A v \in 0..n : g[v] = IF v = 0 THEN <<>> ELSE g[v - 1] \o seqs[v]
  BY <1>1, <1>9 DEF IsUpTo
<1> DEFINE S == {v \in Nat : v <= n => g[v] = f[v]}
<1>11. 0 \in S
  BY <1>7, <1>10
<1>12. ASSUME NEW v \in Nat, v \in S PROVE v + 1 \in S
  <2> SUFFICES ASSUME v + 1 <= n PROVE g[v + 1] = f[v + 1]
    OBVIOUS
  <2>1. v + 1 \in 1..n /\ v + 1 \in 0..n /\ v + 1 # 0 /\ (v + 1) - 1 = v /\ g[v] = f[v]
    BY <1>12
  <2>2. f[v + 1] = f[v] \o seqs[v + 1]
    BY <1>6, <2>1
  <2>3. g[v + 1] = g[(v + 1) - 1] \o seqs[v + 1]
    BY Zenon, <1>10, <2>1
  <2> QED
    BY Zenon, <2>1, <2>2, <2>3
<1>13. Nat \subseteq S
  <2> HIDE DEF S
  <2> QED
    BY ONLY <1>11, <1>12, ByInduction
<1>14. g[n] = f[n]
  BY <1>13
<1> QED
  BY <1>1, <1>6, <1>7, <1>9, <1>14 DEF Joined

(* t is the n sequences of s over X and one more.                          *)
Extends(X, n, s, t) ==
  /\ s \in [1..n -> Seq(X)] /\ t \in [1..(n + 1) -> Seq(X)]
  /\ \A k \in 1..n : t[k] = s[k]

(* One more sequence at the end.                                           *)
LEMMA ConcatenatedMore ==
  ASSUME NEW X, NEW n \in Nat, NEW s, NEW t, Extends(X, n, s, t)
  PROVE  Concatenated(t) = Concatenated(s) \o t[n + 1]
<1> USE DEF Extends
<1>1. s \in Seq(Seq(X)) /\ Len(s) = n /\ t \in Seq(Seq(X)) /\ Len(t) = n + 1
  OBVIOUS
<1>2. PICK f \in [0..n -> Seq(X)] :
        /\ Concatenated(s) = f[n] /\ f[0] = <<>>
        /\ \A k \in 1..n : f[k] = f[k - 1] \o s[k]
  <2>1. \E f \in [0..Len(s) -> Seq(X)] : Joined(s, f)
    BY <1>1, UpToAre
  <2> QED
    BY <1>1, <2>1 DEF Joined
<1>3. PICK g \in [0..(n + 1) -> Seq(X)] :
        /\ Concatenated(t) = g[n + 1] /\ g[0] = <<>>
        /\ \A k \in 1..(n + 1) : g[k] = g[k - 1] \o t[k]
  <2>1. \E h \in [0..Len(t) -> Seq(X)] : Joined(t, h)
    BY <1>1, UpToAre
  <2> QED
    BY <1>1, <2>1 DEF Joined
<1> DEFINE S == {v \in Nat : v <= n => g[v] = f[v]}
<1>4. 0 \in S
  BY <1>2, <1>3
<1>5. ASSUME NEW v \in Nat, v \in S PROVE v + 1 \in S
  <2> SUFFICES ASSUME v + 1 <= n PROVE g[v + 1] = f[v + 1]
    OBVIOUS
  <2>1. v + 1 \in 1..n /\ v + 1 \in 1..(n + 1) /\ (v + 1) - 1 = v /\ g[v] = f[v]
    BY <1>5
  <2>2. f[v + 1] = f[v] \o s[v + 1]
    BY <1>2, <2>1
  <2>3. g[v + 1] = g[v] \o t[v + 1]
    BY <1>3, <2>1
  <2>4. t[v + 1] = s[v + 1]
    BY <2>1
  <2> QED
    BY Zenon, <2>1, <2>2, <2>3, <2>4
<1>6. Nat \subseteq S
  <2> HIDE DEF S
  <2> QED
    BY ONLY <1>4, <1>5, ByInduction
<1>7. g[n] = f[n]
  BY <1>6
<1>8. n + 1 \in 1..(n + 1) /\ (n + 1) - 1 = n
  OBVIOUS
<1>9. g[n + 1] = g[n] \o t[n + 1]
  BY <1>3, <1>8
<1> QED
  BY Zenon, <1>2, <1>3, <1>7, <1>9

(* counter has printed the numbers up to i.                                *)
CountInv ==
  program = "counter" =>
    /\ pc = "start" => out = <<>>
    /\ pc = "count" => \E i \in Nat : \E max :
         /\ local = [i |-> i, max |-> max]
         /\ out = Concatenated([k \in 1..i |-> Decimal(k) \o <<NEWLINE>>])

(* The next number follows.                                                *)
LEMMA OneMoreLine ==
  ASSUME NEW i \in Nat
  PROVE  Concatenated([k \in 1..(i + 1) |-> Decimal(k) \o <<NEWLINE>>]) =
           Concatenated([k \in 1..i |-> Decimal(k) \o <<NEWLINE>>]) \o
             (ece391_itoa(i + 1, 10) \o <<NEWLINE>>)
<1> DEFINE Chars == Digits \cup {NEWLINE}
           line(k) == Decimal(k) \o <<NEWLINE>>
           before == [k \in 1..i |-> line(k)]
           after == [k \in 1..(i + 1) |-> line(k)]
<1>1. ASSUME NEW k \in Nat \ {0} PROVE line(k) \in Seq(Chars)
  <2>1. Decimal(k) \in Seq(Digits)
    BY ItoaRight
  <2>2. Decimal(k) \in Seq(Chars) /\ <<NEWLINE>> \in Seq(Chars)
    BY <2>1
  <2> QED
    BY <2>2
<1>2. ece391_itoa(i + 1, 10) \o <<NEWLINE>> = line(i + 1)
  <2>1. i + 1 \in Nat \ {0}
    OBVIOUS
  <2> QED
    BY Zenon, <2>1, ItoaRight
<1>3. before \in [1..i -> Seq(Chars)] /\ after \in [1..(i + 1) -> Seq(Chars)]
  <2> HIDE DEF line, Chars
  <2> QED
    BY <1>1
<1>4. (\A k \in 1..i : after[k] = before[k]) /\ after[i + 1] = line(i + 1)
  <2> HIDE DEF line
  <2> QED
    OBVIOUS
<1>5. Concatenated(after) = Concatenated(before) \o after[i + 1]
  <2> HIDE DEF before, after, Chars
  <2>1. Extends(Chars, i, before, after)
    BY <1>3, <1>4 DEF Extends
  <2>2. ASSUME NEW u, NEW v, Extends(Chars, i, u, v)
        PROVE  Concatenated(v) = Concatenated(u) \o v[i + 1]
    BY ZenonT(40), <2>2, ConcatenatedMore
  <2> QED
    BY <2>1, <2>2
<1> QED
  BY Zenon, <1>2, <1>4, <1>5

(* Nothing is printed before the first.                                    *)
LEMMA NoLines == Concatenated([k \in 1..0 |-> Decimal(k) \o <<NEWLINE>>]) = <<>>
<1> DEFINE s == [k \in 1..0 |-> Decimal(k) \o <<NEWLINE>>]
<1>1. s \in Seq(Seq(Digits)) /\ Len(s) = 0
  OBVIOUS
<1>2. PICK f \in [0..Len(s) -> Seq(Digits)] : Joined(s, f)
  <2> HIDE DEF s
  <2> QED
    BY <1>1, UpToAre
<1> HIDE DEF s
<1>3. Concatenated(s) = <<>>
  BY <1>1, <1>2 DEF Joined
<1> QED
  BY <1>3 DEF s

(* A step of counter.                                                      *)
LEMMA CounterKeeps == ASSUME CountInv, program = "counter", counter PROVE CountInv'
<1>1. CASE At("counter", "start")
  <2>1. out = <<>>
    BY <1>1 DEF CountInv, At
  <2>2. PICK line \in Typed :
          IF Len(line) > 1 \/ (Len(line) = 1 /\ line[1] \notin DOMAIN Maximum)
          THEN GiveUp("Wrong Choice!", 0)
          ELSE /\ Silent
               /\ Go("count", [i |-> 0, max |-> IF line = <<>> THEN 0 ELSE Maximum[line[1]]])
    BY Zenon, <1>1 DEF counter, At
  <2>3. CASE \E message : GiveUp(message, 0)
    BY <2>3 DEF GiveUp, Return, CountInv
  <2>4. ASSUME NEW max, Silent, Go("count", [i |-> 0, max |-> max]) PROVE CountInv'
    <3>1. pc' = "count" /\ local' = [i |-> 0, max |-> max] /\ out' = out
      BY <2>4 DEF Silent, Go
    <3>2. out' = Concatenated([k \in 1..0 |-> Decimal(k) \o <<NEWLINE>>])
      BY Zenon, <2>1, <3>1, NoLines
    <3>3. 0 \in Nat /\ pc' # "start"
      BY <3>1
    <3> QED
      BY Zenon, <3>1, <3>2, <3>3 DEF CountInv
  <2> QED
    BY Zenon, <2>2, <2>3, <2>4
<1>2. CASE At("counter", "count")
  <2>1. PICK i, max :
          /\ i \in Nat /\ local = [i |-> i, max |-> max]
          /\ out = Concatenated([k \in 1..i |-> Decimal(k) \o <<NEWLINE>>])
    BY Zenon, <1>2 DEF CountInv, At
  <2>2. local.i = i
    BY <2>1
  <2>3. IF local.i < local.max
        THEN /\ Say(ece391_itoa(local.i + 1, 10) \o <<NEWLINE>>)
             /\ Go("count", [local EXCEPT !.i = local.i + 1])
        ELSE Silent /\ Return(0)
    BY <1>2 DEF counter, At
  <2>4. CASE local.i < local.max
    <3>1. /\ out' = out \o (ece391_itoa(i + 1, 10) \o <<NEWLINE>>)
          /\ pc' = "count" /\ local' = [local EXCEPT !.i = i + 1]
      BY Zenon, <2>2, <2>3, <2>4 DEF Say, Go
    <3>2. out' = Concatenated([k \in 1..(i + 1) |-> Decimal(k) \o <<NEWLINE>>])
      BY Zenon, <2>1, <3>1, OneMoreLine
    <3>3. local' = [i |-> i + 1, max |-> max]
      BY <2>1, <3>1
    <3>4. i + 1 \in Nat /\ pc' = "count" /\ pc' # "start"
      BY <2>1, <3>1
    <3> QED
      BY Zenon, <3>2, <3>3, <3>4 DEF CountInv
  <2>5. CASE ~(local.i < local.max)
    BY <2>3, <2>5 DEF Silent, Return, CountInv
  <2> QED
    BY <2>4, <2>5
<1> QED
  BY <1>1, <1>2 DEF counter

(* counter prints the numerals of 1, 2, ... in order and nothing else, up  *)
(* to any number.                                                          *)
THEOREM CountsUpAlways == UserSpec => []CountsUp
<1>1. UserInit => CountInv
  BY DEF UserInit, CountInv
<1>2. CountInv /\ [UserNext]_userVars => CountInv'
  <2> SUFFICES ASSUME CountInv, [UserNext]_userVars PROVE CountInv'
    OBVIOUS
  <2>1. CASE Step
    BY <2>1, StepRuns, CounterKeeps DEF CountInv
  <2>2. CASE Exec
    BY <2>2 DEF Exec, Executed, CountInv
  <2>3. CASE UNCHANGED userVars
    BY <2>3 DEF userVars, process, CountInv
  <2> QED
    BY <2>1, <2>2, <2>3 DEF UserNext
<1>3. CountInv => CountsUp
  <2> SUFFICES ASSUME CountInv, program = "counter", pc = "count"
               PROVE  out = Concatenated([k \in 1..local.i |-> Decimal(k) \o <<NEWLINE>>])
    BY DEF CountsUp
  <2>1. PICK i, max :
          /\ i \in Nat /\ local = [i |-> i, max |-> max]
          /\ out = Concatenated([k \in 1..i |-> Decimal(k) \o <<NEWLINE>>])
    BY Zenon DEF CountInv
  <2>2. local.i = i
    BY <2>1
  <2> QED
    BY Zenon, <2>1, <2>2
<1> QED
  BY <1>1, <1>2, <1>3, PTL DEF UserSpec
=============================================================================
