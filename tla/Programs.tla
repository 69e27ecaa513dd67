------------------------------ MODULE Programs ------------------------------
(***************************************************************************)
(* The user programs of syscalls/: cat, ls, grep, hello, testprint,        *)
(* counter, pingpong and shell.                                            *)
(***************************************************************************)
EXTENDS UserSpace

CONSTANTS
  Dotted,        \* the file names that begin with '.'
  Garbage,       \* what the stack holds where grep has its buffer
  Maximum,       \* counter's choices: digit typed -> how far it counts
  Letters,       \* argument of grep -> its characters
  SCREENWIDTH,   \* of pingpong's line (79)
  Balls          \* pingpong's characters in order ('A' to 'Z')

BLANK == " "

ASSUME ProgramsAssumption ==
  /\ SCREENWIDTH \in Nat /\ SCREENWIDTH >= 4
  /\ Balls \in Seq(STRING) /\ Balls # <<>>
  /\ \A k \in DOMAIN Balls : Balls[k] \notin {"|", BLANK, NEWLINE}

cat ==
  \/ /\ At("cat", "start")
     /\ IF getargs_fails THEN GiveUp("could not read arguments", 3)
        ELSE Silent /\ Go("open", local)
     /\ UNCHANGED files
  \/ /\ At("cat", "open")
     /\ open(args)
     /\ IF retval' = -1 THEN GiveUp("file not found", 2)
        ELSE Silent /\ Go("read", [fd |-> retval'])
  \/ /\ At("cat", "read")
     /\ read(local.fd, BUFSIZE)
     /\ CASE retval' = 0  -> Silent /\ Return(0)
          [] retval' = -1 -> GiveUp("file read failed", 3)
          [] OTHER        -> Say(Delivered(local.fd)) /\ Go("read", local)

ls ==
  \/ /\ At("ls", "start")
     /\ open(".")
     /\ IF retval' = -1 THEN GiveUp("directory open failed", 2)
        ELSE Silent /\ Go("read", [fd |-> retval'])
  \/ /\ At("ls", "read")
     /\ read(local.fd, SBUFSIZE - 1)
     /\ CASE retval' = 0  -> Silent /\ Return(0)
          [] retval' = -1 -> GiveUp("directory entry read failed", 3)
          [] OTHER        -> Say(Delivered(local.fd) \o <<NEWLINE>>) /\ Go("read", local)
-----------------------------------------------------------------------------
(* do_one_file of grep: open the file and start with an empty buffer, data *)
(* being what the stack held.                                              *)
OneFileOpen ==
  /\ At("grep", "open")
  /\ open(local.fname)
  /\ IF retval' = -1 THEN GiveUp("file open failed", 3)
     ELSE /\ Silent
          /\ Go("fill", [local EXCEPT !.fd = retval', !.last = 0,
                                      !.data = [i \in 0..BUFSIZE |-> local.stale]])

(* Fill the buffer up behind the line that was kept.                       *)
OneFileFill ==
  /\ At("grep", "fill")
  /\ read(local.fd, BUFSIZE - local.last)
  /\ IF retval' = -1 THEN GiveUp("file read failed", 3)
     ELSE /\ Silent
          /\ Go("line", [local EXCEPT
               !.cnt = retval', !.last = @ + retval', !.line_start = 0,
               !.data = [i \in 0..BUFSIZE |->
                           IF i - local.last \in 0..(retval' - 1)
                           THEN Delivered(local.fd)[i - local.last + 1] ELSE @[i]]])

LineEnd ==
  Smallest({i \in local.line_start..local.last : i = local.last \/ local.data[i] = NEWLINE})

OnlyOnError == local.cnt = -1

(* The last read got nothing: the end of the file.                         *)
EndOfFile == local.cnt = 0

SearchesThePart == FALSE

(* Is the line at line_start cut off by the end of the buffer?  At the end *)
(* of the buffer this looks at the byte after the ones that were read.     *)
CutOff == local.data[LineEnd] # NEWLINE /\ ~EndOfFile /\ local.line_start # 0

Terminated == [local.data EXCEPT ![LineEnd] = NUL]

(* Copy the rest of the buffer down to its start.                          *)
OneFileKeep ==
  /\ At("grep", "line")
  /\ CutOff
  /\ Silent
  /\ Go("fill", [local EXCEPT !.data = ece391_strcpy(Terminated, local.line_start),
                              !.last = @ - local.line_start])
  /\ UNCHANGED files

Matches ==
  \E check \in local.line_start..(LineEnd - 1) :
    ece391_strncmp(Terminated, check, local.search)

(* Search the line, and go on after it.                                    *)
OneFileSearch ==
  /\ At("grep", "line")
  /\ ~CutOff
  /\ IF Matches
     THEN Say(<<local.fname, ":">> \o StringAt(Terminated, local.line_start) \o <<NEWLINE>>)
     ELSE Silent
  /\ IF LineEnd + 1 >= local.last
     THEN Go(IF EndOfFile THEN "close" ELSE "fill",
             [local EXCEPT !.data = Terminated, !.last = 0])
     ELSE Go("line", [local EXCEPT !.data = Terminated, !.line_start = LineEnd + 1])
  /\ UNCHANGED files

OneFileClose ==
  /\ At("grep", "close")
  /\ close(local.fd)
  /\ IF retval' = -1 THEN GiveUp("file close failed", 3)
     ELSE Silent /\ Go("dir", [local EXCEPT !.data = <<>>])

GrepStart ==
  \/ /\ At("grep", "start")
     /\ IF getargs_fails THEN GiveUp("could not read argument", 3)
        ELSE Silent /\ Go("opendir", local)
     /\ UNCHANGED files
  \/ /\ At("grep", "opendir")
     /\ open(".")
     /\ IF retval' = -1 THEN GiveUp("directory open failed", 2)
        ELSE /\ Silent
             /\ \E stale \in Garbage :
                  Go("dir", [dir |-> retval', fname |-> "", search |-> Letters[args], fd |-> 0,
                             cnt |-> 0, last |-> 0, line_start |-> 0, data |-> <<>>,
                             stale |-> stale])

GrepDirectory ==
  /\ At("grep", "dir")
  /\ read(local.dir, SBUFSIZE - 1)
  /\ CASE retval' = 0  -> Silent /\ Return(0)
       [] retval' = -1 -> GiveUp("directory entry read failed", 3)
       [] OTHER -> LET fname == Delivered(local.dir)[1]
                   IN  /\ Silent
                       /\ IF fname \in Dotted THEN Go("dir", local)
                          ELSE Go("open", [local EXCEPT !.fname = fname])

grep ==
  \/ GrepStart \/ GrepDirectory
  \/ OneFileOpen \/ OneFileFill \/ OneFileKeep \/ OneFileSearch \/ OneFileClose
-----------------------------------------------------------------------------
(* A read of the keyboard gives a line and its newline (see Keyboard).     *)
hello ==
  /\ At("hello", "start")
  /\ \E line \in Typed : Say(<<"Hi, what's your name? ", "Hello, ">> \o line \o <<NEWLINE>>)
  /\ Return(0)
  /\ UNCHANGED files

testprint ==
  /\ At("testprint", "start")
  /\ GiveUp("Hello, if this ran, the program was correct. Yay!", 0)
  /\ UNCHANGED files

(* counter: one digit out of 0..2, a lone newline (which counts to 0) or   *)
(* a wrong choice; then a number a line.                                   *)
counter ==
  \/ /\ At("counter", "start")
     /\ \E line \in Typed :
          IF Len(line) > 1 \/ (Len(line) = 1 /\ line[1] \notin DOMAIN Maximum)
          THEN GiveUp("Wrong Choice!", 0)
          ELSE /\ Silent
               /\ Go("count", [i |-> 0, max |-> IF line = <<>> THEN 0 ELSE Maximum[line[1]]])
     /\ UNCHANGED files
  \/ /\ At("counter", "count")
     /\ IF local.i < local.max
        THEN /\ Say(ece391_itoa(local.i + 1, 10) \o <<NEWLINE>>)
             /\ Go("count", [local EXCEPT !.i = @ + 1])
        ELSE Silent /\ Return(0)
     /\ UNCHANGED files

BUFMAX == SCREENWIDTH + 2
START == 1
STARTLOOP == START + 1
LOOPMAX == BUFMAX - 2 - 1

(* The empty world between its walls, as an array from 0.                  *)
World ==
  [i \in 0..(BUFMAX - 2) |-> CASE i \in {START, BUFMAX - 3} -> "|"
                               [] i = BUFMAX - 2            -> NEWLINE
                               [] OTHER                     -> BLANK]

Drawn ==
  [i \in DOMAIN World |->
     IF i \notin STARTLOOP..(LOOPMAX - 1) THEN World[i]
     ELSE IF i = local.j THEN Balls[local.curchar] ELSE BLANK]

BouncesLate ==
  IF local.step = 1 /\ local.j <= LOOPMAX THEN [local EXCEPT !.j = @ + 1]
  ELSE [local EXCEPT !.j = LOOPMAX - 1, !.step = -1]

(* The loops of pingpong: out, back, and the next character.               *)
Moved ==
  CASE local.step = 1 /\ local.j + 1 < LOOPMAX    -> [local EXCEPT !.j = @ + 1]
    [] local.step = 1 /\ local.j + 1 >= LOOPMAX   -> [local EXCEPT !.j = LOOPMAX - 1, !.step = -1]
    [] local.step = -1 /\ local.j - 1 >= STARTLOOP -> [local EXCEPT !.j = @ - 1]
    [] OTHER -> [local EXCEPT !.j = STARTLOOP, !.step = 1,
                              !.curchar = IF @ = Len(Balls) THEN 1 ELSE @ + 1]

(* A line (only the last one is kept), then a tick of the clock.           *)
pingpong ==
  \/ /\ At("pingpong", "start")
     /\ open("rtc")
     /\ Silent
     /\ Go("rate", [fd |-> retval', j |-> STARTLOOP, step |-> 1, curchar |-> 1])
  \/ /\ At("pingpong", "rate")
     /\ write(local.fd)
     /\ Silent
     /\ Go("draw", local)
  \/ /\ At("pingpong", "draw")
     /\ out' = [i \in 1..(BUFMAX - 1) |-> Drawn[i - 1]]
     /\ read(local.fd, 4)
     /\ Go("draw", Moved)

(* What execute returned to the shell, and what it prints (execute, halt   *)
(* and the child are in Kernel).                                           *)
Report(rval) ==
  CASE rval = -1  -> <<"no such command">>
    [] rval = 256 -> <<"program terminated by exception">>
    [] rval = 0   -> <<>>
    [] OTHER      -> ece391_itoa(rval, 10) \o <<"program terminated abnormally">>

shell ==
  \/ /\ At("shell", "start")
     /\ Say(<<"Starting 391 Shell">>)
     /\ Go("prompt", local)
     /\ UNCHANGED files
  \/ /\ At("shell", "prompt")
     /\ \E line \in Typed :
          CASE line = <<"e", "x", "i", "t">> -> Say(<<"391OS> ">>) /\ Return(0)
            [] line = <<>>                   -> out' = <<"391OS> ">> /\ Go("prompt", local)
            [] OTHER -> \E rval \in {-1, 0, 3, 256} :
                          out' = <<"391OS> ">> \o Report(rval) /\ Go("prompt", local)
     /\ UNCHANGED files
-----------------------------------------------------------------------------
Concatenated(seqs) ==
  LET upTo[k \in 0..Len(seqs)] == IF k = 0 THEN <<>> ELSE upTo[k - 1] \o seqs[k]
  IN  upTo[Len(seqs)]

Has(line, s) ==
  \E i \in 1..(Len(line) - Len(s) + 1) : SubSeq(line, i, i + Len(s) - 1) = s

(* The lines with s in them, as grep prints them.                          *)
Hits(name, lines, s) ==
  LET hits == SelectSeq(lines, LAMBDA line : Has(line, s))
  IN  Concatenated([k \in DOMAIN hits |-> <<name, ":">> \o hits[k] \o <<NEWLINE>>])

(* A line from its start, BUFSIZE characters at a time.                    *)
PiecesOf(line) ==
  [k \in 1..((Len(line) - 1) \div BUFSIZE + 1) |->
     SubSeq(line, (k - 1) * BUFSIZE + 1, Smallest({k * BUFSIZE, Len(line)}))]

WholeLines(name) == LinesOf(Text(name))

(* What grep takes for lines: those of the file, the ones longer than its  *)
(* buffer cut into pieces.                                                 *)
BufferLines(name) ==
  LET lines == LinesOf(Text(name))
  IN  Concatenated([k \in DOMAIN lines |-> PiecesOf(lines[k])])

(* cat "." shows the names; cat of the clock waits for one tick and shows  *)
(* nothing.                                                                *)
CatShows ==
  IF args = "" THEN <<"could not read arguments">>
  ELSE IF Openable(args) = {} THEN <<"file not found">>
  ELSE IF Type(args) = DIR_FILE THEN Directory ELSE Text(args)

LsShows ==
  [i \in 1..(2 * num_dir) |-> IF i % 2 = 1 THEN Directory[(i + 1) \div 2] ELSE NEWLINE]

GrepOver(Lines(_)) ==
  IF args = "" THEN <<"could not read argument">>
  ELSE Concatenated([i \in DOMAIN Directory |->
         IF Directory[i] \in Dotted THEN <<>>
         ELSE Hits(Directory[i], Lines(Directory[i]), Letters[args])])

GrepShows == GrepOver(BufferLines)

CatLsRight ==
  pc = "done" => (program = "cat" => out = CatShows) /\ (program = "ls" => out = LsShows)

NothingStale == args = "" \/ local.stale # NEWLINE

(* Whatever the size of a file, of its blocks and of the buffer, cat       *)
(* prints the whole file and ls the whole directory, nothing twice; and    *)
(* grep prints exactly the lines that have the string in them, also those  *)
(* it meets cut in two by the end of its buffer, where a line longer than  *)
(* the buffer counts as several; unless the byte after the buffer, which   *)
(* it looks at and nobody wrote, is a newline.                             *)
OutputRight ==
  /\ CatLsRight
  /\ program = "grep" /\ pc = "done" /\ NothingStale => out = GrepShows

(* The same whatever byte is after the buffer.                             *)
GrepRight == program = "grep" /\ pc = "done" => out = GrepShows

(* grep prints every line that has the string in it, however long it is,   *)
(* and prints it whole.                                                    *)
GrepWhole ==
  program = "grep" /\ pc = "done" /\ NothingStale => out = GrepOver(WholeLines)

(* The decimal numeral of a number: that of its tens, then its last digit. *)
Decimal(number) ==
  LET numeral[n \in 0..number] ==
        IF n < 10 THEN <<lookup[n + 1]>> ELSE numeral[n \div 10] \o <<lookup[(n % 10) + 1]>>
  IN  numeral[number]

(* counter prints 1, 2, ... up to its choice, one numeral a line and       *)
(* nothing else: itoa's digits come out backwards and strrev turns them.   *)
CountsUp ==
  program = "counter" /\ pc = "count" =>
    out = Concatenated([k \in 1..local.i |-> Decimal(k) \o <<NEWLINE>>])

(* pingpong's ball is always between two walls that stand still, and goes  *)
(* no further than to the next column in a tick, also where it turns and   *)
(* where it changes its character.                                         *)
BallInside ==
  [][program = "pingpong" /\ out' # <<>> =>
       LET ball(line) == {i \in DOMAIN line : line[i] \in Range(Balls)}
           wall(line) == {i \in DOMAIN line : line[i] = "|"}
       IN  /\ \E w, v \in wall(out'), b \in ball(out') :
                wall(out') = {w, v} /\ ball(out') = {b} /\ w < b /\ b < v
           /\ out # <<>> =>
                /\ wall(out') = wall(out)
                /\ \A b \in ball(out), c \in ball(out') : c - b \in -1..1]_process

(* Every program but the shell and pingpong ends, whatever it is given:    *)
(* the loops over read all meet the 0 that ends a file or a directory.     *)
ProgramEnds == pc # "done" /\ program \notin {"shell", "pingpong"} ~> pc = "done"
=============================================================================
