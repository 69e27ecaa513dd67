-------------------------------- MODULE Fish --------------------------------
(***************************************************************************)
(* fish.c: a picture of two frames, read from two files a character at a   *)
(* time, that blinks at the rate of the clock.                             *)
(***************************************************************************)
EXTENDS UserSpace, Blink

CONSTANTS
  WAIT,          \* ticks between two changes of the picture (100)
  Mark           \* the place of the mark (6*80+60)

offset == Columns \div 2

Struct(location, on, off, on_length, off_length) ==
  [Zero EXCEPT !.location = location, !.on_char = on, !.off_char = off,
               !.on_length = on_length, !.off_length = off_length]

(* main, up to add_frames: memset, vidmap and the open of the clock.       *)
Start ==
  /\ At("fish", "start")
  /\ open("rtc")
  /\ Silent
  /\ Go("open0", [rtc |-> retval', fd |-> [f \in {0, 1} |-> 0], c |-> [f \in {0, 1} |-> "0"],
                  eof |-> [f \in {0, 1} |-> 0], row |-> 0, col |-> 0, i |-> 0, stage |-> 1])
  /\ UNCHANGED blinkVars

Frame(f) == IF f = 0 THEN "frame0.txt" ELSE "frame1.txt"

OpenFrame(f, label, next) ==
  /\ At("fish", label)
  /\ open(Frame(f))
  /\ Silent
  /\ IF retval' < 0 THEN Return(-1) ELSE Go(next, [local EXCEPT !.fd[f] = retval'])
  /\ UNCHANGED blinkVars

(* The next character of a frame, unless its line has ended.               *)
ReadChar(f, label, next) ==
  /\ At("fish", label)
  /\ Silent
  /\ \/ /\ local.c[f] = NEWLINE
        /\ Go(next, local)
        /\ UNCHANGED files
     \/ /\ local.c[f] # NEWLINE
        /\ read(local.fd[f], 1)
        /\ Go(next, IF retval' = 0 THEN [local EXCEPT !.c[f] = NEWLINE, !.eof[f] = 1]
                    ELSE [local EXCEPT !.c[f] = Delivered(local.fd[f])[1]])
  /\ UNCHANGED blinkVars

Unpadded(f) == local.c[f]

(* A line that has ended goes on with blanks while the other one does not. *)
Padded(f) == IF local.c[f] = NEWLINE THEN " " ELSE local.c[f]
BothEnded == \A f \in {0, 1} : local.c[f] = NEWLINE

Place == local.row * Columns + local.col + offset

(* A blink where either frame has a character that is not blank.           *)
PlaceChar ==
  /\ At("fish", "place")
  /\ ~BothEnded
  /\ Silent
  /\ Go("read0", [local EXCEPT !.col = @ + 1])
  /\ IF Padded(0) # " " \/ Padded(1) # " "
     THEN mp1_ioctl_add(Struct(Place, Padded(0), Padded(1), 15 % Short, 15 % Short))
     ELSE UNCHANGED blinkVars
  /\ UNCHANGED files

NextLine(f) == IF local.eof[f] = 1 THEN NEWLINE ELSE "0"

(* Both lines have ended: close the files that have (again, if they were   *)
(* closed a row ago) and go on with the next row.                          *)
EndRow(f, label, next) ==
  /\ At("fish", label)
  /\ label = "place" => BothEnded
  /\ Silent
  /\ IF local.eof[f] = 1 THEN close(local.fd[f]) ELSE UNCHANGED files
  /\ Go(IF f = 0 THEN next ELSE IF local.eof = [g \in {0, 1} |-> 1] THEN "rate" ELSE "read0",
        [local EXCEPT !.c[f] = NextLine(f), !.col = 0, !.row = IF f = 0 THEN @ ELSE @ + 1])
  /\ UNCHANGED blinkVars

add_frames ==
  \/ OpenFrame(0, "open0", "open1") \/ OpenFrame(1, "open1", "read0")
  \/ ReadChar(0, "read0", "read1") \/ ReadChar(1, "read1", "place")
  \/ PlaceChar
  \/ EndRow(0, "place", "end1") \/ EndRow(1, "end1", "read0")

SetRate ==
  /\ At("fish", "rate")
  /\ write(local.rtc)
  /\ Silent
  /\ Go("wait", local)
  /\ UNCHANGED blinkVars

(* WAIT times: a tick of the clock, then the tasklet.                      *)
Wait ==
  /\ At("fish", "wait")
  /\ local.i < WAIT
  /\ read(local.rtc, 4)
  /\ Silent
  /\ Go("wait", [local EXCEPT !.i = @ + 1])
  /\ mp1_rtc_tasklet

(* Between the loops: add the mark, synchronise it with the first          *)
(* character of the picture, remove it, and close the clock.               *)
Change ==
  /\ At("fish", "wait")
  /\ local.i = WAIT
  /\ Silent
  /\ CASE local.stage = 1 -> mp1_ioctl_add(Struct(Mark, "I", "M", 7 % Short, 6 % Short))
       [] local.stage = 2 -> mp1_ioctl_sync(offset, Mark)
       [] local.stage = 3 -> mp1_ioctl_remove(Mark)
       [] local.stage = 4 -> UNCHANGED blinkVars
  /\ IF local.stage < 4
     THEN Go("wait", [local EXCEPT !.i = 0, !.stage = @ + 1]) /\ UNCHANGED files
     ELSE Return(0) /\ close(local.rtc)

fish == Start \/ add_frames \/ SetRate \/ Wait \/ Change
-----------------------------------------------------------------------------
(* What a frame has at a row and column, blank past the end of the line.   *)
CharAt(f, row, col) ==
  LET lines == LinesOf(Text(Frame(f)))
  IN  IF row + 1 \in DOMAIN lines /\ col + 1 \in DOMAIN lines[row + 1]
      THEN lines[row + 1][col + 1] ELSE " "

(* add_frames reads both files in step although their lines and their ends *)
(* differ: the blinks are the places where either frame has a character,   *)
(* with the characters of both.  And the mark, once removed, takes none of *)
(* them with it.                                                           *)
PictureComplete ==
  program = "fish" /\ pc \in {"rate", "done"} /\ status # -1 =>
    {<<blink_array[c].location, blink_array[c].on_char, blink_array[c].off_char>> :
       c \in Range(List)} =
    {<<p[1] * Columns + p[2] + offset, CharAt(0, p[1], p[2]), CharAt(1, p[1], p[2])>> :
       p \in {q \in (0..(Rows - 1)) \X (0..(offset - 1)) :
               CharAt(0, q[1], q[2]) # " " \/ CharAt(1, q[1], q[2]) # " "}}
=============================================================================
