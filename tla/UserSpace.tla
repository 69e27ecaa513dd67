----------------------------- MODULE UserSpace -----------------------------
(***************************************************************************)
(* What the user programs share: the process that runs one of them over    *)
(* FileSystem, the calls FileSystem leaves out (getargs, vidmap, the       *)
(* keyboard and the screen as a program sees them) and the string library  *)
(* of ece391support.c.                                                     *)
(*                                                                         *)
(* A program only meets the kernel at its system calls, so one action is   *)
(* one system call and the computation up to the next; the output calls    *)
(* that follow, which cannot fail, belong to the same action.  A message   *)
(* or a file name is one token of the output, a byte of a file a           *)
(* character.                                                              *)
(***************************************************************************)
EXTENDS FileSystem

CONSTANTS
  image,         \* the characters: <<data block, offset>> -> character
  Typed,         \* lines typed at a program's prompt, without the newline
  BUFSIZE        \* the programs' buffers (1024)

VARIABLES
  program,       \* the program that runs
  args,          \* the args of its PCB
  pc,            \* its next system call
  local,         \* its local variables
  out,           \* what it has written to the screen
  status         \* what it returned

files == <<fileArray, retval, got>>
process == <<program, args, pc, local, out, status>>

NEWLINE == "\n"
NUL == "NUL"
SBUFSIZE == 33

At(name, label) == program = name /\ pc = label

(* Continue with the call label, with local variables l; or return.        *)
Go(label, l) == pc' = label /\ local' = l /\ UNCHANGED <<program, args, status>>
Return(code) == pc' = "done" /\ status' = code /\ UNCHANGED <<program, args, local>>

Say(tokens) == out' = out \o tokens
Silent == UNCHANGED out

(* ece391_fdputs of a message, then return.                                *)
GiveUp(message, code) == Say(<<message>>) /\ Return(code)

(* The characters, or the name, that the read in this step delivered.      *)
Delivered(fd) ==
  LET new == SubSeq(got'[fd], Len(got[fd]) + 1, Len(got'[fd]))
  IN  IF fileArray[fd].type = REG_FILE THEN [i \in DOMAIN new |-> image[new[i]]] ELSE new
-----------------------------------------------------------------------------
(* getargs fails when there are none.  Its loop tests the pointer, not the *)
(* character, and copies nbytes bytes always: the string ends at its NUL.  *)
getargs_fails == args = ""

USR_LOW_BOUND == 134217728
FOURMB == 4194304

UnboundedBelow(screen_start) == screen_start = 0 \/ screen_start > USR_LOW_BOUND + FOURMB

(* vidmap's tests on its argument (what it maps is in Memory).             *)
vidmap_fails(screen_start) ==
  screen_start = 0 \/ screen_start < USR_LOW_BOUND \/ screen_start > USR_LOW_BOUND + FOURMB

(* system_calls_linkage compares the number in eax as an unsigned one.     *)
BadNumber(num) == num = 0 \/ num < 0 \/ num >= 11
-----------------------------------------------------------------------------
(* ece391support.c, on arrays indexed from 0.                              *)

Smallest(S) == CHOOSE x \in S : \A y \in S : x <= y

(* The place of the NUL at or after from.                                  *)
EndOfString(data, from) == Smallest({i \in DOMAIN data : i >= from /\ data[i] = NUL})

ece391_strlen(data, from) == EndOfString(data, from) - from

ece391_strcpy(data, from) ==
  [i \in DOMAIN data |-> IF i <= ece391_strlen(data, from) THEN data[from + i] ELSE data[i]]

(* 0 == ece391_strncmp(data + from, s, strlen(s)), for s not empty: the    *)
(* NUL after data + from is not a character of s.                          *)
ece391_strncmp(data, from, s) ==
  /\ Len(s) <= ece391_strlen(data, from)
  /\ \A k \in DOMAIN s : data[from + k - 1] = s[k]

StringAt(data, from) == [i \in 1..ece391_strlen(data, from) |-> data[from + i - 1]]

ece391_strrev(s) == [i \in 1..Len(s) |-> s[Len(s) + 1 - i]]

lookup == <<"0", "1", "2", "3", "4", "5", "6", "7", "8", "9">>

(* The digits from the lowest place up, then reversed.                     *)
LowestFirst(value, radix) ==
  LET places[v \in 0..value] ==
        IF v = 0 THEN <<>> ELSE <<lookup[(v % radix) + 1]>> \o places[v \div radix]
  IN  places[value]

NotReversed(value, radix) == LowestFirst(value, radix)
ece391_itoa(value, radix) ==
  IF value = 0 THEN <<lookup[1]>> ELSE ece391_strrev(LowestFirst(value, radix))
-----------------------------------------------------------------------------
(* What the properties compare with: the text of a file as the image has   *)
(* it, its lines, and the names in the directory.                          *)
Inode(name) == dentry[CHOOSE i \in Found(name) : TRUE].idx_inode
Type(name) == dentry[CHOOSE i \in Found(name) : TRUE].filetype

Text(name) ==
  IF Type(name) # REG_FILE THEN <<>>
  ELSE [i \in 1..inodes[Inode(name)].length |-> image[Byte(Inode(name), i - 1)]]

Directory == [i \in 1..num_dir |-> dentry[i - 1].filename]

(* Line k is what lies between the newlines number k - 1 and k, the end of *)
(* the text counting as one.                                               *)
LinesOf(text) ==
  LET ends == {i \in DOMAIN text : text[i] = NEWLINE} \cup {Len(text) + 1}
      at == [k \in 1..Cardinality(ends) |->
               CHOOSE i \in ends : Cardinality({j \in ends : j <= i}) = k]
      from(k) == IF k = 1 THEN 1 ELSE at[k - 1] + 1
  IN  [k \in DOMAIN at |-> SubSeq(text, from(k), at[k] - 1)]
=============================================================================
