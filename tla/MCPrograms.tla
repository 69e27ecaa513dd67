----------------------------- MODULE MCPrograms -----------------------------
(***************************************************************************)
(* Userland for TLC, with blocks of 2 characters and buffers of 3.  The    *)
(* image has every text up to length 5 over a letter and the newline, so   *)
(* lines end everywhere around the ends of blocks and of buffers and some  *)
(* are longer than a buffer; one with a string across the end of a buffer; *)
(* and two frames that differ in the lengths and the number of their lines *)
(* and in how they end.                                                    *)
(***************************************************************************)
EXTENDS Userland, TLC

(* Text number m: its characters are the bits of m below the highest one.  *)
Numbered(m) ==
  [i \in 1..(CHOOSE n \in 0..6 : 2^n <= m /\ m < 2^(n + 1)) |->
     IF (m \div 2^(i - 1)) % 2 = 0 THEN "a" ELSE "\n"]

AllTexts == [m \in 1..63 |-> Numbered(m)]

Across == <<"b", "b", "a", "a">>

Frames == << <<"f", " ", "s", "\n", " ", "i", "\n", "h", "\n">>, <<"f", "\n", "\n", " ", "x">> >>

Texts == Frames \o AllTexts \o <<Across>>

FileNames == [i \in DOMAIN Texts |-> IF i <= 2 THEN Frame(i - 1) ELSE ToString(i)]

Entry(name, type, inode) == [filename |-> name, filetype |-> type, idx_inode |-> inode]

MCdentry ==
  LET names == FileNames
      files_ == [i \in DOMAIN names |-> Entry(names[i], REG_FILE, i)]
      entries == <<Entry(".", DIR_FILE, 0), Entry("rtc", RTC_FILE, 0)>> \o files_ \o
                 <<Entry("", RTC_FILE, 0)>>
  IN  [i \in 0..(Len(entries) - 1) |-> entries[i + 1]]

(* The blocks of a file are in no order.                                   *)
BlockOf(i, k) == 5 * i + ((k + 2) % 5)

InodesOf(texts) ==
  [i \in 0..Len(texts) |->
     IF i = 0 THEN [length |-> 0, dblocks |-> [k \in 0..5 |-> 0]]
     ELSE [length  |-> Len(texts[i]),
           dblocks |-> [k \in 0..5 |-> IF k * FS_BLOCK < Len(texts[i]) THEN BlockOf(i, k) ELSE 0]]]

(* The character at each place: block b belongs to file i, character j on. *)
ImageOf(texts) ==
  [p \in (0..(5 * Len(texts) + 4)) \X (0..(FS_BLOCK - 1)) |->
     LET i == p[1] \div 5
         j == ((p[1] + 3) % 5) * FS_BLOCK + p[2] + 1
     IN  IF i \in DOMAIN texts /\ j \in DOMAIN texts[i] THEN texts[i][j] ELSE NUL]

MCinodes == InodesOf(Texts)
MCimage == ImageOf(Texts)

MCLetters == "a" :> <<"a">> @@ "aa" :> <<"a", "a">>

MCTyped == { <<>>, <<"0">>, <<"1">>, <<"7">>, <<"h", "i">>, <<"e", "x", "i", "t">> }
MCMaximum == "0" :> 12 @@ "1" :> 101 @@ "2" :> 2

MCCommands ==
  {<<"cat", name>> : name \in Range(FileNames) \cup {"", ".", "rtc", "absent"}} \cup
  {<<"grep", s>> : s \in DOMAIN MCLetters \cup {""}} \cup
  {"ls", "hello", "testprint", "counter", "pingpong", "shell", "syserr", "fish"} \X {""}

GrepOnly == {<<"grep", "a">>}

AB == <<"A", "B">>
AnyByte == {"?", "\n"}
NoStructs == {}
HiddenNames == {"."}
=============================================================================
