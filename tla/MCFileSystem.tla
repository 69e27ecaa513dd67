---------------------------- MODULE MCFileSystem ----------------------------
(***************************************************************************)
(* FileSystem for TLC, with blocks of 2 bytes.  The image has the shapes   *)
(* found in filesys_img: "." and rtc on inode 0, data blocks in no order,  *)
(* zeros after a file's last block number, and a blank entry after the     *)
(* last; and files that end before, at and after a block boundary.         *)
(***************************************************************************)
EXTENDS FileSystem, TLC

Entry(name, type, inode) == [filename |-> name, filetype |-> type, idx_inode |-> inode]

Directory ==
  0 :> Entry(".", DIR_FILE, 0) @@ 1 :> Entry("exact", REG_FILE, 2) @@
  2 :> Entry("rtc", RTC_FILE, 0) @@ 3 :> Entry("odd", REG_FILE, 1) @@
  4 :> Entry("empty", REG_FILE, 3) @@ 5 :> Entry("", RTC_FILE, 0)

Blocks(list) == [i \in 0..20 |-> IF i < Len(list) THEN list[i + 1] ELSE 0]

Inodes ==
  0 :> [length |-> 0, dblocks |-> Blocks(<<>>)] @@
  1 :> [length |-> 5, dblocks |-> Blocks(<<4, 1, 6>>)] @@
  2 :> [length |-> 4, dblocks |-> Blocks(<<5, 2>>)] @@
  3 :> [length |-> 0, dblocks |-> Blocks(<<>>)]

Present == {".", "odd", "exact", "empty", "rtc", "absent", ""}
Regular == {"odd"}
LongOnly == {"long"}
Sizes == {0, 1, 2, 3, 5, 7}
WithNegative == {1, -1}
Big == {40}

(* A file of 17 blocks, one byte more than 16 bits can count at this scale.*)
LongDirectory == 0 :> Entry("long", REG_FILE, 1) @@ 1 :> Entry("", RTC_FILE, 0)
LongInodes ==
  0 :> [length |-> 0, dblocks |-> Blocks(<<>>)] @@
  1 :> [length |-> 33, dblocks |-> [i \in 0..20 |-> i]]
=============================================================================
