----------------------------- MODULE FileSystem -----------------------------
(***************************************************************************)
(* The read-only file system of filesystem.c under the descriptor table of *)
(* a process: open, close, read and write of system_calls.c, and what halt *)
(* and PCB_init do to the table.                                           *)
(*                                                                         *)
(* Each process has a table of its own and nobody writes the image, so one *)
(* process is enough.  A byte of the image is named by its place: data     *)
(* block and offset.  A name stands for its first FILENAME_LIMIT - 1       *)
(* characters, all that read_dentry_by_name compares.                      *)
(***************************************************************************)
EXTENDS Integers, Sequences, FiniteSets, Functions

CONSTANTS
  FS_BLOCK,      \* bytes in a block (4096)
  MAX_FD,        \* length of fileArray (8)
  Word,          \* 2^32, the modulus of offset + length
  Half,          \* 2^16, the modulus of written_bytes
  dentry,        \* the directory: 0..num_dir, the last one the blank entry
                 \* after the end that read_dentry_by_name looks at too
  inodes,        \* 0..num_inode - 1 -> [length, dblocks]
  num_data,      \* data blocks in the image
  Names,         \* what the process passes to open
  NBytes,        \* what it passes to read
  MaxPosition    \* bound: reads of a directory go on up to here

MIN_FD == 2
FDs == 0..(MAX_FD - 1)
num_dir == CHOOSE n \in DOMAIN dentry : n + 1 \notin DOMAIN dentry
RTC_FILE == 0
DIR_FILE == 1
REG_FILE == 2

ASSUME FileSystemAssumption ==
  /\ FS_BLOCK \in Nat \ {0} /\ MAX_FD \in Nat /\ MAX_FD > MIN_FD
  /\ Word \in Nat \ {0} /\ Half \in Nat \ {0}
  /\ \A i \in DOMAIN dentry : dentry[i].filetype = REG_FILE =>
       /\ dentry[i].idx_inode \in DOMAIN inodes
       /\ \A j \in DOMAIN dentry : dentry[j].idx_inode = dentry[i].idx_inode => i = j

VARIABLES
  fileArray,     \* the descriptors: file type (for fd_jumptable), inode_indx,
                 \* file_position, flags
  retval,        \* what the last system call returned
  got            \* what read has delivered on each descriptor since open

vars == <<fileArray, retval, got>>

Closed == [type |-> -1, inode_indx |-> 0, file_position |-> 0, flags |-> 0]
Stdio == [type |-> -1, inode_indx |-> 0, file_position |-> 0, flags |-> 1]

Table == [fd \in FDs |-> IF fd < MIN_FD THEN Stdio ELSE Closed]

Init ==
  /\ fileArray = Table
  /\ retval = 0
  /\ got = [fd \in FDs |-> <<>>]
-----------------------------------------------------------------------------
(* read_dentry_by_name: the first match, up to the blank entry.            *)
Found(name) ==
  {i \in DOMAIN dentry : /\ dentry[i].filename = name
                         /\ \A j \in DOMAIN dentry : dentry[j].filename = name => i <= j}

TheFirstFD == {MIN_FD}

(* The loop of open: the first descriptor from MIN_FD on that is not used. *)
FreeFD ==
  {fd \in MIN_FD..(MAX_FD - 1) :
     /\ fileArray[fd].flags = 0
     /\ \A d \in MIN_FD..(MAX_FD - 1) : fileArray[d].flags = 0 => fd <= d}

(* open refuses the empty name before it looks at the directory, whose     *)
(* blank entry would match it.                                             *)
Openable(name) == IF name = "" THEN {} ELSE Found(name)

(* An empty name, a name not found, or no descriptor left fails.  (open of *)
(* the clock also sets its rate: see Rtc.)                                 *)
open(name) ==
  IF Openable(name) = {} \/ FreeFD = {}
  THEN retval' = -1 /\ UNCHANGED <<fileArray, got>>
  ELSE \E i \in Openable(name), fd \in FreeFD :
    /\ fileArray' = [fileArray EXCEPT ![fd] =
         [type          |-> dentry[i].filetype,
          inode_indx    |-> IF dentry[i].filetype = REG_FILE THEN dentry[i].idx_inode ELSE 0,
          file_position |-> 0,
          flags         |-> 1]]
    /\ retval' = fd
    /\ got' = [got EXCEPT ![fd] = <<>>]

IsOpen(fd) == fd \in MIN_FD..(MAX_FD - 1) /\ fileArray[fd].flags = 1

close(fd) ==
  IF IsOpen(fd)
  THEN /\ fileArray' = [fileArray EXCEPT ![fd] = Closed]
       /\ retval' = 0
       /\ got' = [got EXCEPT ![fd] = <<>>]
  ELSE retval' = -1 /\ UNCHANGED <<fileArray, got>>
-----------------------------------------------------------------------------
OnlyWholeBlocks(left, start) == IF left >= FS_BLOCK - start THEN FS_BLOCK - start ELSE 0
UpToABlock(left, start) == IF left >= FS_BLOCK THEN FS_BLOCK ELSE left

(* How many bytes one round of read_data's loop copies.                    *)
Portion(left, start) == IF left >= FS_BLOCK - start THEN FS_BLOCK - start ELSE left

(* written_bytes, a uint16_t.                                              *)
WrittenBytes(bytes) == Len(bytes) % Half

(* One round of the loop of read_data, on data block number block.         *)
Round(s, block) ==
  LET start == s.offset % FS_BLOCK
      n     == Portion(s.length, start)
  IN  IF s.bad \/ block >= num_data THEN [s EXCEPT !.bad = TRUE]
      ELSE [offset |-> s.offset + n, length |-> s.length - n, bad |-> FALSE,
            bytes |-> s.bytes \o [i \in 1..n |-> <<block, start + i - 1>>]]

(* Its do-while loop, from the block of offset to the block after the last *)
(* byte.  (The singleton has TLC evaluate the state of the loop once.)     *)
Rounds(offset, length) ==
  LET first == offset \div FS_BLOCK
      last  == ((offset + length) % Word) \div FS_BLOCK
  IN  IF last < first THEN 1 ELSE last - first + 1

CopyBlocks(ino, offset, length) ==
  LET loop[k \in 0..Rounds(offset, length)] ==
        IF k = 0 THEN [offset |-> offset, length |-> length, bytes |-> <<>>, bad |-> FALSE]
        ELSE CHOOSE t \in {Round(s, ino.dblocks[offset \div FS_BLOCK + k - 1]) : s \in {loop[k - 1]}} : TRUE
  IN  loop[Rounds(offset, length)]

(* read_data of an inode in range: -1 for a block number out of range, or  *)
(* the number of bytes copied; and the bytes.                              *)
Available(ino, offset, length) ==
  IF (offset + length) % Word >= ino.length THEN ino.length - offset ELSE length

read_data(inode, offset, length) ==
  LET ino == inodes[inode]
      end == CopyBlocks(ino, offset, Available(ino, offset, length))
  IN  IF offset >= ino.length THEN [n |-> 0, bytes |-> <<>>]
      ELSE [n |-> IF end.bad THEN -1 ELSE WrittenBytes(end.bytes), bytes |-> end.bytes]

(* read_fs on a regular file.  It looks for the dentry with this inode,    *)
(* which by FileSystemAssumption is the one that was opened.               *)
read_fs(fd, nbytes) ==
  LET file == fileArray[fd]
  IN  \E r \in {read_data(file.inode_indx, file.file_position % Word, nbytes % Word)} :
      /\ fileArray' = [fileArray EXCEPT ![fd].file_position = @ + r.n]
      /\ got' = [got EXCEPT ![fd] = @ \o r.bytes]
      /\ retval' = r.n

(* The entry after the one read_fs_dir delivers, also past the last one.   *)
NextEntry(pos) == pos + 1

(* A name is one token whatever nbytes is: that a shorter buffer cuts it,  *)
(* and that a name of 32 characters loses its last one, is left out.       *)
read_fs_dir(fd, nbytes) ==
  LET pos == fileArray[fd].file_position
  IN  /\ pos < MaxPosition
      /\ fileArray' = [fileArray EXCEPT ![fd].file_position = NextEntry(pos)]
      /\ IF pos < num_dir
         THEN got' = [got EXCEPT ![fd] = Append(@, dentry[pos].filename)] /\ retval' = nbytes
         ELSE got' = got /\ retval' = 0

(* read, except from the keyboard: a bad descriptor, stdout and one that   *)
(* is not open fail.  The clock returns 0, after an interrupt.             *)
read(fd, nbytes) ==
  \/ /\ IsOpen(fd)
     /\ \/ fileArray[fd].type = REG_FILE /\ read_fs(fd, nbytes)
        \/ fileArray[fd].type = DIR_FILE /\ read_fs_dir(fd, nbytes)
        \/ fileArray[fd].type = RTC_FILE /\ retval' = 0 /\ UNCHANGED <<fileArray, got>>
  \/ ~IsOpen(fd) /\ retval' = -1 /\ UNCHANGED <<fileArray, got>>

(* write, except to the screen: stdin, a descriptor that is not open, a    *)
(* file and a directory fail (write_fs: the file system is read-only).     *)
(* The clock takes a rate.                                                 *)
write(fd) ==
  /\ retval' = IF IsOpen(fd) /\ fileArray[fd].type = RTC_FILE THEN 0 ELSE -1
  /\ UNCHANGED <<fileArray, got>>

(* halt clears the table and PCB_init makes the one of the next process.   *)
NewProcess ==
  /\ fileArray' = Table
  /\ got' = [fd \in FDs |-> <<>>]
  /\ UNCHANGED retval

Next ==
  \/ \E name \in Names : open(name)
  \/ \E fd \in -1..MAX_FD : close(fd)
  \/ \E fd \in (-1..MAX_FD) \ {0}, nbytes \in NBytes : read(fd, nbytes)
  \/ \E fd \in (-1..MAX_FD) \ {1} : write(fd)
  \/ NewProcess

Spec == Init /\ [][Next]_vars

(* A process that has a file open goes on reading it, as the loop of       *)
(* ece391cat.c does.                                                       *)
ReadOn(fd) ==
  \E nbytes \in NBytes \ {0} :
    IsOpen(fd) /\ fileArray[fd].type = REG_FILE /\ read_fs(fd, nbytes)

FairSpec == Spec /\ \A fd \in FDs : WF_vars(ReadOn(fd))
-----------------------------------------------------------------------------
(* Types.                                                                  *)
TypeOK ==
  /\ fileArray \in [FDs -> [type : {-1, RTC_FILE, DIR_FILE, REG_FILE},
                            inode_indx : DOMAIN inodes,
                            file_position : 0..MaxPosition, flags : 0..1]]
  /\ retval \in Int
  /\ DOMAIN got = FDs

(* Byte number i of a file.                                                *)
Byte(inode, i) == <<inodes[inode].dblocks[i \div FS_BLOCK], i % FS_BLOCK>>

(* However a process cuts its reads, and whatever it does with other       *)
(* descriptors, what it has read from a file since it opened it is the     *)
(* beginning of the file, every byte once, and file_position is the length *)
(* of that.                                                                *)
SequentialRead ==
  \A fd \in FDs : fileArray[fd].type = REG_FILE =>
    LET f == fileArray[fd]
    IN  /\ f.file_position = Len(got[fd])
        /\ f.file_position <= inodes[f.inode_indx].length
        /\ \A i \in 1..Len(got[fd]) : got[fd][i] = Byte(f.inode_indx, i - 1)

(* Reads of a directory deliver the names in it in order, each once.       *)
DirectoryOnce ==
  \A fd \in FDs : fileArray[fd].type = DIR_FILE =>
    LET pos == fileArray[fd].file_position
    IN  got[fd] = [i \in 1..(IF pos < num_dir THEN pos ELSE num_dir) |-> dentry[i - 1].filename]

(* At most one descriptor changes: a new one is the one that is returned,  *)
(* and one that stays in use stays with its file.                          *)
OnlyOne ==
  \E fd \in FDs :
    /\ \A d \in FDs \ {fd} : fileArray'[d] = fileArray[d]
    /\ fileArray'[fd].flags = 1 =>
         IF fileArray[fd].flags = 1
         THEN /\ fileArray'[fd].type = fileArray[fd].type
              /\ fileArray'[fd].inode_indx = fileArray[fd].inode_indx
         ELSE retval' = fd

(* No call touches a descriptor other than the one it was given or the one *)
(* it returns, except the end of the process; open never hands out one     *)
(* that is in use, so a descriptor stays with its file until it is closed. *)
OneDescriptor == [][OnlyOne \/ fileArray' = Table]_vars

(* A process that keeps reading an open file gets to its end, or closes    *)
(* the file or ends: no cut of the reads makes the position stand still.   *)
ReachesEnd ==
  \A fd \in FDs :
    fileArray[fd].type = REG_FILE ~>
      \/ fileArray[fd].type # REG_FILE
      \/ fileArray[fd].file_position >= inodes[fileArray[fd].inode_indx].length

(* read_data "Returns written bytes": what read returned is the number of  *)
(* bytes it delivered.                                                     *)
ReturnsCount ==
  [][\A fd \in FDs :
       fileArray[fd].type = REG_FILE /\ Len(got'[fd]) > Len(got[fd])
         => Len(got'[fd]) = Len(got[fd]) + retval']_vars

(* read_data will "correct/limit to size of available data": no more bytes *)
(* are delivered than the file has.                                        *)
WithinFile ==
  \A fd \in FDs : fileArray[fd].type = REG_FILE =>
    Len(got[fd]) <= inodes[fileArray[fd].inode_indx].length
=============================================================================
