-------------------------- MODULE FileSystemProofs --------------------------
(***************************************************************************)
(* Theorems about FileSystem for every image, size of the blocks and       *)
(* length of the table: the descriptor table, what reads deliver, and what *)
(* cat and ls make of it.                                                  *)
(***************************************************************************)
EXTENDS Userland, SequenceTheorems, WellFoundedInduction, TLAPS

(* The fields of a descriptor.                                             *)
Descriptor(f) ==
  f = [type |-> f.type, inode_indx |-> f.inode_indx,
       file_position |-> f.file_position, flags |-> f.flags]

(* The table has a descriptor for each number; one that is not in use and  *)
(* one that is are told apart by flags.                                    *)
TableInv ==
  /\ fileArray = [fd \in FDs |-> fileArray[fd]]
  /\ \A fd \in FDs : Descriptor(fileArray[fd])

(* The numbers open may hand out are numbers of the table.                 *)
LEMMA Numbers == MIN_FD..(MAX_FD - 1) \subseteq FDs /\ MIN_FD \in FDs
  BY FileSystemAssumption DEF FDs, MIN_FD

(* A step that leaves the table alone.                                     *)
LEMMA Untouched == TableInv /\ UNCHANGED fileArray => TableInv' /\ OnlyOne
<1> SUFFICES ASSUME TableInv, UNCHANGED fileArray PROVE TableInv' /\ OnlyOne
  OBVIOUS
<1>1. TableInv'
  BY DEF TableInv, Descriptor
<1>2. OnlyOne
  BY Numbers DEF OnlyOne
<1> QED
  BY <1>1, <1>2

(* Advancing the position of an open descriptor.                           *)
LEMMA Advances ==
  ASSUME TableInv, NEW fd \in FDs, NEW v,
         fileArray' = [fileArray EXCEPT ![fd].file_position = v],
         fileArray[fd].flags = 1
  PROVE  TableInv' /\ OnlyOne
<1> DEFINE f == fileArray[fd]
<1>1. fileArray' = [d \in FDs |-> IF d = fd THEN [f EXCEPT !.file_position = v] ELSE fileArray[d]]
  BY DEF TableInv
<1>2. [f EXCEPT !.file_position = v] =
        [type |-> f.type, inode_indx |-> f.inode_indx, file_position |-> v, flags |-> f.flags]
  BY DEF TableInv, Descriptor
<1> HIDE DEF f
<1>3. fileArray'[fd] = [type |-> f.type, inode_indx |-> f.inode_indx, file_position |-> v, flags |-> f.flags]
  BY <1>1, <1>2
<1>4. \A d \in FDs \ {fd} : fileArray'[d] = fileArray[d]
  BY <1>1
<1>5. TableInv'
  BY <1>1, <1>3, <1>4 DEF TableInv, Descriptor
<1>6. OnlyOne
  BY <1>3, <1>4 DEF OnlyOne, f
<1> QED
  BY <1>5, <1>6

(* open takes a descriptor that is not in use.                             *)
LEMMA Opens == ASSUME TableInv, NEW name \in Names, open(name) PROVE TableInv' /\ OnlyOne
<1>1. CASE UNCHANGED fileArray
  BY <1>1, Untouched
<1>2. CASE ~UNCHANGED fileArray
  <2>1. PICK i \in Openable(name), fd \in FreeFD :
          /\ fileArray' = [fileArray EXCEPT ![fd] =
               [type          |-> dentry[i].filetype,
                inode_indx    |-> IF dentry[i].filetype = REG_FILE THEN dentry[i].idx_inode ELSE 0,
                file_position |-> 0,
                flags         |-> 1]]
          /\ retval' = fd
    BY <1>2 DEF open
  <2>2. fd \in FDs /\ fileArray[fd].flags = 0
    BY Numbers DEF FreeFD
  <2>3. \A d \in FDs \ {fd} : fileArray'[d] = fileArray[d]
    BY <2>1 DEF TableInv
  <2>4. TableInv'
    BY <2>1, <2>2, <2>3 DEF TableInv, Descriptor
  <2>5. OnlyOne
    BY <2>1, <2>2, <2>3 DEF OnlyOne
  <2> QED
    BY <2>4, <2>5
<1> QED
  BY <1>1, <1>2

(* close frees the one descriptor it is given.                             *)
LEMMA Closes == ASSUME TableInv, NEW fd \in -1..MAX_FD, close(fd) PROVE TableInv' /\ OnlyOne
<1>1. CASE UNCHANGED fileArray
  BY <1>1, Untouched
<1>2. CASE ~UNCHANGED fileArray
  <2>1. IsOpen(fd) /\ fileArray' = [fileArray EXCEPT ![fd] = Closed]
    BY <1>2 DEF close
  <2>2. fd \in FDs
    BY <2>1, Numbers DEF IsOpen
  <2>3. fileArray'[fd] = Closed /\ \A d \in FDs \ {fd} : fileArray'[d] = fileArray[d]
    BY <2>1, <2>2 DEF TableInv
  <2>4. TableInv'
    BY <2>1, <2>2, <2>3 DEF TableInv, Descriptor, Closed
  <2>5. OnlyOne
    BY <2>2, <2>3 DEF OnlyOne, Closed
  <2> QED
    BY <2>4, <2>5
<1> QED
  BY <1>1, <1>2

(* read moves the position of the one descriptor it is given.              *)
LEMMA Reads ==
  ASSUME TableInv, NEW fd \in -1..MAX_FD, NEW nbytes \in NBytes, read(fd, nbytes)
  PROVE  TableInv' /\ OnlyOne
<1>1. CASE UNCHANGED fileArray
  BY <1>1, Untouched
<1>2. CASE ~UNCHANGED fileArray
  <2>1. IsOpen(fd) /\ (read_fs(fd, nbytes) \/ read_fs_dir(fd, nbytes))
    BY <1>2 DEF read
  <2>2. fd \in FDs /\ fileArray[fd].flags = 1
    BY <2>1, Numbers DEF IsOpen
  <2>3. \E v : fileArray' = [fileArray EXCEPT ![fd].file_position = v]
    BY <2>1, Zenon DEF read_fs, read_fs_dir
  <2> QED
    BY <2>2, <2>3, Advances
<1> QED
  BY <1>1, <1>2

(* Every call keeps the table, and changes one descriptor or makes a new   *)
(* table.                                                                  *)
LEMMA NextTable ==
  ASSUME TableInv, [Next]_vars
  PROVE  TableInv' /\ (OnlyOne \/ fileArray' = Table)
<1>1. CASE \E fd \in (-1..MAX_FD) \ {1} : write(fd)
  BY <1>1, Untouched DEF write
<1>2. CASE NewProcess
  BY <1>2 DEF NewProcess, TableInv, Table, Stdio, Closed, Descriptor
<1>3. CASE UNCHANGED vars
  BY <1>3, Untouched DEF vars
<1>4. CASE \E fd \in (-1..MAX_FD) \ {0}, nbytes \in NBytes : read(fd, nbytes)
  BY <1>4, Reads
<1> QED
  BY <1>1, <1>2, <1>3, <1>4, Opens, Closes DEF Next

(* The table a process starts with.                                        *)
LEMMA InitTable == Init => TableInv
BY DEF Init, TableInv, Table, Stdio, Closed, Descriptor

(* No call touches a descriptor other than the one it was given or         *)
(* returns, and a descriptor stays with its file until it is closed.       *)
THEOREM OneDescriptorAlways == Spec => OneDescriptor
<1>1. TableInv /\ [Next]_vars => TableInv' /\ (OnlyOne \/ fileArray' = Table)
  BY NextTable
<1> QED
  BY <1>1, InitTable, PTL DEF Spec, OneDescriptor

-----------------------------------------------------------------------------
(* What read_data's loop copies, by induction on its rounds.               *)

(* A set of natural numbers that is not empty has a least element.         *)
LEMMA Least == ASSUME NEW T, T \subseteq Nat, T # {} PROVE \E x \in T : \A y \in T : x <= y
<1> DEFINE R == OpToRel(<, Nat)
<1>1. IsWellFoundedOn(R, Nat)
  BY NatLessThanWellFounded
<1>2. \A x, y \in Nat : y < x => <<y, x>> \in R
  BY DEF OpToRel
<1> HIDE DEF R
<1>3. \E x \in T : \A y \in T : ~(<<y, x>> \in R)
  BY <1>1, WFMin
<1>4. PICK x \in T : \A y \in T : ~(<<y, x>> \in R)
  BY <1>3
<1>5. \A y \in T : ~(y < x)
  BY <1>2, <1>4
<1> QED
  BY <1>5

(* Induction, on the set of the numbers that have the property.            *)
LEMMA ByInduction ==
  ASSUME NEW S, 0 \in S, \A n \in Nat : n \in S => n + 1 \in S
  PROVE  Nat \subseteq S
<1> SUFFICES ASSUME ~(Nat \subseteq S) PROVE FALSE
  OBVIOUS
<1> DEFINE T == {n \in Nat : n \notin S}
<1>1. PICK x \in T : \A y \in T : x <= y
  <2>1. T \subseteq Nat /\ T # {}
    OBVIOUS
  <2> HIDE DEF T
  <2> QED
    BY <2>1, Least
<1>2. x # 0 /\ x \in Nat
  OBVIOUS
<1>3. x - 1 \in Nat /\ x - 1 \in S
  BY <1>1, <1>2
<1>4. (x - 1) + 1 \in S
  BY <1>3
<1> QED
  BY <1>2, <1>4

(* Quotient and remainder, and the numbers they determine.                 *)
LEMMA Divided ==
  ASSUME NEW B \in Nat \ {0}, NEW x \in Nat
  PROVE  x \div B \in Nat /\ x % B \in 0..(B - 1) /\ x = (x \div B) * B + (x % B)
OBVIOUS

(* The quotient and the remainder of q * B + r.                            *)
LEMMA Division ==
  ASSUME NEW B \in Nat \ {0}, NEW q \in Nat, NEW r \in 0..(B - 1)
  PROVE  (q * B + r) \div B = q /\ (q * B + r) % B = r
OBVIOUS

(* Files as mkfs would write them: block numbers of the image, also where  *)
(* a file that fills its last block ends, and a length that, with a read   *)
(* added, fits a uint32_t.                                                 *)
GoodFile(inode) ==
  LET ino == inodes[inode]
  IN  /\ ino.length \in Nat /\ ino.length + Half <= Word
      /\ \A k \in 0..(ino.length \div FS_BLOCK) : ino.dblocks[k] \in Nat /\ ino.dblocks[k] < num_data

GoodImage ==
  /\ num_data \in Nat
  /\ \A i \in DOMAIN dentry : dentry[i].filetype = REG_FILE => GoodFile(dentry[i].idx_inode)

(* Requests that written_bytes can count.                                  *)
ShortReads == NBytes \subseteq 0..(Half - 1)

(* The n bytes of a file from offset on, and the state of the loop when it *)
(* has copied c of them.                                                   *)
Piece(inode, from, n) == [i \in 1..n |-> Byte(inode, from + i - 1)]

LoopState(inode, from, length, c) ==
  [offset |-> from + c, length |-> length - c, bytes |-> Piece(inode, from, c), bad |-> FALSE]

(* How many it has copied after k rounds: up to a block boundary.          *)
Covered(from, length, k) ==
  LET end == (from \div FS_BLOCK + k) * FS_BLOCK - from
  IN  IF k = 0 THEN 0 ELSE IF length < end THEN length ELSE end

(* A piece is a sequence of that length.                                   *)
LEMMA PieceSeq ==
  ASSUME NEW inode, NEW from \in Nat, NEW n \in Nat
  PROVE  LET S == {Byte(inode, j) : j \in Nat}
         IN  /\ Piece(inode, from, n) \in Seq(S)
             /\ Len(Piece(inode, from, n)) = n
<1> DEFINE S == {Byte(inode, j) : j \in Nat}
           e(i) == Byte(inode, from + i - 1)
<1>1. \A i \in 1..n : e(i) \in S
  <2> SUFFICES ASSUME NEW i \in 1..n PROVE e(i) \in S
    OBVIOUS
  <2>1. from + i - 1 \in Nat
    OBVIOUS
  <2> QED
    BY <2>1
<1> HIDE DEF S, e
<1>2. [i \in 1..n |-> e(i)] \in Seq(S)
  BY <1>1, IsASeq
<1> QED
  BY <1>2 DEF Piece, S, e

(* Two pieces that follow each other make one.                             *)
LEMMA PiecesJoin ==
  ASSUME NEW inode, NEW from \in Nat, NEW m \in Nat, NEW n \in Nat
  PROVE  Piece(inode, from, m) \o Piece(inode, from + m, n) = Piece(inode, from, m + n)
<1> DEFINE S == {Byte(inode, j) : j \in Nat}
           a == Piece(inode, from, m)
           b == Piece(inode, from + m, n)
           c == Piece(inode, from, m + n)
<1>1. a \in Seq(S) /\ Len(a) = m
  BY PieceSeq
<1>2. b \in Seq(S) /\ Len(b) = n
  <2>1. from + m \in Nat
    OBVIOUS
  <2> QED
    BY <2>1, PieceSeq
<1>3. c \in Seq(S) /\ Len(c) = m + n
  <2>1. m + n \in Nat
    OBVIOUS
  <2> QED
    BY <2>1, PieceSeq
<1>4. \A i \in 1..m : a[i] = Byte(inode, from + i - 1)
  BY DEF Piece
<1>5. \A i \in 1..n : b[i] = Byte(inode, from + m + i - 1)
  BY DEF Piece
<1>6. \A i \in 1..(m + n) : c[i] = Byte(inode, from + i - 1)
  BY DEF Piece
<1> HIDE DEF S, a, b, c
<1>7. /\ a \o b \in Seq(S) /\ Len(a \o b) = m + n
      /\ \A i \in 1..(m + n) : (a \o b)[i] = IF i <= m THEN a[i] ELSE b[i - m]
  BY <1>1, <1>2, ConcatProperties
<1>8. \A i \in 1..(m + n) : (a \o b)[i] = c[i]
  <2> SUFFICES ASSUME NEW i \in 1..(m + n) PROVE (a \o b)[i] = c[i]
    OBVIOUS
  <2>1. CASE i <= m
    BY <1>4, <1>6, <1>7, <2>1
  <2>2. CASE ~(i <= m)
    <3>1. i - m \in 1..n /\ from + m + (i - m) - 1 = from + i - 1
      BY <2>2
    <3>2. b[i - m] = Byte(inode, from + i - 1)
      BY <1>5, <3>1
    <3> QED
      BY <1>6, <1>7, <2>2, <3>2
  <2> QED
    BY <2>1, <2>2
<1>9. a \o b = c
  BY <1>3, <1>7, <1>8, SeqEqual
<1> QED
  BY <1>9 DEF a, b, c

(* Each round copies up to the end of its block, or what is left.          *)
LEMMA RoundCovers ==
  ASSUME NEW from \in Nat, NEW length \in Nat, NEW k \in Nat
  PROVE  LET c == Covered(from, length, k)
             start == (from + c) % FS_BLOCK
         IN  /\ c \in 0..length
             /\ start \in 0..(FS_BLOCK - 1)
             /\ Portion(length - c, start) \in 0..(FS_BLOCK - start)
             /\ Covered(from, length, k + 1) = c + Portion(length - c, start)
             /\ c < length => from + c = (from \div FS_BLOCK + k) * FS_BLOCK + start
<1> DEFINE B == FS_BLOCK
           q == from \div B
           r == from % B
           c == Covered(from, length, k)
           start == (from + c) % B
<1>1. B \in Nat \ {0}
  BY FileSystemAssumption
<1>2. q \in Nat /\ r \in 0..(B - 1) /\ from = q * B + r
  BY <1>1, Divided
<1>3. (q + k) * B = q * B + k * B /\ (q + (k + 1)) * B = q * B + k * B + B /\ k * B \in Nat /\ q * B \in Nat
  BY <1>1, <1>2
<1>4. k # 0 => k * B >= B
  BY <1>1
<1>5. k + 1 # 0
  OBVIOUS
<1>6. CASE k = 0
  <2>1. c = 0 /\ start = r
    BY <1>1, <1>2, <1>6 DEF Covered
  <2>2. Covered(from, length, k + 1) = IF length < B - r THEN length ELSE B - r
    BY <1>1, <1>2, <1>3, <1>5, <1>6 DEF Covered
  <2> QED
    BY <1>1, <1>2, <1>6, <2>1, <2>2 DEF Portion
<1>7. CASE k # 0
  <2> DEFINE end == k * B - r
  <2>1. end \in Nat \ {0}
    BY <1>1, <1>2, <1>3, <1>4, <1>7
  <2>2. c = IF length < end THEN length ELSE end
    BY <1>1, <1>2, <1>3, <1>7 DEF Covered
  <2>3. Covered(from, length, k + 1) = IF length < end + B THEN length ELSE end + B
    <3>1. (q + (k + 1)) * B - from = end + B
      <4> HIDE DEF q, r, B
      <4> QED
        BY <1>1, <1>2, <1>3
    <3>2. Covered(from, length, k + 1) =
            IF length < (q + (k + 1)) * B - from THEN length ELSE (q + (k + 1)) * B - from
      BY <1>5 DEF Covered
    <3> QED
      BY <3>1, <3>2
  <2>4. from + c \in Nat /\ start \in 0..(B - 1)
    <3>1. from + c \in Nat
      BY <2>1, <2>2
    <3> HIDE DEF c
    <3> QED
      BY <1>1, <3>1, Divided
  <2>5. CASE length <= end
    <3>1. c = length /\ Covered(from, length, k + 1) = length
      BY <1>1, <2>1, <2>2, <2>3, <2>5
    <3>2. Portion(length - c, start) = 0
      BY <1>1, <2>4, <3>1 DEF Portion
    <3> HIDE DEF start, c
    <3> QED
      BY <1>1, <2>4, <3>1, <3>2 DEF start, c
  <2>6. CASE ~(length <= end)
    <3>1. c = end /\ from + c = (q + k) * B + 0
      BY <1>1, <1>2, <1>3, <2>1, <2>2, <2>6
    <3>2. start = 0
      <4>1. q + k \in Nat /\ 0 \in 0..(B - 1)
        BY <1>1, <1>2
      <4>2. ((q + k) * B + 0) % B = 0
        BY <1>1, <4>1, Division
      <4> HIDE DEF c
      <4> QED
        BY <3>1, <4>2
    <3>3. Portion(length - c, start) = IF length - end >= B THEN B ELSE length - end
      <4> HIDE DEF c, start, end
      <4> QED
        BY <1>1, <3>1, <3>2 DEF Portion
    <3>4. Covered(from, length, k + 1) = c + Portion(length - c, start)
      BY <1>1, <2>1, <2>3, <2>6, <3>1, <3>3
    <3>5. Portion(length - c, start) \in 0..B
      BY <1>1, <2>1, <2>6, <3>3
    <3> HIDE DEF end, c, start
    <3> QED
      BY <1>1, <2>1, <2>6, <3>1, <3>2, <3>4, <3>5 DEF c, start, end
  <2> QED
    BY <1>1, <2>1, <2>5, <2>6
<1> QED
  BY <1>6, <1>7

(* A round of the loop copies the bytes of its block that are next.        *)
LEMMA RoundCopies ==
  ASSUME NEW inode, GoodFile(inode), num_data \in Nat,
         NEW from \in Nat, NEW length \in Nat, from + length <= inodes[inode].length,
         NEW k \in Nat, from \div FS_BLOCK + k <= inodes[inode].length \div FS_BLOCK
  PROVE  Round(LoopState(inode, from, length, Covered(from, length, k)),
               inodes[inode].dblocks[from \div FS_BLOCK + k])
           = LoopState(inode, from, length, Covered(from, length, k + 1))
<1> DEFINE B == FS_BLOCK
           b == from \div B + k
           block == inodes[inode].dblocks[b]
           c == Covered(from, length, k)
           start == (from + c) % B
           n == Portion(length - c, start)
           s == LoopState(inode, from, length, c)
           copied == [i \in 1..n |-> <<block, start + i - 1>>]
<1>1. B \in Nat \ {0} /\ b \in Nat
  <2>1. B \in Nat \ {0}
    BY FileSystemAssumption
  <2>2. from \div B \in Nat
    BY <2>1, Divided
  <2> QED
    BY <2>1, <2>2
<1>2. /\ c \in 0..length /\ start \in 0..(B - 1) /\ n \in 0..(B - start)
      /\ Covered(from, length, k + 1) = c + n
      /\ c < length => from + c = b * B + start
  BY RoundCovers
<1>3. c + n \in 0..length
  BY <1>2, RoundCovers
<1>4. block \in Nat /\ block < num_data
  <2>1. inodes[inode].length \div B \in Nat
    BY <1>1, Divided DEF GoodFile
  <2>2. b \in 0..(inodes[inode].length \div B)
    BY <1>1, <2>1
  <2> HIDE DEF b
  <2> QED
    BY <2>2 DEF GoodFile
<1> HIDE DEF c, b, B, n, start, block
<1>5. copied = Piece(inode, from + c, n)
  <2> SUFFICES ASSUME NEW i \in 1..n PROVE <<block, start + i - 1>> = Byte(inode, from + c + i - 1)
    BY DEF Piece
  <2>1. n \in Nat /\ c \in Nat /\ c < length /\ start + i - 1 \in 0..(B - 1)
    BY <1>1, <1>2, <1>3
  <2>2. from + c + i - 1 = b * B + (start + i - 1)
    BY <1>1, <1>2, <2>1
  <2>3. (b * B + (start + i - 1)) \div B = b /\ (b * B + (start + i - 1)) % B = start + i - 1
    BY <1>1, <2>1, Division
  <2> QED
    BY <2>2, <2>3 DEF Byte, B, block
<1>6. s.offset = from + c /\ s.length = length - c /\ s.bad = FALSE /\ s.bytes = Piece(inode, from, c)
  BY DEF LoopState
<1> HIDE DEF s
<1>7. Round(s, block) = [offset |-> (from + c) + n, length |-> (length - c) - n, bad |-> FALSE,
                         bytes |-> Piece(inode, from, c) \o copied]
  <2>1. ~(s.bad \/ block >= num_data)
    BY <1>4, <1>6
  <2>2. s.offset % FS_BLOCK = start /\ Portion(s.length, start) = n
    BY <1>6 DEF start, n, B
  <2> QED
    BY <1>6, <2>1, <2>2 DEF Round
<1>8. Piece(inode, from, c) \o copied = Piece(inode, from, c + n)
  <2>1. c \in Nat /\ n \in Nat
    BY <1>1, <1>2
  <2>2. Piece(inode, from, c) \o Piece(inode, from + c, n) = Piece(inode, from, c + n)
    BY ONLY ZenonT(40), <2>1, PiecesJoin, from \in Nat
  <2> HIDE DEF copied
  <2> QED
    BY <1>5, <2>2
<1>9. (from + c) + n = from + (c + n) /\ (length - c) - n = length - (c + n)
  BY <1>1, <1>2
<1>10. Round(s, block) = LoopState(inode, from, length, c + n)
  BY <1>7, <1>8, <1>9 DEF LoopState
<1> QED
  BY <1>2, <1>10 DEF s, c, block, b, B

(* So the whole loop copies the bytes that were asked for, in their order, *)
(* however the request lies across the blocks of the file.                 *)
LEMMA LoopCopies ==
  ASSUME NEW inode, GoodFile(inode), num_data \in Nat,
         NEW from \in Nat, NEW length \in Nat, from + length <= inodes[inode].length
  PROVE  CopyBlocks(inodes[inode], from, length) = LoopState(inode, from, length, length)
<1> DEFINE B == FS_BLOCK
           first == from \div B
           R == Rounds(from, length)
           Copied(t, k) ==
             CHOOSE u \in {Round(x, inodes[inode].dblocks[first + k - 1]) : x \in {t}} : TRUE
           Begun == [offset |-> from, length |-> length, bytes |-> <<>>, bad |-> FALSE]
           IsLoop(f) == f = [k \in 0..R |-> IF k = 0 THEN Begun ELSE Copied(f[k - 1], k)]
           h == [k \in 0..R |-> LoopState(inode, from, length, Covered(from, length, k))]
<1>1. B \in Nat \ {0} /\ Word \in Nat \ {0} /\ Half \in Nat \ {0} /\ first \in Nat
  BY FileSystemAssumption, Divided
<1>2. /\ inodes[inode].length \in Nat /\ from + length < Word
      /\ (from + length) % Word = from + length
  <2>1. inodes[inode].length \in Nat /\ from + length < Word
    BY <1>1 DEF GoodFile
  <2> QED
    BY <1>1, <2>1
<1> DEFINE last == (from + length) \div B
<1>3. last \in Nat /\ first <= last /\ last <= inodes[inode].length \div B
  BY <1>1, <1>2
<1>4. R = last - first + 1 /\ R \in Nat \ {0}
  <2>1. R = IF last < first THEN 1 ELSE last - first + 1
    BY <1>2 DEF Rounds
  <2> HIDE DEF R, last, first
  <2> QED
    BY <1>1, <1>3, <2>1
<1>5. ASSUME NEW k \in 0..R, k # 0
      PROVE  Round(LoopState(inode, from, length, Covered(from, length, k - 1)),
                   inodes[inode].dblocks[first + k - 1])
               = LoopState(inode, from, length, Covered(from, length, k))
  <2>1. k - 1 \in Nat /\ (k - 1) + 1 = k /\ first + (k - 1) = first + k - 1
    BY <1>1, <1>4, <1>5
  <2>2. first + (k - 1) <= inodes[inode].length \div B
    <3>1. inodes[inode].length \div B \in Nat
      BY <1>1, <1>2, Divided
    <3> HIDE DEF first, last, R
    <3> QED
      BY <1>1, <1>3, <1>4, <1>5, <3>1
  <2> QED
    BY <2>1, <2>2, RoundCopies
<1>6. \A t, k : Copied(t, k) = Round(t, inodes[inode].dblocks[first + k - 1])
  <2> SUFFICES ASSUME NEW t, NEW k PROVE Copied(t, k) = Round(t, inodes[inode].dblocks[first + k - 1])
    OBVIOUS
  <2>1. {Round(x, inodes[inode].dblocks[first + k - 1]) : x \in {t}} =
          {Round(t, inodes[inode].dblocks[first + k - 1])}
    BY Zenon
  <2> QED
    BY <2>1, Zenon
<1>7. LoopState(inode, from, length, Covered(from, length, 0)) = Begun
  <2>1. Piece(inode, from, 0) = <<>>
    <3>1. Piece(inode, from, 0) \in Seq({Byte(inode, j) : j \in Nat}) /\ Len(Piece(inode, from, 0)) = 0
      BY PieceSeq
    <3> QED
      BY <3>1, EmptySeq
  <2>2. Covered(from, length, 0) = 0 /\ from + 0 = from /\ length - 0 = length
    BY DEF Covered
  <2> QED
    BY <2>1, <2>2 DEF LoopState
<1> HIDE DEF Copied, Begun
<1>8. IsLoop(h)
  <2>1. ASSUME NEW k \in 0..R, k # 0 PROVE h[k] = Copied(h[k - 1], k)
    <3>1. k - 1 \in 0..R
      BY <1>4, <2>1
    <3> QED
      BY <1>5, <1>6, <2>1, <3>1
  <2>2. h[0] = Begun /\ h = [k \in 0..R |-> h[k]]
    BY <1>4, <1>7
  <2> HIDE DEF h
  <2> QED
    BY <2>1, <2>2
<1>9. PICK loop : IsLoop(loop) /\ CopyBlocks(inodes[inode], from, length) = loop[R]
  <2>1. CopyBlocks(inodes[inode], from, length) = (CHOOSE f : IsLoop(f))[R]
    BY DEF CopyBlocks, Copied, Begun
  <2> DEFINE f == CHOOSE f : IsLoop(f)
  <2>2. IsLoop(f)
    BY <1>8, Zenon
  <2> QED
    BY <2>1, <2>2, Zenon
<1>10. loop[R] = h[R]
  <2> DEFINE S == {k \in Nat : k \in 0..R => loop[k] = h[k]}
  <2>1. \A k \in 0..R : loop[k] = IF k = 0 THEN Begun ELSE Copied(loop[k - 1], k)
    BY <1>9
  <2>2. \A k \in 0..R : h[k] = IF k = 0 THEN Begun ELSE Copied(h[k - 1], k)
    BY <1>8, Zenon
  <2> HIDE DEF h, R
  <2>3. 0 \in S
    BY <2>1, <2>2
  <2>4. \A k \in Nat : k \in S => k + 1 \in S
    <3> SUFFICES ASSUME NEW k \in Nat, k \in S, k + 1 \in 0..R PROVE loop[k + 1] = h[k + 1]
      OBVIOUS
    <3>1. k \in 0..R /\ k + 1 # 0 /\ (k + 1) - 1 = k
      BY <1>4
    <3>2. loop[k] = h[k]
      BY <3>1
    <3> QED
      BY <2>1, <2>2, <3>1, <3>2
  <2>5. Nat \subseteq S
    <3> HIDE DEF S
    <3> QED
      BY <2>3, <2>4, ByInduction
  <2> QED
    BY <1>4, <2>5
<1>11. Covered(from, length, R) = length
  <2>1. first + R = last + 1
    <3> HIDE DEF first, last, R
    <3> QED
      BY <1>1, <1>3, <1>4
  <2>2. (last + 1) * B > from + length
    <3>1. from + length = last * B + ((from + length) % B) /\ (from + length) % B \in 0..(B - 1)
      BY <1>1, Divided
    <3> QED
      BY <1>1, <1>3, <3>1
  <2>3. length < (first + R) * B - from
    <3>1. (last + 1) * B \in Int
      BY <1>1, <1>3
    <3> QED
      BY <2>1, <2>2, <3>1
  <2> QED
    BY <1>4, <2>3 DEF Covered
<1> QED
  BY <1>4, <1>9, <1>10, <1>11

(* What read_data delivers at a position within a file.                    *)
LEMMA DataRead ==
  ASSUME NEW inode, GoodFile(inode), num_data \in Nat,
         NEW pos \in 0..inodes[inode].length, NEW nbytes \in 0..(Half - 1)
  PROVE  \E n \in Nat :
           /\ pos + n <= inodes[inode].length
           /\ n = 0 => pos = inodes[inode].length \/ nbytes = 0
           /\ read_data(inode, pos % Word, nbytes % Word) = [n |-> n, bytes |-> Piece(inode, pos, n)]
<1> DEFINE len == inodes[inode].length
           want == Available(inodes[inode], pos, nbytes)
<1>1. Word \in Nat \ {0} /\ Half \in Nat \ {0} /\ len \in Nat /\ len + Half <= Word
  BY FileSystemAssumption DEF GoodFile
<1>2. pos \in Nat /\ nbytes \in Nat /\ pos < Word /\ nbytes < Word /\ pos + nbytes < Word
  BY <1>1
<1>3. pos % Word = pos /\ nbytes % Word = nbytes /\ (pos + nbytes) % Word = pos + nbytes
  BY <1>1, <1>2
<1>4. CASE pos >= len
  <2>0. pos = len
    BY <1>1, <1>4
  <2>1. read_data(inode, pos, nbytes) = [n |-> 0, bytes |-> <<>>]
    BY <1>4 DEF read_data
  <2>2. Piece(inode, pos, 0) = <<>>
    <3>1. Piece(inode, pos, 0) \in Seq({Byte(inode, j) : j \in Nat}) /\ Len(Piece(inode, pos, 0)) = 0
      BY <1>2, PieceSeq
    <3> QED
      BY <3>1, EmptySeq
  <2>3. pos + 0 <= inodes[inode].length /\ pos = inodes[inode].length
    BY <1>1, <2>0
  <2>4. read_data(inode, pos % Word, nbytes % Word) = [n |-> 0, bytes |-> Piece(inode, pos, 0)]
    BY Zenon, <1>3, <2>1, <2>2
  <2>5. 0 \in Nat
    OBVIOUS
  <2> QED
    BY Zenon, <2>3, <2>4, <2>5
<1>5. CASE ~(pos >= len)
  <2>1. want \in Nat /\ pos + want <= len /\ want < Half /\ (want = 0 => nbytes = 0)
    BY <1>1, <1>2, <1>3, <1>5 DEF Available
  <2> HIDE DEF want
  <2>2. CopyBlocks(inodes[inode], pos, want) = LoopState(inode, pos, want, want)
    BY <1>2, <2>1, LoopCopies
  <2>3. WrittenBytes(Piece(inode, pos, want)) = want
    <3>1. Len(Piece(inode, pos, want)) = want
      BY <1>2, <2>1, PieceSeq
    <3>2. want % Half = want
      BY <1>1, <2>1
    <3> QED
      BY <3>1, <3>2 DEF WrittenBytes
  <2>4. read_data(inode, pos, nbytes) = [n |-> want, bytes |-> Piece(inode, pos, want)]
    <3> DEFINE end == CopyBlocks(inodes[inode], pos, want)
    <3>1. end.bad = FALSE /\ end.bytes = Piece(inode, pos, want)
      BY <2>2 DEF LoopState
    <3>2. read_data(inode, pos, nbytes) =
            [n |-> IF end.bad THEN -1 ELSE WrittenBytes(end.bytes), bytes |-> end.bytes]
      BY <1>5 DEF read_data, want
    <3> QED
      BY <2>3, <3>1, <3>2
  <2> QED
    BY <1>3, <2>1, <2>4
<1> QED
  BY <1>4, <1>5
-----------------------------------------------------------------------------
(* What was read from a file, in terms of its position.                    *)
FileInv(fd) ==
  LET f == fileArray[fd]
  IN  f.type = REG_FILE =>
        /\ GoodFile(f.inode_indx)
        /\ f.file_position \in 0..inodes[f.inode_indx].length
        /\ got[fd] = Piece(f.inode_indx, 0, f.file_position)

ReadInv ==
  /\ TableInv
  /\ got = [fd \in FDs |-> got[fd]]
  /\ \A fd \in FDs : FileInv(fd)

(* The image does not change.                                              *)
LEMMA FilePrimed ==
  ASSUME NEW fd \in FDs,
         GoodFile(fileArray'[fd].inode_indx),
         fileArray'[fd].file_position \in 0..inodes[fileArray'[fd].inode_indx].length,
         got'[fd] = Piece(fileArray'[fd].inode_indx, 0, fileArray'[fd].file_position)
  PROVE  FileInv(fd)'
BY DEF FileInv, GoodFile, Piece, Byte

(* A descriptor that a call leaves alone.                                  *)
LEMMA FileKept ==
  ASSUME NEW fd \in FDs, FileInv(fd), fileArray'[fd] = fileArray[fd], got'[fd] = got[fd]
  PROVE  FileInv(fd)'
BY DEF FileInv, GoodFile, Piece, Byte

(* read_fs extends what was read by the bytes at the position, and moves   *)
(* the position by as many.                                                *)
LEMMA FileRead ==
  ASSUME GoodImage, ShortReads, ReadInv, NEW fd \in FDs, NEW nbytes \in NBytes,
         fileArray[fd].type = REG_FILE, read_fs(fd, nbytes)
  PROVE  got' = [d \in FDs |-> got'[d]] /\ \A d \in FDs : FileInv(d)'
<1> DEFINE f == fileArray[fd]
           inode == f.inode_indx
           pos == f.file_position
<1>1. GoodFile(inode) /\ pos \in 0..inodes[inode].length /\ got[fd] = Piece(inode, 0, pos)
  BY DEF ReadInv, FileInv
<1>2. PICK n \in Nat :
        /\ pos + n <= inodes[inode].length
        /\ read_data(inode, pos % Word, nbytes % Word) = [n |-> n, bytes |-> Piece(inode, pos, n)]
  BY <1>1, DataRead DEF GoodImage, ShortReads
<1>3. /\ fileArray' = [fileArray EXCEPT ![fd].file_position = pos + n]
      /\ got' = [got EXCEPT ![fd] = @ \o Piece(inode, pos, n)]
  <2> DEFINE r == read_data(inode, pos % Word, nbytes % Word)
  <2>1. /\ fileArray' = [fileArray EXCEPT ![fd].file_position = @ + r.n]
        /\ got' = [got EXCEPT ![fd] = @ \o r.bytes]
    BY Zenon DEF read_fs
  <2>2. r.n = n /\ r.bytes = Piece(inode, pos, n)
    BY SMTT(40), <1>2
  <2> HIDE DEF r
  <2> QED
    BY <2>1, <2>2
<1>4. /\ fileArray'[fd] = [type |-> f.type, inode_indx |-> inode, file_position |-> pos + n, flags |-> f.flags]
      /\ \A d \in FDs \ {fd} : fileArray'[d] = fileArray[d]
  <2>1. Descriptor(f)
    BY DEF ReadInv, TableInv
  <2>2. [f EXCEPT !.file_position = pos + n] =
          [type |-> f.type, inode_indx |-> inode, file_position |-> pos + n, flags |-> f.flags]
    BY <2>1 DEF Descriptor
  <2>3. fileArray' = [d \in FDs |-> IF d = fd THEN [f EXCEPT !.file_position = pos + n] ELSE fileArray[d]]
    BY <1>3 DEF ReadInv, TableInv
  <2> QED
    BY <2>2, <2>3
<1>5. /\ got'[fd] = Piece(inode, 0, pos) \o Piece(inode, pos, n)
      /\ got' = [d \in FDs |-> got'[d]] /\ \A d \in FDs \ {fd} : got'[d] = got[d]
  BY <1>1, <1>3 DEF ReadInv
<1>6. Piece(inode, 0, pos) \o Piece(inode, pos, n) = Piece(inode, 0, pos + n)
  <2>1. pos \in Nat /\ n \in Nat /\ 0 \in Nat /\ 0 + pos = pos
    BY SMTT(40), <1>1 DEF GoodFile
  <2> HIDE DEF pos, inode
  <2>2. Piece(inode, 0, pos) \o Piece(inode, 0 + pos, n) = Piece(inode, 0, pos + n)
    BY ONLY <2>1, PiecesJoin
  <2> QED
    BY <2>1, <2>2
<1>7. pos + n \in 0..inodes[inode].length
  BY SMTT(40), <1>1, <1>2 DEF GoodFile
<1>8. FileInv(fd)'
  <2>1. got'[fd] = Piece(inode, 0, pos + n)
    BY <1>5, <1>6
  <2>2. fileArray'[fd].inode_indx = inode /\ fileArray'[fd].file_position = pos + n
    BY SMTT(40), <1>4
  <2> HIDE DEF pos, inode
  <2> QED
    BY <1>1, <1>7, <2>1, <2>2, FilePrimed
<1> QED
  BY <1>4, <1>5, <1>8, FileKept DEF ReadInv

(* Every call keeps the invariant.                                         *)
LEMMA NextRead ==
  ASSUME GoodImage, ShortReads, ReadInv, TableInv', [Next]_vars
  PROVE  ReadInv'
<1> DEFINE Goal == got' = [d \in FDs |-> got'[d]] /\ \A d \in FDs : FileInv(d)'
<1>1. CASE UNCHANGED <<fileArray, got>>
  <2>1. \A d \in FDs : FileInv(d)'
    BY <1>1, FileKept DEF ReadInv
  <2> QED
    BY <1>1, <2>1 DEF ReadInv
<1>2. ASSUME NEW name \in Names, open(name), ~UNCHANGED <<fileArray, got>> PROVE Goal
  <2>1. PICK i \in Openable(name), fd \in FreeFD :
          /\ fileArray' = [fileArray EXCEPT ![fd] =
               [type          |-> dentry[i].filetype,
                inode_indx    |-> IF dentry[i].filetype = REG_FILE THEN dentry[i].idx_inode ELSE 0,
                file_position |-> 0,
                flags         |-> 1]]
          /\ got' = [got EXCEPT ![fd] = <<>>]
    BY <1>2 DEF open
  <2>2. fd \in FDs /\ i \in DOMAIN dentry
    BY Numbers DEF FreeFD, Openable, Found
  <2>3. /\ got'[fd] = <<>> /\ got' = [d \in FDs |-> got'[d]]
        /\ \A d \in FDs \ {fd} : got'[d] = got[d] /\ fileArray'[d] = fileArray[d]
    BY <2>1, <2>2 DEF ReadInv, TableInv
  <2>4. FileInv(fd)'
    <3> SUFFICES ASSUME dentry[i].filetype = REG_FILE PROVE FileInv(fd)'
      BY <2>1, <2>2 DEF FileInv, ReadInv, TableInv
    <3> DEFINE inode == dentry[i].idx_inode
    <3>1. fileArray'[fd] = [type |-> REG_FILE, inode_indx |-> inode, file_position |-> 0, flags |-> 1]
      BY <2>1, <2>2 DEF ReadInv, TableInv
    <3>2. GoodFile(inode)
      BY <2>2 DEF GoodImage
    <3>3. 0 \in 0..inodes[inode].length
      BY SMTT(40), <3>2 DEF GoodFile
    <3>4. Piece(inode, 0, 0) = <<>>
      <4>1. Piece(inode, 0, 0) \in Seq({Byte(inode, j) : j \in Nat}) /\ Len(Piece(inode, 0, 0)) = 0
        BY PieceSeq
      <4> QED
        BY <4>1, EmptySeq
    <3> HIDE DEF inode
    <3> QED
      BY <2>3, <3>1, <3>2, <3>3, <3>4 DEF FileInv, GoodFile, Piece, Byte
  <2> QED
    BY <2>3, <2>4, FileKept DEF ReadInv
<1>3. ASSUME NEW fd \in -1..MAX_FD, close(fd), ~UNCHANGED <<fileArray, got>> PROVE Goal
  <2>1. /\ fd \in FDs /\ fileArray' = [fileArray EXCEPT ![fd] = Closed]
        /\ got' = [got EXCEPT ![fd] = <<>>]
    BY <1>3, Numbers DEF close, IsOpen
  <2>2. /\ fileArray'[fd] = Closed /\ got' = [d \in FDs |-> got'[d]]
        /\ \A d \in FDs \ {fd} : got'[d] = got[d] /\ fileArray'[d] = fileArray[d]
    BY <2>1 DEF ReadInv, TableInv
  <2>3. FileInv(fd)'
    BY <2>2 DEF FileInv, Closed, REG_FILE
  <2> QED
    BY <2>2, <2>3, FileKept DEF ReadInv
<1>4. ASSUME NEW fd \in -1..MAX_FD, NEW nbytes \in NBytes, read(fd, nbytes), ~UNCHANGED <<fileArray, got>> PROVE Goal
  <2>1. /\ fd \in FDs
        /\ \/ fileArray[fd].type = REG_FILE /\ read_fs(fd, nbytes)
           \/ fileArray[fd].type = DIR_FILE /\ read_fs_dir(fd, nbytes)
    BY <1>4, Numbers DEF read, IsOpen
  <2>2. CASE fileArray[fd].type = REG_FILE /\ read_fs(fd, nbytes)
    BY <2>1, <2>2, FileRead
  <2>3. CASE fileArray[fd].type = DIR_FILE /\ read_fs_dir(fd, nbytes)
    <3>1. /\ fileArray'[fd].type = DIR_FILE
          /\ got' = [d \in FDs |-> got'[d]]
          /\ \A d \in FDs \ {fd} : got'[d] = got[d] /\ fileArray'[d] = fileArray[d]
      BY <2>1, <2>3 DEF read_fs_dir, ReadInv, TableInv, Descriptor
    <3>2. FileInv(fd)'
      BY <3>1 DEF FileInv, DIR_FILE, REG_FILE
    <3> QED
      BY <3>1, <3>2, FileKept DEF ReadInv
  <2> QED
    BY <2>1, <2>2, <2>3
<1>5. CASE NewProcess
  <2>1. \A d \in FDs : FileInv(d)'
    BY <1>5 DEF NewProcess, Table, Stdio, Closed, FileInv, REG_FILE
  <2> QED
    BY <1>5, <2>1 DEF NewProcess, ReadInv
<1>6. CASE \E fd \in (-1..MAX_FD) \ {1} : write(fd)
  BY <1>1, <1>6 DEF write
<1>7. CASE UNCHANGED vars
  BY <1>1, <1>7 DEF vars
<1> QED
  BY <1>1, <1>2, <1>3, <1>4, <1>5, <1>6, <1>7 DEF Next, ReadInv

(* However a process cuts its reads, what it has read from a file is the   *)
(* beginning of the file: of every image whose block numbers are in range, *)
(* for requests that written_bytes can count.                              *)
THEOREM SequentialReadAlways ==
  ASSUME GoodImage, ShortReads
  PROVE  Spec => []SequentialRead
<1>1. Init => ReadInv
  <2> SUFFICES ASSUME Init PROVE ReadInv
    OBVIOUS
  <2>1. \A fd \in FDs : FileInv(fd)
    BY DEF Init, Table, Stdio, Closed, FileInv, REG_FILE
  <2> QED
    BY <2>1, InitTable DEF Init, ReadInv
<1>2. ReadInv /\ [Next]_vars => ReadInv'
  BY NextRead, NextTable DEF ReadInv
<1>3. ReadInv => SequentialRead
  <2> SUFFICES ASSUME ReadInv, NEW fd \in FDs, fileArray[fd].type = REG_FILE
               PROVE  /\ fileArray[fd].file_position = Len(got[fd])
                      /\ fileArray[fd].file_position <= inodes[fileArray[fd].inode_indx].length
                      /\ \A i \in 1..Len(got[fd]) : got[fd][i] = Byte(fileArray[fd].inode_indx, i - 1)
    BY DEF SequentialRead
  <2> DEFINE inode == fileArray[fd].inode_indx
             pos == fileArray[fd].file_position
  <2>1. GoodFile(inode) /\ pos \in 0..inodes[inode].length /\ got[fd] = Piece(inode, 0, pos)
    BY DEF ReadInv, FileInv
  <2>2. pos \in Nat /\ pos <= inodes[inode].length
    BY <2>1 DEF GoodFile
  <2> HIDE DEF pos, inode
  <2>3. Len(Piece(inode, 0, pos)) = pos
    BY <2>2, PieceSeq
  <2>4. \A i \in 1..pos : Piece(inode, 0, pos)[i] = Byte(inode, i - 1)
    <3>1. \A i \in 1..pos : 0 + i - 1 = i - 1
      BY <2>2
    <3> QED
      BY <3>1 DEF Piece
  <2> QED
    BY <2>1, <2>2, <2>3, <2>4 DEF pos, inode
<1> QED
  BY <1>1, <1>2, <1>3, PTL DEF Spec
-----------------------------------------------------------------------------
(* What was read from a directory, in terms of its position.               *)
Listed(pos) == [i \in 1..(IF pos < num_dir THEN pos ELSE num_dir) |-> dentry[i - 1].filename]

DirInv ==
  /\ TableInv
  /\ got = [fd \in FDs |-> got[fd]]
  /\ \A fd \in FDs : fileArray[fd].type = DIR_FILE =>
       fileArray[fd].file_position \in Nat /\ got[fd] = Listed(fileArray[fd].file_position)

(* The next entry goes at the end of the list.                             *)
LEMMA OneMore ==
  ASSUME NEW n \in Nat, NEW pos \in Nat, num_dir = n
  PROVE  Listed(pos + 1) = IF pos < num_dir THEN Append(Listed(pos), dentry[pos].filename) ELSE Listed(pos)
<1>1. CASE pos < n
  <2> DEFINE g == [i \in 1..pos |-> dentry[i - 1].filename]
             h == [i \in 1..(pos + 1) |-> dentry[i - 1].filename]
             S == {dentry[i].filename : i \in Nat}
  <2>1. Listed(pos) = g /\ Listed(pos + 1) = h
    <3>1. (IF pos < n THEN pos ELSE n) = pos /\ (IF pos + 1 < n THEN pos + 1 ELSE n) = pos + 1
      BY <1>1
    <3> QED
      BY <3>1 DEF Listed
  <2>2. g \in Seq(S) /\ Len(g) = pos
    <3>1. \A i \in 1..pos : i - 1 \in Nat
      OBVIOUS
    <3>2. g \in [1..pos -> S]
      BY <3>1
    <3> QED
      BY <3>2
  <2>3. dentry[pos].filename \in S /\ pos + 1 - 1 = pos
    OBVIOUS
  <2>4. Append(g, dentry[pos].filename) = h
    <3> HIDE DEF g
    <3>1. Append(g, dentry[pos].filename) =
            [i \in 1..(pos + 1) |-> IF i <= pos THEN g[i] ELSE dentry[pos].filename]
      BY <2>2, <2>3
    <3>2. \A i \in 1..(pos + 1) : (IF i <= pos THEN g[i] ELSE dentry[pos].filename) = dentry[i - 1].filename
      BY <2>3 DEF g
    <3> QED
      BY <3>1, <3>2
  <2> QED
    BY <1>1, <2>1, <2>4
<1>2. CASE ~(pos < n)
  BY <1>2 DEF Listed
<1> QED
  BY <1>1, <1>2

(* Listed is about the image, which does not change.                       *)
LEMMA ListedPrimed ==
  ASSUME NEW fd \in FDs,
         fileArray'[fd].type = DIR_FILE =>
           /\ fileArray'[fd].file_position \in Nat
           /\ got'[fd] = Listed(fileArray'[fd].file_position)
  PROVE  (fileArray[fd].type = DIR_FILE =>
            fileArray[fd].file_position \in Nat /\ got[fd] = Listed(fileArray[fd].file_position))'
BY DEF Listed, num_dir

(* Moving a position changes nothing else.                                 *)
LEMMA PositionMoved ==
  ASSUME TableInv, NEW fd \in FDs, NEW v, fileArray' = [fileArray EXCEPT ![fd].file_position = v]
  PROVE  /\ fileArray'[fd].type = fileArray[fd].type /\ fileArray'[fd].file_position = v
         /\ \A d \in FDs \ {fd} : fileArray'[d] = fileArray[d]
<1> DEFINE f == fileArray[fd]
<1>1. [f EXCEPT !.file_position = v] =
        [type |-> f.type, inode_indx |-> f.inode_indx, file_position |-> v, flags |-> f.flags]
  BY DEF TableInv, Descriptor
<1>2. fileArray' = [d \in FDs |-> IF d = fd THEN [f EXCEPT !.file_position = v] ELSE fileArray[d]]
  BY DEF TableInv
<1> QED
  BY <1>1, <1>2

(* Every call keeps the invariant.                                         *)
LEMMA NextDir ==
  ASSUME NEW n \in Nat, num_dir = n, DirInv, TableInv', [Next]_vars
  PROVE  DirInv'
<1> DEFINE Good(f, g) == f.type = DIR_FILE => f.file_position \in Nat /\ g = Listed(f.file_position)
<1>a. /\ fileArray = [d \in FDs |-> fileArray[d]] /\ got = [d \in FDs |-> got[d]]
      /\ \A d \in FDs : Good(fileArray[d], got[d])
  BY DEF DirInv, TableInv
<1>b. ASSUME got' = [d \in FDs |-> got'[d]], \A d \in FDs : Good(fileArray'[d], got'[d])
      PROVE  DirInv'
  <2>1. \A d \in FDs : (fileArray[d].type = DIR_FILE =>
            fileArray[d].file_position \in Nat /\ got[d] = Listed(fileArray[d].file_position))'
    BY <1>b, ListedPrimed
  <2> QED
    BY <1>b, <2>1 DEF DirInv
<1>1. CASE UNCHANGED <<fileArray, got>>
  BY <1>1, <1>a, <1>b
<1>2. ASSUME NEW name \in Names, open(name), ~UNCHANGED <<fileArray, got>> PROVE DirInv'
  <2>1. PICK i \in Openable(name), fd \in FreeFD :
          /\ fileArray' = [fileArray EXCEPT ![fd] =
               [type          |-> dentry[i].filetype,
                inode_indx    |-> IF dentry[i].filetype = REG_FILE THEN dentry[i].idx_inode ELSE 0,
                file_position |-> 0,
                flags         |-> 1]]
          /\ got' = [got EXCEPT ![fd] = <<>>]
    BY <1>2 DEF open
  <2>2. fd \in FDs
    BY Numbers DEF FreeFD
  <2>3. /\ fileArray'[fd].file_position = 0 /\ got'[fd] = <<>> /\ got' = [d \in FDs |-> got'[d]]
        /\ \A d \in FDs \ {fd} : got'[d] = got[d] /\ fileArray'[d] = fileArray[d]
    BY <1>a, <2>1, <2>2
  <2>4. Listed(0) = <<>>
    BY DEF Listed
  <2> QED
    BY <1>a, <1>b, <2>3, <2>4
<1>3. ASSUME NEW fd \in -1..MAX_FD, close(fd), ~UNCHANGED <<fileArray, got>> PROVE DirInv'
  <2>1. /\ fd \in FDs /\ fileArray' = [fileArray EXCEPT ![fd] = Closed]
        /\ got' = [got EXCEPT ![fd] = <<>>]
    BY <1>3, Numbers DEF close, IsOpen
  <2>2. /\ fileArray'[fd].type # DIR_FILE /\ got' = [d \in FDs |-> got'[d]]
        /\ \A d \in FDs \ {fd} : got'[d] = got[d] /\ fileArray'[d] = fileArray[d]
    BY <1>a, <2>1 DEF Closed, DIR_FILE
  <2> QED
    BY <1>a, <1>b, <2>2
<1>4. ASSUME NEW fd \in -1..MAX_FD, NEW nbytes \in NBytes, read(fd, nbytes), ~UNCHANGED <<fileArray, got>>
      PROVE  DirInv'
  <2>1. /\ fd \in FDs
        /\ \/ fileArray[fd].type = REG_FILE /\ read_fs(fd, nbytes)
           \/ fileArray[fd].type = DIR_FILE /\ read_fs_dir(fd, nbytes)
    BY <1>4, Numbers DEF read, IsOpen
  <2>2. CASE fileArray[fd].type = REG_FILE /\ read_fs(fd, nbytes)
    <3>1. PICK v, w : /\ fileArray' = [fileArray EXCEPT ![fd].file_position = v]
                      /\ got' = [got EXCEPT ![fd] = w]
      BY <2>2, Zenon DEF read_fs
    <3>2. fileArray'[fd].type = REG_FILE /\ \A d \in FDs \ {fd} : fileArray'[d] = fileArray[d]
      BY <2>1, <2>2, <3>1, PositionMoved DEF DirInv
    <3>3. got' = [d \in FDs |-> got'[d]] /\ \A d \in FDs \ {fd} : got'[d] = got[d]
      BY <1>a, <2>1, <3>1
    <3> QED
      BY <1>a, <1>b, <3>2, <3>3 DEF REG_FILE, DIR_FILE
  <2>3. CASE fileArray[fd].type = DIR_FILE /\ read_fs_dir(fd, nbytes)
    <3> DEFINE pos == fileArray[fd].file_position
    <3>1. pos \in Nat /\ got[fd] = Listed(pos)
      BY <1>a, <2>1, <2>3
    <3>2. /\ fileArray' = [fileArray EXCEPT ![fd].file_position = pos + 1]
          /\ got' = IF pos < num_dir THEN [got EXCEPT ![fd] = Append(@, dentry[pos].filename)] ELSE got
      BY <2>3 DEF read_fs_dir, NextEntry
    <3>3. /\ fileArray'[fd].file_position = pos + 1
          /\ \A d \in FDs \ {fd} : fileArray'[d] = fileArray[d]
      BY <2>1, <3>2, PositionMoved DEF DirInv
    <3>4. /\ got' = [d \in FDs |-> got'[d]] /\ \A d \in FDs \ {fd} : got'[d] = got[d]
          /\ got'[fd] = IF pos < num_dir THEN Append(Listed(pos), dentry[pos].filename) ELSE Listed(pos)
      BY <1>a, <2>1, <3>1, <3>2
    <3>5. got'[fd] = Listed(pos + 1)
      BY <3>1, <3>4, OneMore
    <3> HIDE DEF pos
    <3> QED
      BY <1>a, <1>b, <3>1, <3>3, <3>4, <3>5
  <2> QED
    BY <2>1, <2>2, <2>3
<1>5. CASE NewProcess
  <2>1. \A d \in FDs : Good(fileArray'[d], got'[d])
    BY <1>5 DEF NewProcess, Table, Stdio, Closed, DIR_FILE
  <2> QED
    BY <1>5, <1>b, <2>1 DEF NewProcess
<1>6. CASE \E fd \in (-1..MAX_FD) \ {1} : write(fd)
  BY <1>1, <1>6 DEF write
<1> QED
  BY <1>1, <1>2, <1>3, <1>4, <1>5, <1>6 DEF Next, vars

(* However a process mixes its calls, its reads of a directory have        *)
(* delivered the names in it in order, each once.                          *)
THEOREM DirectoryOnceAlways ==
  ASSUME num_dir \in Nat
  PROVE  Spec => []DirectoryOnce
<1>1. Init => DirInv
  <2> SUFFICES ASSUME Init PROVE DirInv
    OBVIOUS
  <2>1. \A fd \in FDs : fileArray[fd].type # DIR_FILE
    BY DEF Init, Table, Stdio, Closed, DIR_FILE
  <2> QED
    BY <2>1, InitTable DEF Init, DirInv
<1>2. DirInv /\ [Next]_vars => DirInv'
  BY NextDir, NextTable DEF DirInv
<1>3. DirInv => DirectoryOnce
  BY DEF DirInv, DirectoryOnce, Listed
<1> QED
  BY <1>1, <1>2, <1>3, PTL DEF Spec

-----------------------------------------------------------------------------
(* cat and ls.  Table t and data g have descriptor fd open for entry i of  *)
(* the directory and read up to pos.                                       *)
Holds(t, g, fd, i, pos) ==
  /\ fd \in MIN_FD..(MAX_FD - 1) /\ i \in DOMAIN dentry /\ pos \in Nat
  /\ t = [d \in FDs |-> t[d]] /\ g = [d \in FDs |-> g[d]]
  /\ t[fd] = [type          |-> dentry[i].filetype,
              inode_indx    |-> IF dentry[i].filetype = REG_FILE THEN dentry[i].idx_inode ELSE 0,
              file_position |-> pos,
              flags         |-> 1]
  /\ dentry[i].filetype = REG_FILE =>
       /\ pos <= inodes[dentry[i].idx_inode].length
       /\ g[fd] = Piece(dentry[i].idx_inode, 0, pos)
  /\ dentry[i].filetype = DIR_FILE => g[fd] = Listed(pos)

Empty == [fd \in FDs |-> <<>>]

(* The first m of f and the n after them are the first m + n.              *)
LEMMA Cuts ==
  ASSUME NEW X, NEW f \in [Nat \ {0} -> X], NEW m \in Nat, NEW n \in Nat
  PROVE  [j \in 1..m |-> f[j]] \o [j \in 1..n |-> f[m + j]] = [j \in 1..(m + n) |-> f[j]]
<1> DEFINE a == [j \in 1..m |-> f[j]]
           b == [j \in 1..n |-> f[m + j]]
           c == [j \in 1..(m + n) |-> f[j]]
<1>1. a \in Seq(X) /\ Len(a) = m /\ b \in Seq(X) /\ Len(b) = n
  OBVIOUS
<1>2. c \in Seq(X) /\ Len(c) = m + n
  OBVIOUS
<1>3. /\ a \o b \in Seq(X) /\ Len(a \o b) = m + n
      /\ \A j \in 1..(m + n) : (a \o b)[j] = IF j <= m THEN a[j] ELSE b[j - m]
  <2> HIDE DEF a, b
  <2> QED
    BY <1>1, ConcatProperties
<1>4. ASSUME NEW j \in 1..(m + n) PROVE (IF j <= m THEN a[j] ELSE b[j - m]) = c[j]
  <2>1. CASE j <= m
    BY <2>1
  <2>2. CASE ~(j <= m)
    <3>1. j - m \in 1..n /\ m + (j - m) = j
      BY <2>2
    <3>2. b[j - m] = f[j]
      BY <3>1
    <3> QED
      BY <2>2, <3>2
  <2> QED
    BY <2>1, <2>2
<1> HIDE DEF a, b, c
<1>5. a \o b = c
  BY <1>2, <1>3, <1>4, SeqEqual
<1> QED
  BY <1>5 DEF a, b, c

(* The first open of a process.                                            *)
LEMMA FirstOpen ==
  ASSUME GoodImage, num_dir \in Nat, fileArray = Table, got = Empty, NEW name, open(name)
  PROVE  IF Openable(name) = {} THEN retval' = -1 /\ UNCHANGED <<fileArray, got>>
         ELSE \E i \in Openable(name), fd \in MIN_FD..(MAX_FD - 1) :
                retval' = fd /\ Holds(fileArray', got', fd, i, 0)
<1>1. CASE Openable(name) = {}
  BY <1>1 DEF open
<1>2. CASE Openable(name) # {}
  <2>1. MIN_FD \in FreeFD
    BY FileSystemAssumption, Numbers DEF FreeFD, Table, Closed, MIN_FD, FDs
  <2>2. PICK i \in Openable(name), fd \in FreeFD :
          /\ fileArray' = [fileArray EXCEPT ![fd] =
               [type          |-> dentry[i].filetype,
                inode_indx    |-> IF dentry[i].filetype = REG_FILE THEN dentry[i].idx_inode ELSE 0,
                file_position |-> 0,
                flags         |-> 1]]
          /\ retval' = fd
          /\ got' = [got EXCEPT ![fd] = <<>>]
    BY <1>2, <2>1 DEF open
  <2>3. fd \in MIN_FD..(MAX_FD - 1) /\ fd \in FDs /\ i \in DOMAIN dentry
    BY Numbers DEF FreeFD, Openable, Found
  <2>4. /\ fileArray' = [d \in FDs |-> fileArray'[d]] /\ got' = [d \in FDs |-> got'[d]]
        /\ fileArray'[fd] = [type          |-> dentry[i].filetype,
                             inode_indx    |-> IF dentry[i].filetype = REG_FILE
                                               THEN dentry[i].idx_inode ELSE 0,
                             file_position |-> 0,
                             flags         |-> 1]
        /\ got'[fd] = <<>>
    BY <2>2, <2>3 DEF Table, Empty
  <2>5. ASSUME dentry[i].filetype = REG_FILE
        PROVE  /\ 0 <= inodes[dentry[i].idx_inode].length
               /\ got'[fd] = Piece(dentry[i].idx_inode, 0, 0)
    <3>1. GoodFile(dentry[i].idx_inode)
      BY <2>3, <2>5 DEF GoodImage
    <3>2. Piece(dentry[i].idx_inode, 0, 0) = <<>>
      <4>1. LET inode == dentry[i].idx_inode
            IN  Piece(inode, 0, 0) \in Seq({Byte(inode, j) : j \in Nat}) /\ Len(Piece(inode, 0, 0)) = 0
        BY PieceSeq
      <4> QED
        BY <4>1, EmptySeq
    <3> QED
      BY SMTT(40), <2>4, <3>1, <3>2 DEF GoodFile
  <2>6. got'[fd] = Listed(0)
    <3>1. Listed(0) = <<>>
      BY DEF Listed
    <3> QED
      BY <2>4, <3>1
  <2>7. Holds(fileArray', got', fd, i, 0)
    BY <2>3, <2>4, <2>5, <2>6 DEF Holds
  <2> QED
    BY <1>2, <2>2, <2>3, <2>7
<1> QED
  BY <1>1, <1>2

(* A descriptor moves on with what the read returned.                      *)
LEMMA HoldsOn ==
  ASSUME NEW fd, NEW i, NEW pos, NEW next, NEW new, Holds(fileArray, got, fd, i, pos),
         fileArray' = [fileArray EXCEPT ![fd].file_position = next],
         got' = [got EXCEPT ![fd] = new], next \in Nat,
         dentry[i].filetype = REG_FILE =>
           /\ next <= inodes[dentry[i].idx_inode].length
           /\ new = Piece(dentry[i].idx_inode, 0, next),
         dentry[i].filetype = DIR_FILE => new = Listed(next)
  PROVE  Holds(fileArray', got', fd, i, next)
<1> DEFINE f(p) == [type          |-> dentry[i].filetype,
                    inode_indx    |-> IF dentry[i].filetype = REG_FILE THEN dentry[i].idx_inode ELSE 0,
                    file_position |-> p,
                    flags         |-> 1]
<1>1. /\ fd \in FDs /\ fd \in MIN_FD..(MAX_FD - 1) /\ i \in DOMAIN dentry
      /\ fileArray = [d \in FDs |-> fileArray[d]] /\ got = [d \in FDs |-> got[d]]
      /\ fileArray[fd] = f(pos)
  BY Numbers DEF Holds
<1>2. [fileArray[fd] EXCEPT !.file_position = next] = f(next)
  BY <1>1
<1> HIDE DEF f
<1>3. /\ fileArray' = [d \in FDs |-> fileArray'[d]] /\ got' = [d \in FDs |-> got'[d]]
      /\ fileArray'[fd] = f(next) /\ got'[fd] = new
  BY <1>1, <1>2
<1> QED
  BY <1>1, <1>3 DEF Holds, f

(* A step that reads n characters of entry i, a file, from pos on, and     *)
(* none only at the end.                                                   *)
TakesFile(fd, i, pos, n) ==
  LET inode == dentry[i].idx_inode
  IN  /\ retval' = n
      /\ n = 0 => pos = inodes[inode].length
      /\ Holds(fileArray', got', fd, i, pos + n)
      /\ Delivered(fd) = [j \in 1..n |-> image[Byte(inode, pos + j - 1)]]

(* read of a file is such a step.                                          *)
LEMMA ReadsFile ==
  ASSUME GoodImage, NEW fd, NEW i, NEW pos, Holds(fileArray, got, fd, i, pos),
         dentry[i].filetype = REG_FILE, NEW nbytes \in 1..(Half - 1), read(fd, nbytes)
  PROVE  \E n \in Nat : TakesFile(fd, i, pos, n)
<1> DEFINE inode == dentry[i].idx_inode
           S == {Byte(inode, j) : j \in Nat}
<1>1. /\ fd \in FDs /\ fd \in MIN_FD..(MAX_FD - 1) /\ i \in DOMAIN dentry /\ pos \in Nat
      /\ fileArray[fd].type = REG_FILE /\ fileArray[fd].inode_indx = inode
      /\ fileArray[fd].file_position = pos /\ fileArray[fd].flags = 1
      /\ pos <= inodes[inode].length /\ got[fd] = Piece(inode, 0, pos)
      /\ got = [d \in FDs |-> got[d]]
  BY Numbers DEF Holds
<1>2. GoodFile(inode) /\ num_data \in Nat
  BY <1>1 DEF GoodImage
<1>3. pos \in 0..inodes[inode].length /\ nbytes \in 0..(Half - 1) /\ nbytes # 0
  BY SMTT(40), <1>1, <1>2, FileSystemAssumption DEF GoodFile
<1>4. PICK n \in Nat :
        /\ pos + n <= inodes[inode].length
        /\ n = 0 => pos = inodes[inode].length \/ nbytes = 0
        /\ read_data(inode, pos % Word, nbytes % Word) = [n |-> n, bytes |-> Piece(inode, pos, n)]
  <2> HIDE DEF inode
  <2> QED
    BY <1>2, <1>3, DataRead
<1>5. read_fs(fd, nbytes)
  BY <1>1 DEF read, IsOpen, REG_FILE, DIR_FILE, RTC_FILE
<1>6. /\ fileArray' = [fileArray EXCEPT ![fd].file_position = pos + n]
      /\ got' = [got EXCEPT ![fd] = got[fd] \o Piece(inode, pos, n)]
      /\ retval' = n
  <2> DEFINE r == read_data(inode, pos % Word, nbytes % Word)
  <2>1. /\ fileArray' = [fileArray EXCEPT ![fd].file_position = @ + r.n]
        /\ got' = [got EXCEPT ![fd] = @ \o r.bytes]
        /\ retval' = r.n
    BY Zenon, <1>1, <1>5 DEF read_fs
  <2>2. r = [n |-> n, bytes |-> Piece(inode, pos, n)]
    BY Zenon, <1>4
  <2> HIDE DEF r
  <2>3. r.n = n /\ r.bytes = Piece(inode, pos, n)
    BY ONLY <2>2
  <2> QED
    BY <1>1, <2>1, <2>3
<1>7. got[fd] \o Piece(inode, pos, n) = Piece(inode, 0, pos + n)
  <2>1. 0 + pos = pos /\ pos \in Nat /\ 0 \in Nat
    BY <1>1
  <2> HIDE DEF inode
  <2>2. Piece(inode, 0, pos) \o Piece(inode, 0 + pos, n) = Piece(inode, 0, pos + n)
    BY ONLY <2>1, n \in Nat, PiecesJoin
  <2> QED
    BY <1>1, <2>1, <2>2
<1>8. Holds(fileArray', got', fd, i, pos + n)
  <2>1. pos + n \in Nat /\ REG_FILE # DIR_FILE
    BY <1>1 DEF REG_FILE, DIR_FILE
  <2> QED
    BY <1>4, <1>6, <1>7, <2>1, HoldsOn
<1>9. Delivered(fd) = [j \in 1..n |-> image[Byte(inode, pos + j - 1)]]
  <2> DEFINE p == Piece(inode, pos, n)
             new == SubSeq(got'[fd], Len(got[fd]) + 1, Len(got'[fd]))
  <2>1. got'[fd] = got[fd] \o p
    BY <1>1, <1>6
  <2>2. got[fd] \in Seq(S) /\ Len(got[fd]) = pos /\ p \in Seq(S) /\ Len(p) = n
    <3> HIDE DEF inode
    <3>1. 0 \in Nat /\ pos \in Nat
      BY <1>1
    <3>2. Piece(inode, 0, pos) \in Seq(S) /\ Len(Piece(inode, 0, pos)) = pos
      BY <3>1, PieceSeq
    <3>3. Piece(inode, pos, n) \in Seq(S) /\ Len(Piece(inode, pos, n)) = n
      BY <3>1, PieceSeq
    <3> QED
      BY <1>1, <3>2, <3>3
  <2>3. \A j \in 1..n : p[j] = Byte(inode, pos + j - 1)
    BY DEF Piece
  <2> HIDE DEF p, S
  <2>4. /\ got'[fd] \in Seq(S) /\ Len(got'[fd]) = pos + n
        /\ \A j \in 1..n : got'[fd][pos + j] = p[j]
    BY <1>1, <2>1, <2>2, ConcatProperties
  <2>5. DOMAIN new = 1..n /\ \A j \in 1..n : new[j] = p[j]
    <3> DEFINE q == got'[fd]
    <3>1. new = SubSeq(q, pos + 1, pos + n)
      BY Zenon, <2>2, <2>4
    <3>2. q \in Seq(S) /\ Len(q) = pos + n /\ \A j \in 1..n : q[pos + j] = p[j]
      BY Zenon, <2>4
    <3> HIDE DEF new, q
    <3>3. pos \in Nat /\ n \in Nat
      BY <1>1
    <3>4. \A j \in (pos + 1)..(pos + n) : q[j] \in S
      BY ONLY <3>2, <3>3
    <3>5. pos + 1 \in Int /\ pos + n \in Int
      BY ONLY <3>3
    <3>6. /\ new \in Seq(S)
          /\ Len(new) = IF pos + 1 <= pos + n THEN (pos + n) - (pos + 1) + 1 ELSE 0
          /\ \A j \in 1..((pos + n) - (pos + 1) + 1) : new[j] = q[(pos + 1) + j - 1]
      BY ONLY <3>1, <3>4, <3>5, SubSeqProperties
    <3>7. (pos + n) - (pos + 1) + 1 = n /\ \A j \in 1..n : (pos + 1) + j - 1 = pos + j
      BY ONLY <3>3
    <3>8. Len(new) = n
      BY ONLY <3>3, <3>6
    <3>9. \A j \in 1..n : new[j] = p[j]
      BY ONLY Zenon, <3>2, <3>6, <3>7
    <3> QED
      BY ONLY <3>6, <3>8, <3>9
  <2>6. Delivered(fd) = [j \in DOMAIN new |-> image[new[j]]]
    BY <1>1 DEF Delivered
  <2> HIDE DEF new
  <2> QED
    BY SMTT(40), <2>3, <2>5, <2>6
<1> QED
  BY <1>3, <1>4, <1>6, <1>8, <1>9 DEF TakesFile

(* A read of the directory: the next name, and nothing only at the end.    *)
LEMMA ReadsDirectory ==
  ASSUME num_dir \in Nat, NEW fd, NEW i, NEW pos, Holds(fileArray, got, fd, i, pos),
         dentry[i].filetype = DIR_FILE, NEW nbytes, read(fd, nbytes)
  PROVE  /\ Holds(fileArray', got', fd, i, pos + 1)
         /\ IF pos < num_dir THEN retval' = nbytes /\ Delivered(fd) = <<dentry[pos].filename>>
            ELSE retval' = 0
<1>1. /\ fd \in FDs /\ fd \in MIN_FD..(MAX_FD - 1) /\ pos \in Nat
      /\ fileArray[fd].type = DIR_FILE /\ fileArray[fd].file_position = pos
      /\ fileArray[fd].flags = 1 /\ got[fd] = Listed(pos) /\ got = [d \in FDs |-> got[d]]
  BY Numbers DEF Holds
<1>2. read_fs_dir(fd, nbytes)
  BY <1>1 DEF read, IsOpen, REG_FILE, DIR_FILE, RTC_FILE
<1>3. /\ fileArray' = [fileArray EXCEPT ![fd].file_position = pos + 1]
      /\ IF pos < num_dir
         THEN got' = [got EXCEPT ![fd] = Append(Listed(pos), dentry[pos].filename)] /\ retval' = nbytes
         ELSE got' = got /\ retval' = 0
  BY <1>1, <1>2 DEF read_fs_dir, NextEntry
<1>4. Listed(pos + 1) = IF pos < num_dir THEN Append(Listed(pos), dentry[pos].filename) ELSE Listed(pos)
  BY <1>1, OneMore
<1>5. got' = [got EXCEPT ![fd] = Listed(pos + 1)]
  BY <1>1, <1>3, <1>4
<1>6. Holds(fileArray', got', fd, i, pos + 1)
  <2>1. pos + 1 \in Nat /\ REG_FILE # DIR_FILE
    BY <1>1 DEF REG_FILE, DIR_FILE
  <2> QED
    BY <1>3, <1>5, <2>1, HoldsOn
<1>7. ASSUME pos < num_dir PROVE Delivered(fd) = <<dentry[pos].filename>>
  <2> DEFINE X == {dentry[j].filename : j \in Nat}
  <2>1. Listed(pos) \in Seq(X) /\ Len(Listed(pos)) = pos
    <3>1. Listed(pos) = [j \in 1..pos |-> dentry[j - 1].filename]
      BY <1>7 DEF Listed
    <3>2. \A j \in 1..pos : j - 1 \in Nat
      BY <1>1
    <3> QED
      BY <1>1, <3>1, <3>2
  <2>2. dentry[pos].filename \in X
    BY <1>1
  <2> HIDE DEF X
  <2>3. got'[fd] = Append(Listed(pos), dentry[pos].filename)
    BY <1>1, <1>3, <1>7
  <2>4. Delivered(fd) = SubSeq(got'[fd], Len(got[fd]) + 1, Len(got'[fd]))
    BY <1>1 DEF Delivered, REG_FILE, DIR_FILE
  <2> DEFINE a == Append(Listed(pos), dentry[pos].filename)
  <2>5. a \in Seq(X) /\ Len(a) = pos + 1 /\ a[pos + 1] = dentry[pos].filename
    BY <1>1, <2>1, <2>2
  <2> HIDE DEF a
  <2>6. SubSeq(a, pos + 1, pos + 1) = <<a[pos + 1]>>
    <3> DEFINE b == SubSeq(a, pos + 1, pos + 1)
    <3>1. b \in Seq(X) /\ Len(b) = 1 /\ b[1] = a[pos + 1]
      BY <1>1, <2>5
    <3> HIDE DEF b
    <3>2. b = <<b[1]>>
      BY <3>1
    <3> QED
      BY <3>1, <3>2 DEF b
  <2> QED
    BY <1>1, <2>1, <2>3, <2>4, <2>5, <2>6 DEF a
<1> QED
  BY <1>3, <1>6, <1>7

(* The first n characters of a file, and the lines of ls for the first p   *)
(* names.                                                                  *)
Characters(inode, n) == [j \in 1..n |-> image[Byte(inode, j - 1)]]

NameLines(p) ==
  [k \in 1..(2 * p) |-> IF k % 2 = 1 THEN dentry[((k + 1) \div 2) - 1].filename ELSE NEWLINE]

(* The characters of a read follow those before.                           *)
LEMMA MoreCharacters ==
  ASSUME NEW inode, NEW pos \in Nat, NEW n \in Nat
  PROVE  Characters(inode, pos) \o [j \in 1..n |-> image[Byte(inode, pos + j - 1)]] =
           Characters(inode, pos + n)
<1> DEFINE c(j) == image[Byte(inode, j - 1)]
           X == {c(j) : j \in Nat \ {0}}
           f == [j \in Nat \ {0} |-> c(j)]
<1>1. f \in [Nat \ {0} -> X]
  <2> HIDE DEF c
  <2> QED
    OBVIOUS
<1>2. /\ \A j \in 1..pos : f[j] = c(j)
      /\ \A j \in 1..n : f[pos + j] = c(pos + j)
      /\ \A j \in 1..(pos + n) : f[j] = c(j)
  <2> HIDE DEF c
  <2> QED
    OBVIOUS
<1> HIDE DEF f, X
<1>3. [j \in 1..pos |-> f[j]] \o [j \in 1..n |-> f[pos + j]] = [j \in 1..(pos + n) |-> f[j]]
  BY <1>1, Cuts
<1>4. /\ [j \in 1..pos |-> f[j]] = Characters(inode, pos)
      /\ [j \in 1..n |-> f[pos + j]] = [j \in 1..n |-> image[Byte(inode, pos + j - 1)]]
      /\ [j \in 1..(pos + n) |-> f[j]] = Characters(inode, pos + n)
  BY <1>2 DEF Characters
<1> QED
  BY <1>3, <1>4

(* The next name and its newline follow those before.                      *)
LEMMA MoreLines ==
  ASSUME NEW p \in Nat
  PROVE  NameLines(p) \o (<<dentry[p].filename>> \o <<NEWLINE>>) = NameLines(p + 1)
<1> DEFINE c(k) == IF k % 2 = 1 THEN dentry[((k + 1) \div 2) - 1].filename ELSE NEWLINE
           X == {c(k) : k \in Nat \ {0}}
           f == [k \in Nat \ {0} |-> c(k)]
           m == 2 * p
<1>1. f \in [Nat \ {0} -> X]
  <2> HIDE DEF c
  <2> QED
    OBVIOUS
<1>2. m \in Nat /\ 2 * (p + 1) = m + 2 /\ m + 1 \in Nat \ {0} /\ m + 2 \in Nat \ {0}
  OBVIOUS
<1>3. (\A k \in 1..m : f[k] = c(k)) /\ (\A k \in 1..(m + 2) : f[k] = c(k))
  <2> HIDE DEF c, m
  <2> QED
    BY <1>2
<1>4. f[m + 1] = dentry[p].filename /\ f[m + 2] = NEWLINE
  <2>1. (m + 1) % 2 = 1 /\ ((m + 1 + 1) \div 2) - 1 = p /\ (m + 2) % 2 # 1
    OBVIOUS
  <2>2. c(m + 1) = dentry[p].filename /\ c(m + 2) = NEWLINE
    <3> HIDE DEF m
    <3> QED
      BY Zenon, <2>1
  <2>3. f[m + 1] = c(m + 1) /\ f[m + 2] = c(m + 2)
    <3> HIDE DEF c, m
    <3> QED
      BY <1>2
  <2> QED
    BY Zenon, <2>2, <2>3
<1>5. NameLines(p) = [k \in 1..m |-> f[k]] /\ NameLines(p + 1) = [k \in 1..(m + 2) |-> f[k]]
  <2>1. NameLines(p) = [k \in 1..m |-> c(k)] /\ NameLines(p + 1) = [k \in 1..(m + 2) |-> c(k)]
    BY Zenon, <1>2 DEF NameLines
  <2> HIDE DEF c, m, f
  <2> QED
    BY <1>3, <2>1
<1>6. <<dentry[p].filename>> \o <<NEWLINE>> = [k \in 1..2 |-> f[m + k]]
  <2> HIDE DEF f, X, m
  <2>1. PICK u, v : /\ u = dentry[p].filename /\ v = NEWLINE
                    /\ f[m + 1] = u /\ f[m + 2] = v
    BY Zenon, <1>4
  <2>2. u \in X /\ v \in X
    BY <1>1, <1>2, <2>1
  <2> DEFINE a == <<u>> \o <<v>>
             b == [k \in 1..2 |-> f[m + k]]
  <2>3. a \in Seq(X) /\ Len(a) = 2 /\ a[1] = u /\ a[2] = v
    BY <2>2
  <2>4. b \in Seq(X) /\ Len(b) = 2 /\ b[1] = u /\ b[2] = v
    BY <1>2, <2>1, <2>2
  <2>5. \A k \in 1..2 : k = 1 \/ k = 2
    OBVIOUS
  <2> HIDE DEF a, b
  <2>6. a = b
    BY <2>3, <2>4, <2>5, SeqEqual
  <2> QED
    BY Zenon, <2>1, <2>6 DEF a, b
<1> HIDE DEF f, X, m
<1>7. [k \in 1..m |-> f[k]] \o [k \in 1..2 |-> f[m + k]] = [k \in 1..(m + 2) |-> f[k]]
  BY <1>1, <1>2, Cuts
<1> QED
  BY Zenon, <1>5, <1>6, <1>7

(* An image cat and ls can print: the directory has an entry for itself,   *)
(* and the buffer of cat is one that written_bytes can count.              *)
PrintDisk ==
  /\ GoodImage
  /\ num_dir \in Nat /\ DOMAIN dentry = 0..num_dir
  /\ Found(".") # {} /\ Type(".") = DIR_FILE
  /\ BUFSIZE \in 1..(Half - 1)

(* A name has one entry.                                                   *)
LEMMA OneEntry ==
  ASSUME PrintDisk, NEW name, NEW i \in Openable(name)
  PROVE  /\ i \in Found(name) /\ i \in DOMAIN dentry
         /\ Type(name) = dentry[i].filetype /\ Inode(name) = dentry[i].idx_inode
<1>1. i \in Found(name)
  BY Zenon DEF Openable
<1>2. i \in DOMAIN dentry
  BY <1>1 DEF Found
<1>3. ASSUME NEW j \in Found(name) PROVE j = i
  <2>1. i \in Nat /\ j \in Nat /\ i <= j /\ j <= i
    BY <1>1 DEF Found, PrintDisk
  <2> QED
    BY <2>1
<1>4. (CHOOSE j \in Found(name) : TRUE) = i
  BY <1>1, <1>3
<1> QED
  BY <1>1, <1>2, <1>4 DEF Type, Inode

(* What cat shows for arguments a, and its states: process data l, output  *)
(* o, table t and delivered data g at each label.                          *)
NoArgs(a) == a = ""

CatWhole(a) ==
  IF NoArgs(a) THEN <<"could not read arguments">>
  ELSE IF Openable(a) = {} THEN <<"file not found">>
  ELSE IF Type(a) = DIR_FILE THEN Directory ELSE Text(a)

CatPart(i, pos) ==
  IF dentry[i].filetype = REG_FILE THEN Characters(dentry[i].idx_inode, pos)
  ELSE IF dentry[i].filetype = DIR_FILE THEN Listed(pos) ELSE <<>>

CatReads(a, l, o, t, g, fd, i, pos) ==
  l = [fd |-> fd] /\ i \in Openable(a) /\ Holds(t, g, fd, i, pos) /\ o = CatPart(i, pos)

CatState(a, label, l, o, t, g) ==
  /\ label \in {"start", "open"} => o = <<>> /\ t = Table /\ g = Empty
  /\ label \in {"open", "read"} => ~NoArgs(a)
  /\ label = "read" => \E fd, i, pos : CatReads(a, l, o, t, g, fd, i, pos)
  /\ label = "done" => o = CatWhole(a)

(* The same for ls.                                                        *)
LsReads(l, o, t, g, fd, i, pos) ==
  /\ l = [fd |-> fd] /\ i \in Openable(".") /\ Holds(t, g, fd, i, pos)
  /\ o = NameLines(IF pos < num_dir THEN pos ELSE num_dir)

LsState(label, l, o, t, g) ==
  /\ label = "start" => o = <<>> /\ t = Table /\ g = Empty
  /\ label = "read" => \E fd, i, pos : LsReads(l, o, t, g, fd, i, pos)
  /\ label = "done" => o = NameLines(num_dir)

PrintInv ==
  /\ program = "cat" => CatState(args, pc, local, out, fileArray, got)
  /\ program = "ls" => LsState(pc, local, out, fileArray, got)

(* The image does not change.                                              *)
LEMMA PrintPrimed ==
  ASSUME program' = "cat" => CatState(args', pc', local', out', fileArray', got'),
         program' = "ls" => LsState(pc', local', out', fileArray', got')
  PROVE  PrintInv'
BY Zenon DEF PrintInv, CatState, CatReads, CatPart, CatWhole, LsState, LsReads, NoArgs, Holds, Empty,
     Table, Stdio, Closed, Openable, Found, Type, Inode, Directory, Text, Characters, NameLines, Listed,
     Piece, Byte, num_dir, FDs, MIN_FD, REG_FILE, DIR_FILE, NEWLINE

(* A message and the end.                                                  *)
LEMMA GivesUp ==
  ASSUME NEW message, NEW code, out = <<>>, GiveUp(message, code)
  PROVE  out' = <<message>> /\ pc' = "done" /\ args' = args
BY DEF GiveUp, Say, Return

(* Each label of CatState, one at a time.                                  *)
LEMMA CatLabels ==
  ASSUME NEW a, NEW label, NEW l, NEW o, NEW t, NEW g
  PROVE  /\ label = "open" /\ o = <<>> /\ t = Table /\ g = Empty /\ ~NoArgs(a) => CatState(a, label, l, o, t, g)
         /\ label = "read" /\ ~NoArgs(a) /\ (\E fd, i, pos : CatReads(a, l, o, t, g, fd, i, pos))
              => CatState(a, label, l, o, t, g)
         /\ label = "done" /\ o = CatWhole(a) => CatState(a, label, l, o, t, g)
BY DEF CatState

(* Nothing of a file or of the directory.                                  *)
LEMMA NothingYet ==
  ASSUME num_dir \in Nat
  PROVE  /\ \A i : CatPart(i, 0) = <<>>
         /\ NameLines(0) = <<>>
<1>1. \A inode : Characters(inode, 0) = <<>>
  BY DEF Characters
<1>2. Listed(0) = <<>>
  BY DEF Listed
<1>3. NameLines(0) = <<>>
  BY DEF NameLines
<1> QED
  BY <1>1, <1>2, <1>3 DEF CatPart

(* All of it.                                                              *)
LEMMA AllOfIt ==
  ASSUME PrintDisk, NEW a, ~NoArgs(a), NEW i \in Openable(a), NEW pos \in Nat,
         dentry[i].filetype = REG_FILE => pos = inodes[dentry[i].idx_inode].length,
         dentry[i].filetype = DIR_FILE => ~(pos < num_dir)
  PROVE  CatPart(i, pos) = CatWhole(a)
<1>1. Type(a) = dentry[i].filetype /\ Inode(a) = dentry[i].idx_inode
  BY OneEntry
<1>2. CatWhole(a) = IF Type(a) = DIR_FILE THEN Directory ELSE Text(a)
  BY Zenon DEF CatWhole
<1>3. CASE dentry[i].filetype = REG_FILE
  <2>1. CatPart(i, pos) = Characters(Inode(a), inodes[Inode(a)].length)
    BY <1>1, <1>3 DEF CatPart
  <2>2. Text(a) = Characters(Inode(a), inodes[Inode(a)].length)
    BY <1>1, <1>3 DEF Text, Characters
  <2>3. REG_FILE # DIR_FILE
    BY DEF REG_FILE, DIR_FILE
  <2> QED
    BY <1>1, <1>2, <1>3, <2>1, <2>2, <2>3
<1>4. CASE dentry[i].filetype = DIR_FILE
  <2>1. Listed(pos) = Directory
    BY <1>4 DEF Listed, Directory, PrintDisk
  <2>2. REG_FILE # DIR_FILE
    BY DEF REG_FILE, DIR_FILE
  <2> QED
    BY <1>1, <1>2, <1>4, <2>1, <2>2 DEF CatPart
<1>5. CASE dentry[i].filetype \notin {REG_FILE, DIR_FILE}
  BY <1>1, <1>2, <1>5 DEF CatPart, Text
<1> QED
  BY <1>3, <1>4, <1>5

(* A step of cat.                                                          *)
LEMMA CatKeeps ==
  ASSUME PrintDisk, CatState(args, pc, local, out, fileArray, got), cat
  PROVE  CatState(args', pc', local', out', fileArray', got')
<1> DEFINE Goal == CatState(args', pc', local', out', fileArray', got')
<1>1. ASSUME NEW message, NEW code, out = <<>>, GiveUp(message, code), CatWhole(args) = <<message>>
      PROVE  Goal
  <2>1. out' = <<message>> /\ pc' = "done" /\ args' = args
    BY <1>1, GivesUp
  <2>2. out' = CatWhole(args')
    BY Zenon, <1>1, <2>1
  <2> QED
    BY <2>1, <2>2, CatLabels
<1>2. CASE At("cat", "start")
  <2>1. out = <<>> /\ fileArray = Table /\ got = Empty
    BY <1>2 DEF At, CatState
  <2>2. /\ UNCHANGED files
        /\ IF NoArgs(args) THEN GiveUp("could not read arguments", 3) ELSE Silent /\ Go("open", local)
    BY Zenon, <1>2 DEF cat, At, getargs_fails, NoArgs
  <2>3. CASE NoArgs(args)
    <3>1. CatWhole(args) = <<"could not read arguments">>
      BY Zenon, <2>3 DEF CatWhole
    <3> QED
      BY Zenon, <1>1, <2>1, <2>2, <2>3, <3>1
  <2>4. CASE ~NoArgs(args)
    <3>1. out' = out /\ pc' = "open" /\ args' = args /\ fileArray' = fileArray /\ got' = got
      BY <2>2, <2>4 DEF Silent, Go, files
    <3>2. out' = <<>> /\ fileArray' = Table /\ got' = Empty
      BY <2>1, <3>1
    <3>3. ~NoArgs(args')
      BY Zenon, <2>4, <3>1
    <3> QED
      BY <3>1, <3>2, <3>3, CatLabels
  <2> QED
    BY <2>3, <2>4
<1>3. CASE At("cat", "open")
  <2>1. out = <<>> /\ fileArray = Table /\ got = Empty /\ ~NoArgs(args)
    BY <1>3 DEF At, CatState
  <2>2. /\ open(args)
        /\ IF retval' = -1 THEN GiveUp("file not found", 2)
           ELSE Silent /\ Go("read", [fd |-> retval'])
    BY Zenon, <1>3 DEF cat, At
  <2>3. CASE Openable(args) = {}
    <3>1. retval' = -1
      BY <2>1, <2>2, <2>3, FirstOpen DEF PrintDisk
    <3>2. CatWhole(args) = <<"file not found">>
      BY Zenon, <2>1, <2>3 DEF CatWhole
    <3> QED
      BY Zenon, <1>1, <2>1, <2>2, <3>1, <3>2
  <2>4. CASE Openable(args) # {}
    <3>1. PICK i \in Openable(args), fd \in MIN_FD..(MAX_FD - 1) :
            retval' = fd /\ Holds(fileArray', got', fd, i, 0)
      BY <2>1, <2>2, <2>4, FirstOpen DEF PrintDisk
    <3>2. fd # -1
      BY FileSystemAssumption DEF MIN_FD
    <3>3. Silent /\ Go("read", [fd |-> fd])
      BY Zenon, <2>2, <3>1, <3>2
    <3>4. pc' = "read" /\ args' = args /\ local' = [fd |-> fd] /\ out' = out
      BY <3>3 DEF Silent, Go
    <3>5. out' = CatPart(i, 0)
      BY <2>1, <3>4, NothingYet DEF PrintDisk
    <3>6. CatReads(args', local', out', fileArray', got', fd, i, 0)
      BY Zenon, <3>1, <3>4, <3>5 DEF CatReads
    <3>7. ~NoArgs(args')
      BY Zenon, <2>1, <3>4
    <3> QED
      BY <3>4, <3>6, <3>7, CatLabels
  <2> QED
    BY <2>3, <2>4
<1>4. CASE At("cat", "read")
  <2>1. PICK fd, i, pos : CatReads(args, local, out, fileArray, got, fd, i, pos)
    BY <1>4 DEF At, CatState
  <2>2. /\ local = [fd |-> fd] /\ local.fd = fd /\ i \in Openable(args)
        /\ Holds(fileArray, got, fd, i, pos) /\ out = CatPart(i, pos) /\ ~NoArgs(args)
    BY <1>4, <2>1 DEF CatReads, At, CatState
  <2>3. /\ pos \in Nat /\ fd \in FDs /\ IsOpen(fd) /\ fileArray[fd].type = dentry[i].filetype
        /\ BUFSIZE \in 1..(Half - 1)
    BY SMTT(40), <2>2, Numbers DEF Holds, IsOpen, PrintDisk
  <2>4. /\ read(fd, BUFSIZE)
        /\ CASE retval' = 0  -> Silent /\ Return(0)
             [] retval' = -1 -> GiveUp("file read failed", 3)
             [] OTHER        -> Say(Delivered(fd)) /\ Go("read", local)
    BY Zenon, <1>4, <2>2 DEF cat, At
  <2>5. ASSUME retval' = 0,
               dentry[i].filetype = REG_FILE => pos = inodes[dentry[i].idx_inode].length,
               dentry[i].filetype = DIR_FILE => ~(pos < num_dir)
        PROVE  Goal
    <3>1. Silent /\ Return(0)
      BY <2>4, <2>5
    <3>2. out' = out /\ pc' = "done" /\ args' = args
      BY <3>1 DEF Silent, Return
    <3>3. out' = CatWhole(args')
      BY <2>2, <2>3, <2>5, <3>2, AllOfIt
    <3> QED
      BY <3>2, <3>3, CatLabels
  <2>6. ASSUME retval' # 0, retval' # -1, NEW next, Holds(fileArray', got', fd, i, next),
               CatPart(i, pos) \o Delivered(fd) = CatPart(i, next)
        PROVE  Goal
    <3>1. Say(Delivered(fd)) /\ Go("read", local)
      BY <2>4, <2>6
    <3>2. out' = out \o Delivered(fd) /\ pc' = "read" /\ args' = args /\ local' = local
      BY <3>1 DEF Say, Go
    <3>3. out' = CatPart(i, next)
      BY Zenon, <2>2, <2>6, <3>2
    <3>4. CatReads(args', local', out', fileArray', got', fd, i, next)
      BY Zenon, <2>2, <2>6, <3>2, <3>3 DEF CatReads
    <3>5. ~NoArgs(args')
      BY Zenon, <2>2, <3>2
    <3> QED
      BY <3>2, <3>4, <3>5, CatLabels
  <2>7. CASE dentry[i].filetype = REG_FILE
    <3> DEFINE inode == dentry[i].idx_inode
    <3>1. PICK n \in Nat :
            /\ retval' = n
            /\ n = 0 => pos = inodes[inode].length
            /\ Holds(fileArray', got', fd, i, pos + n)
            /\ Delivered(fd) = [j \in 1..n |-> image[Byte(inode, pos + j - 1)]]
      <4>1. \E n \in Nat : TakesFile(fd, i, pos, n)
        BY <2>2, <2>3, <2>4, <2>7, ReadsFile DEF PrintDisk
      <4> QED
        BY <4>1 DEF TakesFile
    <3>2. CASE n = 0
      <4>1. REG_FILE # DIR_FILE
        BY DEF REG_FILE, DIR_FILE
      <4>2. retval' = 0 /\ pos = inodes[dentry[i].idx_inode].length
        BY Zenon, <3>1, <3>2
      <4> QED
        BY Zenon, <2>5, <2>7, <4>1, <4>2
    <3>3. CASE n # 0
      <4>0. n # -1
        BY ONLY n \in Nat
      <4>1. retval' # 0 /\ retval' # -1
        BY Zenon, <3>1, <3>3, <4>0
      <4>2. Characters(inode, pos) \o Delivered(fd) = Characters(inode, pos + n)
        <5> HIDE DEF inode
        <5> QED
          BY <2>3, <3>1, MoreCharacters
      <4>3. CatPart(i, pos) \o Delivered(fd) = CatPart(i, pos + n)
        BY Zenon, <2>7, <4>2 DEF CatPart
      <4> QED
        BY <2>6, <3>1, <4>1, <4>3
    <3> QED
      BY <3>2, <3>3
  <2>8. CASE dentry[i].filetype = DIR_FILE
    <3>1. /\ Holds(fileArray', got', fd, i, pos + 1)
          /\ IF pos < num_dir THEN retval' = BUFSIZE /\ Delivered(fd) = <<dentry[pos].filename>>
             ELSE retval' = 0
      BY <2>2, <2>4, <2>8, ReadsDirectory DEF PrintDisk
    <3>2. REG_FILE # DIR_FILE
      BY DEF REG_FILE, DIR_FILE
    <3>3. CASE ~(pos < num_dir)
      BY <2>5, <2>8, <3>1, <3>2, <3>3
    <3>4. CASE pos < num_dir
      <4>0. BUFSIZE # 0 /\ BUFSIZE # -1
        BY ONLY SMTT(40), <2>3, FileSystemAssumption
      <4>1. retval' # 0 /\ retval' # -1
        BY Zenon, <3>1, <3>4, <4>0
      <4>2. Listed(pos + 1) = Append(Listed(pos), dentry[pos].filename)
        BY <2>3, <3>4, OneMore DEF PrintDisk
      <4>3. Listed(pos) \o <<dentry[pos].filename>> = Append(Listed(pos), dentry[pos].filename)
        <5> DEFINE X == {dentry[j].filename : j \in Nat}
        <5>1. Listed(pos) = [j \in 1..pos |-> dentry[j - 1].filename]
          BY <3>4 DEF Listed
        <5>2. \A j \in 1..pos : j - 1 \in Nat
          BY <2>3
        <5>3. dentry[pos].filename \in X /\ \A j \in 1..pos : dentry[j - 1].filename \in X
          BY Zenon, <2>3, <5>2
        <5> HIDE DEF X
        <5>4. Listed(pos) \in Seq(X)
          BY ONLY <2>3, <5>1, <5>3
        <5> QED
          BY <5>3, <5>4, AppendIsConcat
      <4>4. CatPart(i, pos) \o Delivered(fd) = CatPart(i, pos + 1)
        BY Zenon, <2>8, <3>1, <3>2, <3>4, <4>2, <4>3 DEF CatPart
      <4> QED
        BY <2>6, <3>1, <4>1, <4>4
    <3> QED
      BY <3>3, <3>4
  <2>9. CASE dentry[i].filetype \notin {REG_FILE, DIR_FILE}
    <3>1. retval' = 0
      BY <2>3, <2>4, <2>9 DEF read
    <3> QED
      BY <2>5, <2>9, <3>1
  <2> QED
    BY <2>7, <2>8, <2>9
<1> QED
  BY <1>2, <1>3, <1>4 DEF cat

(* A step of ls.                                                           *)
LEMMA LsKeeps ==
  ASSUME PrintDisk, LsState(pc, local, out, fileArray, got), ls
  PROVE  LsState(pc', local', out', fileArray', got')
<1> DEFINE Goal == LsState(pc', local', out', fileArray', got')
<1>1. ASSUME NEW fd, NEW i, NEW pos, pc' = "read", LsReads(local', out', fileArray', got', fd, i, pos)
      PROVE  Goal
  BY <1>1 DEF LsState
<1>2. CASE At("ls", "start")
  <2>1. out = <<>> /\ fileArray = Table /\ got = Empty
    BY <1>2 DEF At, LsState
  <2>2. /\ open(".")
        /\ IF retval' = -1 THEN GiveUp("directory open failed", 2)
           ELSE Silent /\ Go("read", [fd |-> retval'])
    BY Zenon, <1>2 DEF ls, At
  <2>3. Openable(".") # {}
    BY Zenon DEF Openable, PrintDisk
  <2>4. PICK i \in Openable("."), fd \in MIN_FD..(MAX_FD - 1) :
          retval' = fd /\ Holds(fileArray', got', fd, i, 0)
    BY <2>1, <2>2, <2>3, FirstOpen DEF PrintDisk
  <2>5. fd # -1
    BY SMTT(40), FileSystemAssumption DEF MIN_FD
  <2>6. Silent /\ Go("read", [fd |-> fd])
    BY Zenon, <2>2, <2>4, <2>5
  <2>7. pc' = "read" /\ local' = [fd |-> fd] /\ out' = out
    BY <2>6 DEF Silent, Go
  <2>8. out' = NameLines(IF 0 < num_dir THEN 0 ELSE num_dir)
    <3>1. (IF 0 < num_dir THEN 0 ELSE num_dir) = 0
      BY DEF PrintDisk
    <3> QED
      BY <2>1, <2>7, <3>1, NothingYet DEF PrintDisk
  <2>9. LsReads(local', out', fileArray', got', fd, i, 0)
    BY Zenon, <2>4, <2>7, <2>8 DEF LsReads
  <2> QED
    BY <1>1, <2>7, <2>9
<1>3. CASE At("ls", "read")
  <2>1. PICK fd, i, pos : LsReads(local, out, fileArray, got, fd, i, pos)
    BY <1>3 DEF At, LsState
  <2>2. /\ local = [fd |-> fd] /\ local.fd = fd /\ i \in Openable(".")
        /\ Holds(fileArray, got, fd, i, pos)
        /\ out = NameLines(IF pos < num_dir THEN pos ELSE num_dir)
    BY <2>1 DEF LsReads
  <2>3. pos \in Nat /\ num_dir \in Nat
    BY <2>2 DEF Holds, PrintDisk
  <2>4. dentry[i].filetype = DIR_FILE
    BY <2>2, OneEntry DEF PrintDisk
  <2>5. /\ read(fd, SBUFSIZE - 1)
        /\ CASE retval' = 0  -> Silent /\ Return(0)
             [] retval' = -1 -> GiveUp("directory entry read failed", 3)
             [] OTHER        -> Say(Delivered(fd) \o <<NEWLINE>>) /\ Go("read", local)
    BY Zenon, <1>3, <2>2 DEF ls, At
  <2>6. /\ Holds(fileArray', got', fd, i, pos + 1)
        /\ IF pos < num_dir THEN retval' = SBUFSIZE - 1 /\ Delivered(fd) = <<dentry[pos].filename>>
           ELSE retval' = 0
    BY <2>2, <2>3, <2>4, <2>5, ReadsDirectory
  <2>7. CASE ~(pos < num_dir)
    <3>1. Silent /\ Return(0)
      BY <2>5, <2>6, <2>7
    <3>2. out' = out /\ pc' = "done"
      BY <3>1 DEF Silent, Return
    <3>3. out' = NameLines(num_dir)
      BY Zenon, <2>2, <2>7, <3>2
    <3> QED
      BY <3>2, <3>3 DEF LsState
  <2>8. CASE pos < num_dir
    <3>1. retval' # 0 /\ retval' # -1
      BY <2>6, <2>8 DEF SBUFSIZE
    <3>2. Say(Delivered(fd) \o <<NEWLINE>>) /\ Go("read", local)
      BY <2>5, <3>1
    <3>3. out' = out \o (<<dentry[pos].filename>> \o <<NEWLINE>>) /\ pc' = "read" /\ local' = local
      BY Zenon, <2>6, <2>8, <3>2 DEF Say, Go
    <3>4. out' = NameLines(pos + 1)
      BY Zenon, <2>2, <2>3, <2>8, <3>3, MoreLines
    <3>5. (IF pos + 1 < num_dir THEN pos + 1 ELSE num_dir) = pos + 1
      BY <2>3, <2>8
    <3>6. LsReads(local', out', fileArray', got', fd, i, pos + 1)
      BY Zenon, <2>2, <2>6, <3>3, <3>4, <3>5 DEF LsReads
    <3> QED
      BY <1>1, <3>3, <3>6
  <2> QED
    BY <2>7, <2>8
<1> QED
  BY <1>2, <1>3 DEF ls

(* Only cat moves while cat runs, and so for ls.                           *)
LEMMA OthersWait ==
  ASSUME Step
  PROVE  /\ program' = program
         /\ program = "cat" => cat
         /\ program = "ls" => ls
<1> DEFINE Runs(name) == program = name /\ program' = program
<1>1. (cat => Runs("cat")) /\ (ls => Runs("ls"))
  BY DEF cat, ls, At, Go, Return, GiveUp
<1>2. grep => Runs("grep")
  <2>1. GrepStart \/ GrepDirectory => Runs("grep")
    BY DEF GrepStart, GrepDirectory, At, Go, Return, GiveUp
  <2>2. OneFileOpen \/ OneFileFill \/ OneFileClose => Runs("grep")
    BY DEF OneFileOpen, OneFileFill, OneFileClose, At, Go, Return, GiveUp
  <2>3. OneFileKeep \/ OneFileSearch => Runs("grep")
    BY DEF OneFileKeep, OneFileSearch, At, Go
  <2> QED
    BY <2>1, <2>2, <2>3 DEF grep
<1>3. (hello => Runs("hello")) /\ (testprint => Runs("testprint")) /\ (counter => Runs("counter"))
  BY DEF hello, testprint, counter, At, Go, Return, GiveUp
<1>4. (pingpong => Runs("pingpong")) /\ (shell => Runs("shell"))
  BY DEF pingpong, shell, At, Go, Return
<1>5. syserr => Runs("syserr")
  BY DEF syserr, Select, RunCall, EndTest, Overall, At, Go, Return, GiveUp
<1>6. fish => Runs("fish")
  <2>1. Start \/ SetRate \/ Wait \/ Change => Runs("fish")
    BY DEF Start, SetRate, Wait, Change, At, Go, Return
  <2>2. add_frames => Runs("fish")
    BY DEF add_frames, OpenFrame, ReadChar, PlaceChar, EndRow, At, Go, Return
  <2> QED
    BY <2>1, <2>2 DEF fish
<1> QED
  BY <1>1, <1>2, <1>3, <1>4, <1>5, <1>6 DEF Step

(* Whatever the length of a file, the order of its blocks, their size and  *)
(* that of the buffer, cat prints the whole file, or the directory, and ls *)
(* every name, nothing twice.                                              *)
THEOREM CatLsRightAlways ==
  ASSUME PrintDisk
  PROVE  UserSpec => []CatLsRight
<1>1. ASSUME out = <<>>, pc = "start", fileArray = Table, got = Empty PROVE PrintInv
  BY <1>1 DEF PrintInv, CatState, LsState
<1>2. UserInit => PrintInv
  BY <1>1 DEF UserInit, Init, Empty
<1>3. PrintInv /\ [UserNext]_userVars => PrintInv'
  <2> SUFFICES ASSUME PrintInv, [UserNext]_userVars PROVE PrintInv'
    OBVIOUS
  <2>1. CASE Step
    BY <2>1, OthersWait, CatKeeps, LsKeeps, PrintPrimed DEF PrintInv
  <2>2. CASE Exec
    <3>1. out' = <<>> /\ pc' = "start" /\ fileArray' = Table /\ got' = Empty
      BY <2>2 DEF Exec, Executed, NewProcess, Empty
    <3>2. CatState(args', pc', local', out', fileArray', got') /\ LsState(pc', local', out', fileArray', got')
      BY <3>1 DEF CatState, LsState
    <3> QED
      BY <3>2, PrintPrimed
  <2>3. CASE UNCHANGED userVars
    BY <2>3, PrintPrimed DEF userVars, process, files, PrintInv
  <2> QED
    BY <2>1, <2>2, <2>3 DEF UserNext
<1>4. PrintInv => CatLsRight
  <2> SUFFICES ASSUME PrintInv, pc = "done"
               PROVE  (program = "cat" => out = CatShows) /\ (program = "ls" => out = LsShows)
    BY DEF CatLsRight
  <2>1. CatWhole(args) = CatShows
    BY Zenon DEF CatWhole, CatShows, NoArgs
  <2>2. NameLines(num_dir) = LsShows
    <3>1. num_dir \in Nat
      BY DEF PrintDisk
    <3>2. ASSUME NEW k \in 1..(2 * num_dir), k % 2 = 1
          PROVE  Directory[(k + 1) \div 2] = dentry[((k + 1) \div 2) - 1].filename
      <4>1. (k + 1) \div 2 \in 1..num_dir
        BY <3>1, <3>2
      <4> QED
        BY <4>1 DEF Directory
    <3> QED
      BY <3>2 DEF NameLines, LsShows
  <2> QED
    BY <2>1, <2>2 DEF PrintInv, CatState, LsState
<1> QED
  BY <1>2, <1>3, <1>4, PTL DEF UserSpec
=============================================================================
