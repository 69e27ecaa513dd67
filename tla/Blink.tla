------------------------------- MODULE Blink -------------------------------
(***************************************************************************)
(* blink.S and the allocator of fish.c: blinking characters in video       *)
(* memory, kept in a linked list of structures from a static array.        *)
(* mp1_ioctl (add, remove, sync) and mp1_rtc_tasklet are called by one     *)
(* program, so each is one action; a call that fails changes nothing, and  *)
(* neither does RTC_FIND.                                                  *)
(***************************************************************************)
EXTENDS Integers, Sequences, Functions

CONSTANTS
  Columns, Rows,     \* of the screen (80, 25)
  ArraySize,         \* length of blink_array (80*25)
  Short,             \* 2^16, the modulus of an unsigned short
  Structs            \* what the program passes to RTC_ADD

Null == 0
Cells == 1..ArraySize
Locations == 0..(Columns * Rows - 1)

(* A struct mp1_blink_struct.                                              *)
IsStruct(s) ==
  s = [location |-> s.location, on_char |-> s.on_char, off_char |-> s.off_char,
       on_length |-> s.on_length, off_length |-> s.off_length,
       countdown |-> s.countdown, status |-> s.status, next |-> s.next]

ASSUME BlinkAssumption ==
  /\ ArraySize \in Nat /\ Columns \in Nat /\ Rows \in Nat
  /\ \A s \in Structs : IsStruct(s) /\ s.location \in Nat

VARIABLES
  blink_array,       \* cell -> structure, all zero when free
  mp1_list_head,     \* the first cell of the list, or Null
  vmem,              \* the characters on the screen
  overlaid,          \* history: locations that were given to two blinks at once
  synced             \* history: cells that sync switched on and the clock not off since

blinkVars == <<blink_array, mp1_list_head, vmem, overlaid, synced>>

Zero == [location |-> 0, on_char |-> "NUL", off_char |-> "NUL", on_length |-> 0,
         off_length |-> 0, countdown |-> 0, status |-> 0, next |-> Null]

(* main's memset, and vidmap, which clears the screen.                     *)
BlinkInit ==
  /\ blink_array = [c \in Cells |-> Zero]
  /\ mp1_list_head = Null
  /\ vmem = [p \in Locations |-> " "]
  /\ overlaid = {}
  /\ synced = {}
-----------------------------------------------------------------------------
(* Following next from the head: where k steps lead.                       *)
NextOf(cell) == IF cell = Null THEN Null ELSE blink_array[cell].next
After[k \in 0..(ArraySize + 1)] == IF k = 0 THEN mp1_list_head ELSE NextOf(After[k - 1])

(* The cells of the list in order (of its first ArraySize + 1, should it   *)
(* have no end).                                                           *)
List ==
  LET n == CHOOSE n \in 0..(ArraySize + 1) :
             /\ \A k \in 0..(n - 1) : After[k] # Null
             /\ n = ArraySize + 1 \/ After[n] = Null
  IN  [k \in 1..n |-> After[k - 1]]

(* mp1_find_helper: the first cell of the list with this location.         *)
Helper(location) ==
  LET cells == List
      hits == {k \in DOMAIN cells : blink_array[cells[k]].location = location}
  IN  IF hits = {} THEN Null ELSE cells[CHOOSE k \in hits : \A j \in hits : k <= j]

(* mp1_malloc: the first cell whose location is 0.                         *)
mp1_malloc ==
  LET free == {c \in Cells : blink_array[c].location = 0}
  IN  IF free = {} THEN Null ELSE CHOOSE c \in free : \A d \in free : c <= d

Poke(location, char) == vmem' = [vmem EXCEPT ![location] = char]

Fails == UNCHANGED blinkVars

(* A location off the screen, or no cell left.                             *)
AddFails(s) == s.location >= Columns * Rows \/ mp1_malloc = Null

mp1_ioctl_add(s) ==
  IF AddFails(s) THEN Fails
  ELSE /\ blink_array' = [blink_array EXCEPT ![mp1_malloc] =
            [s EXCEPT !.status = 1, !.countdown = s.on_length, !.next = mp1_list_head]]
       /\ mp1_list_head' = mp1_malloc
       /\ Poke(s.location, s.on_char)
       /\ overlaid' = overlaid \cup ({s.location} \cap {blink_array[c].location : c \in Range(List)})
       /\ synced' = synced \ {mp1_malloc}

(* remove_find_prev ... found_prev: the list without the cell.             *)
HeadOnly(cell) == blink_array
Unlinked(cell) ==
  [c \in Cells |-> IF blink_array[c].next = cell /\ c \in Range(List)
                   THEN [blink_array[c] EXCEPT !.next = blink_array[cell].next]
                   ELSE blink_array[c]]

mp1_ioctl_remove(location) ==
  LET cell == Helper(location)
  IN  IF cell = Null THEN Fails
      ELSE /\ blink_array' = [Unlinked(cell) EXCEPT ![cell] = Zero]
           /\ mp1_list_head' =
                IF mp1_list_head = cell THEN blink_array[cell].next ELSE mp1_list_head
           /\ synced' = synced \ {cell}
           /\ UNCHANGED <<vmem, overlaid>>

(* The structure at to blinks as the one at from does.  After testb the    *)
(* condition of cmovl never holds, so the off character is displayed.      *)
mp1_ioctl_sync(from, to) ==
  LET src == Helper(from)
      dst == Helper(to)
  IN  IF src = Null \/ dst = Null THEN Fails
      ELSE /\ blink_array' = [blink_array EXCEPT ![dst] =
                [@ EXCEPT !.on_length = blink_array[src].on_length,
                          !.off_length = blink_array[src].off_length,
                          !.countdown = blink_array[src].countdown,
                          !.status = blink_array[src].status]]
           /\ Poke(to, blink_array[dst].off_char)
           /\ synced' = IF blink_array[src].status = 1 THEN synced \cup {dst} ELSE synced \ {dst}
           /\ UNCHANGED <<mp1_list_head, overlaid>>

Down(n) == (n - 1) % Short
Positive(n) == 0 < n /\ n < Short \div 2

Switched(s) ==
  [s EXCEPT !.countdown = IF s.status = 1 THEN s.off_length ELSE s.on_length,
            !.status = 1 - @]

OldChar(s) == IF s.status = 1 THEN s.on_char ELSE s.off_char

(* What a blink with this status shows once it is switched.                *)
NewChar(s) == IF s.status = 1 THEN s.off_char ELSE s.on_char

(* One turn of tasklet_loop: count down, and switch at 0 or below.         *)
Turn(screen, cell) ==
  LET s == [screen.array[cell] EXCEPT !.countdown = Down(@)]
  IN  IF Positive(s.countdown) THEN [screen EXCEPT !.array[cell] = s]
      ELSE [array |-> [screen.array EXCEPT ![cell] = Switched(s)],
            vmem  |-> [screen.vmem EXCEPT ![s.location] = NewChar(s)]]

(* A turn for each cell of the list, in order.  (The singleton has TLC     *)
(* evaluate the state of the loop once.)                                   *)
tasklet_loop(cells) ==
  LET loop[k \in 0..Len(cells)] ==
        IF k = 0 THEN [array |-> blink_array, vmem |-> vmem]
        ELSE CHOOSE t \in {Turn(s, cells[k]) : s \in {loop[k - 1]}} : TRUE
  IN  loop[Len(cells)]

mp1_rtc_tasklet ==
  \E end \in {tasklet_loop(List)} :
    /\ blink_array' = end.array
    /\ vmem' = end.vmem
    /\ synced' = {c \in synced : end.array[c].status = blink_array[c].status}
    /\ UNCHANGED <<mp1_list_head, overlaid>>

BlinkNext ==
  \/ \E s \in Structs : mp1_ioctl_add(s)
  \/ \E p \in Locations : mp1_ioctl_remove(p)
  \/ \E p, q \in Locations : mp1_ioctl_sync(p, q)
  \/ mp1_rtc_tasklet

BlinkSpec == BlinkInit /\ [][BlinkNext]_blinkVars
-----------------------------------------------------------------------------
InUse == {c \in Cells : blink_array[c] # Zero}

(* After any sequence of calls the list ends, no cell is in it twice, and  *)
(* its cells are exactly the ones in use: add and remove neither leak a    *)
(* structure nor leave a freed one in the list.                            *)
ListSound ==
  /\ Len(List) <= ArraySize
  /\ Range(List) = InUse

(* A blink that never shared its place shows its on character while it is  *)
(* on and its off character while it is off, whatever calls and ticks led  *)
(* there; only one that sync drew keeps the off character, and no longer   *)
(* than until the clock switches it.                                       *)
CharShown ==
  \A c \in Range(List) :
    LET s == blink_array[c]
    IN  s.location \notin overlaid =>
          vmem[s.location] = IF s.status = 1 /\ c \notin synced THEN s.on_char ELSE s.off_char

(* "Display the character": the one on the screen is the one that the      *)
(* status of the blink says.                                               *)
StatusShown ==
  \A c \in Range(List) :
    LET s == blink_array[c]
    IN  s.location \notin overlaid =>
          vmem[s.location] = IF s.status = 1 THEN s.on_char ELSE s.off_char
=============================================================================
