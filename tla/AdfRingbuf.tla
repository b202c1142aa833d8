---------------------------- MODULE AdfRingbuf ----------------------------
(***************************************************************************)
(* The ring buffer of the DSP framework (adfRingbuf_t), the same code on   *)
(* the host and on the DSP.  base is 0 and limit is Size; a ring whose rp  *)
(* and wp are equal is empty.  Nothing keeps the pointers in the buffer:   *)
(* rp can be moved past the limit, wp before the base.                     *)
(*                                                                         *)
(* Bytes are tags, numbered round in the order they are put, which tells   *)
(* apart any two the ring can hold; 0 is a byte nobody wrote.              *)
(*                                                                         *)
(* An operator marked "mutant" stands before the one it varies: it is the  *)
(* same with a bug, and no specification uses it.                          *)
(***************************************************************************)
EXTENDS Integers, Sequences

CONSTANTS
  Size,          (* of the buffer                                           *)
  Word,          (* sizeof(int32_t)                                         *)
  Tags,          (* number of different bytes that are put                  *)
  DropUnits,     (* dropunits a ring is made with; 0: never drop            *)
  Drops          (* number of values of the count of dropped bytes          *)

ASSUME AdfRingbufAssumption ==
  /\ { Size, Word, Tags, Drops } \subseteq Nat \ {0} /\ Word <= Size
  /\ DropUnits \subseteq Nat

VARIABLES
  buffer, rp, wp,
  drop,          \* bytes dropped
  dropunit,      \* how many bytes are dropped at a time
  stray,         \* a copy went outside the buffer, or a division by zero
  next,          \* tag of the next byte to put
  io             \* the last bytes put or read

vars == << buffer, rp, wp, drop, dropunit, stray, next, io >>

Byte == 0..Tags
Cells == 0..Size - 1

(* Lengths a caller puts, reads or flushes.  None is as long as the ring.  *)
Lens == 1..Size - 1

TypeOK ==
  /\ buffer \in [Cells -> Byte] /\ rp \in Nat /\ wp \in -Word..Size - 1
  /\ drop \in 0..Drops - 1 /\ dropunit \in DropUnits /\ stray \in BOOLEAN
  /\ next \in 0..Tags - 1 /\ io \in Seq(Byte)

-----------------------------------------------------------------------------
(* ADF_RINGBUF_MOVE_PTR, ADF_RINGBUF_CALC_RW_SIZE and ..._WR_SIZE *)
(* Mutant: a pointer can be the limit. *)
MovePtrLimit(p, offset) == IF Size - p >= offset THEN p + offset
                                                 ELSE p + offset - Size
MovePtr(p, offset) == IF Size - p > offset THEN p + offset
                                           ELSE p + offset - Size
RWSize(s, e) == IF s <= e THEN e - s ELSE Size - s + e
WRSize(s, e) == IF s < e THEN e - s ELSE Size - s + e

Used == RWSize(rp, wp)          (* adfRingbuf_getUsedSize *)
Free == WRSize(wp, rp)          (* adfRingbuf_getFreeSize *)

(* n bytes without what is over whole dropunits. *)
Whole(n) == n - (n % dropunit)

(* _adfRingbuf_checkDrop for len bytes: how many old ones it drops, in     *)
(* whole dropunits, and how many of the new ones it leaves.                *)
(* Mutant: a dropunit too many when the excess is in whole dropunits. *)
DropLenMore(len) ==
  IF len >= Free /\ dropunit > 0
  THEN Whole(len - Free + dropunit) ELSE 0
DropLen(len) ==
  IF len >= Free /\ dropunit > 0
  THEN Whole(len - Free + dropunit - 1) ELSE 0
KeptLen(len) == IF len >= Free /\ dropunit = 0 THEN Free - Word ELSE len

(* The next n bytes to be put. *)
Fresh(n) == [ i \in 1..n |-> 1 + ((next + i - 1) % Tags) ]

(* adfRingbuf_checkValid: both pointers are in the buffer. *)
Valid == rp \in Cells /\ wp \in Cells

(* A copy of n bytes from position p on, in one part or in two, is inside. *)
Inside(p, n) == n >= 0 /\ p <= Size /\ (n > 0 => p >= 0)

(* The cell of position p. *)
At(p) == IF p < 0 THEN p + Size ELSE p

(* s has been laid behind wp, round the ring; wp moves on by l and drops n *)
(* old bytes.                                                              *)
Put(s, l, n) ==
  /\ buffer' = [ c \in Cells |-> IF RWSize(At(wp), c) < Len(s)
                                 THEN s[RWSize(At(wp), c) + 1] ELSE buffer[c] ]
  /\ wp' = MovePtr(wp, l) /\ rp' = MovePtr(rp, n)
  /\ drop' = (drop + n) % Drops
  /\ io' = s /\ next' = (next + Len(s)) % Tags
  /\ UNCHANGED << dropunit, stray >>

Stray == stray' = TRUE
         /\ UNCHANGED << buffer, rp, wp, drop, dropunit, next, io >>

(* adfRingbuf_write: a ring that never drops cuts the data short. *)
Write(len) == LET l == KeptLen(len)
              IN  IF Inside(wp, l) THEN Put(Fresh(l), l, DropLen(len)) ELSE Stray

(* adfRingbuf_add: the hardware has put len bytes already, over unread     *)
(* ones if there is no room; in a ring that never drops wp moves by less,  *)
(* and goes back when even less than a word was free.                      *)
Add(len) == Put(Fresh(len), KeptLen(len), DropLen(len))

(* adfRingbuf_apply: the hardware's wp is at ptr. *)
Apply(ptr) == ptr # wp /\ Add(RWSize(wp, ptr))

Least(a, b) == IF a < b THEN a ELSE b

(* The first n bytes in the ring from position p. *)
From(p, n) == [ i \in 1..n |-> buffer[MovePtr(p, i - 1)] ]

(* adfRingbuf_read *)
Read(len) ==
  LET n == Least(len, Used)
  IN  IF Inside(rp, n)
      THEN /\ io' = From(rp, n)
           /\ UNCHANGED << buffer, rp, wp, drop, dropunit, stray, next >>
      ELSE Stray

(* adfRingbuf_flush *)
Flush(len) == /\ rp' = MovePtr(rp, Least(len, Used))
              /\ UNCHANGED << buffer, wp, drop, dropunit, stray, next, io >>

(* adfRingbuf_reserve: rp goes back, but not past wp. *)
Reserve(len) ==
  IF len >= Free /\ dropunit = 0 THEN Stray
  ELSE LET n == IF len >= Free THEN Whole(Free) ELSE len
       IN  /\ rp' = MovePtr(rp, Size - n)
           /\ UNCHANGED << buffer, wp, drop, dropunit, stray, next, io >>

(* adfRingbuf_reset; the bytes stay in the buffer. *)
Reset == /\ rp' = 0 /\ wp' = 0 /\ drop' = 0
         /\ UNCHANGED << buffer, dropunit, stray, next, io >>

(* adfRingbuf_init of a buffer of zeros *)
Init ==
  /\ buffer = [ c \in Cells |-> 0 ] /\ rp = 0 /\ wp = 0 /\ drop = 0
  /\ dropunit \in DropUnits /\ stray = FALSE /\ next = 0 /\ io = << >>

Next ==
  \/ \E len \in Lens : Write(len) \/ Add(len) \/ Read(len) \/ Flush(len)
                       \/ Reserve(len)
  \/ \E ptr \in Cells : Apply(ptr)
  \/ Reset

(* A stray copy is the end. *)
Spec == Init /\ [][~stray /\ Next]_vars

-----------------------------------------------------------------------------
(* What is in the ring, oldest first. *)
Contents == IF Valid THEN From(rp, Used) ELSE << >>

Stream == INSTANCE AdfStream
            WITH queue <- Contents, Overruns <- TRUE, Overlays <- TRUE
Counted == INSTANCE AdfStream
             WITH queue <- Contents, Overruns <- FALSE, Overlays <- FALSE

(* What is said of the bytes is said while there are any: the pointers are *)
(* in the buffer, and a drop unit fits into it.                            *)
Sane == Valid /\ Valid' /\ dropunit <= Size

(* The ring is a queue of bytes over any wrap of its pointers: data goes   *)
(* in whole behind the rest, only the oldest bytes make room for it, by at *)
(* most "1 more dropunit" (adf_ringbuf.c:37), and a flush takes the oldest *)
(* - or else the ring is full to the last byte, and so looks empty, or, if *)
(* it never drops, the hardware has written over the bytes in it (49).     *)
StreamSpec == Stream!Init /\ [][Sane => Stream!Next]_(Stream!vars)

(* The pointers leave the buffer only by a put that drops more than there  *)
(* are bytes in it, which takes a drop unit that does not divide it (41),  *)
(* or by an add to a ring that never drops with less than a word free and  *)
(* rp near the base (49, 275).                                             *)
PointersStay ==
  [][Valid /\ ~Valid' => \E len \in Lens :
       \/ (Write(len) \/ Add(len)) /\ DropLen(len) > Size
       \/ Add(len) /\ KeptLen(len) < 0 /\ wp + KeptLen(len) < 0]_vars

(* adf_ringbuf.c:222: what a write flushes to have room for it is          *)
(* accumulated "into dropped size count": no byte is lost without.         *)
DropCounted ==
  Counted!Init /\ [][Sane /\ dropunit > 0 => Counted!Next]_(Counted!vars)

(* A put of len bytes by which what is too much for the ring comes to      *)
(* whole dropunits (adf_ringbuf.c:41).                                     *)
Brim(len) == dropunit > 0 /\ len >= Free /\ (len - Free) % dropunit = 0

FillsUp == \E len \in Lens : Brim(len) /\ (Write(len) \/ Add(len))

(* An add to a ring that never drops, and has no room for it. *)
CutAdd == \E len \in Lens : dropunit = 0 /\ len >= Free /\ Add(len)

(* What the code does keep of it: the steps that lose bytes without        *)
(* counting them are such a put, and it loses all there is, and such an    *)
(* add, and it leaves a word of room.                                      *)
LossesCounted ==
  [][Sane => \/ Counted!Next
             \/ FillsUp /\ Contents' = << >>
             \/ CutAdd /\ Len(Contents') = Size - Word]_(Counted!vars)

=============================================================================
