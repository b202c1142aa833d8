-------------------------- MODULE AdfRingbufProofs --------------------------
(***************************************************************************)
(* The ring buffer of the DSP framework keeps its types and, while its     *)
(* pointers are in the buffer, implements the queue of bytes of AdfStream, *)
(* for rings, words and drop units of every size; all it loses is counted  *)
(* but for two kinds of put; and there are two ways out of the buffer.     *)
(***************************************************************************)
EXTENDS AdfRingbuf, SequenceTheorems, TLAPS

-----------------------------------------------------------------------------
(* Positions in the ring.                                                  *)

(* A ring of which the bytes can be spoken of.                             *)
Sound == TypeOK /\ Valid /\ dropunit <= Size

(* What that says of the numbers.                                          *)
Numbers ==
  /\ rp \in Cells /\ wp \in Cells /\ dropunit \in 0..Size
  /\ drop \in 0..Drops - 1 /\ next \in 0..Tags - 1

(* The numbers are well typed.                                             *)
LEMMA NumbersHold == Sound => Numbers
<1> SUFFICES ASSUME Sound PROVE Numbers
  OBVIOUS
<1>1. dropunit \in Nat /\ dropunit <= Size /\ Size \in Nat
  BY AdfRingbufAssumption DEF Sound, TypeOK
<1>2. dropunit \in 0..Size
  BY <1>1
<1> QED
  BY <1>2 DEF Sound, Valid, TypeOK, Numbers

(* The sizes of the two parts of the ring, between any two positions.      *)
LEMMA Sizes ==
  ASSUME NEW s \in Cells, NEW e \in Cells
  PROVE  /\ RWSize(s, e) \in 0..Size - 1 /\ WRSize(e, s) \in 1..Size
         /\ RWSize(s, e) + WRSize(e, s) = Size
BY AdfRingbufAssumption DEF RWSize, WRSize, Cells

(* A move by no more than the ring stays in the ring.                      *)
LEMMA Moves ==
  ASSUME NEW p \in Cells, NEW n \in 0..Size
  PROVE  MovePtr(p, n) \in Cells
BY AdfRingbufAssumption DEF MovePtr, Cells

(* Whole dropunits: what is left over is less than one.                    *)
LEMMA WholeUnits ==
  ASSUME dropunit \in Nat \ {0}, NEW n \in Nat
  PROVE  Whole(n) \in Nat /\ Whole(n) <= n /\ n < Whole(n) + dropunit
<1>1. n % dropunit \in 0..dropunit - 1
  OBVIOUS
<1>2. n % dropunit <= n
  <2>1. CASE n < dropunit
    BY <2>1
  <2>2. CASE n >= dropunit
    BY <2>2, <1>1
  <2> QED
    BY <2>1, <2>2
<1> QED
  BY <1>1, <1>2 DEF Whole

(* What a put drops: nothing while there is room, enough when there is     *)
(* none, less than a dropunit beyond that, and no more than there is.      *)
LEMMA Dropped ==
  ASSUME Numbers, NEW len \in Lens, len < Free \/ dropunit > 0
  PROVE  /\ DropLen(len) \in Nat /\ DropLen(len) <= Used + len
         /\ Used + len - DropLen(len) <= Size
         /\ DropLen(len) > 0 => /\ dropunit > 0 /\ Used + len >= Size
                                /\ DropLen(len) < Used + len - Size + dropunit
<1>0. /\ Used \in 0..Size - 1 /\ Free \in 1..Size /\ Used + Free = Size
      /\ Size \in Nat /\ dropunit \in 0..Size /\ len \in 1..Size - 1
  BY Sizes, AdfRingbufAssumption DEF Numbers, Used, Free, Lens
<1>1. CASE len < Free
  BY <1>0, <1>1 DEF DropLen
<1>2. CASE len >= Free
  <2>1. len - Free + dropunit - 1 \in Nat /\ dropunit \in Nat \ {0}
    BY <1>0, <1>2
  <2> DEFINE w == Whole(len - Free + dropunit - 1)
  <2>2. w \in Nat /\ w <= len - Free + dropunit - 1
      /\ len - Free + dropunit - 1 < w + dropunit
    BY <2>1, WholeUnits
  <2>3. DropLen(len) = w
    BY <1>0, <1>2 DEF DropLen
  <2> HIDE DEF w
  <2> QED
    BY <1>0, <1>2, <2>2, <2>3
<1> QED
  BY <1>0, <1>1, <1>2

(* What rounding up to whole d's leaves as it is comes to whole d's.       *)
LEMMA FullUnits ==
  ASSUME NEW d \in Nat \ {0}, NEW x \in Nat, (x + d - 1) % d = d - 1
  PROVE  x % d = 0
<1> DEFINE q == x \div d
           p == (x + d - 1) \div d
           r == x % d
<1>1. q \in Int /\ p \in Int /\ r \in 0..d - 1
  OBVIOUS
<1>2. x = d * q + r
  OBVIOUS
<1>3. x + d - 1 = d * p + (d - 1)
  OBVIOUS
<1> HIDE DEF q, p, r
<1>4. d * p = d * q + r
  BY <1>1, <1>2, <1>3
<1>5. d * (p - q) = r
  BY <1>1, <1>4
<1>6. ~(p - q >= 1)
  BY <1>1, <1>5
<1>7. ~(p - q <= -1)
  BY <1>1, <1>5
<1> QED
  BY <1>1, <1>5, <1>6, <1>7 DEF r

(* What a put drops fills the ring only if what is too much for the ring   *)
(* is in whole dropunits.                                                  *)
LEMMA Brimmed ==
  ASSUME Numbers, NEW len \in Lens, dropunit > 0,
         Used + len - DropLen(len) = Size
  PROVE  Brim(len)
<1>0. /\ Used \in 0..Size - 1 /\ Free \in 1..Size /\ Used + Free = Size
      /\ Size \in Nat /\ dropunit \in Nat \ {0} /\ len \in 1..Size - 1
  BY Sizes, AdfRingbufAssumption DEF Numbers, Used, Free, Lens
<1>1. len >= Free
  BY <1>0 DEF DropLen
<1> DEFINE x == len - Free
<1>2. x \in Nat
  BY <1>0, <1>1
<1>3. DropLen(len) \in Nat
  BY <1>0, Dropped
<1>4. DropLen(len) = Whole(x + dropunit - 1) /\ DropLen(len) = x
  BY <1>0, <1>1, <1>3 DEF DropLen
<1> HIDE DEF x
<1>5. (x + dropunit - 1) % dropunit = dropunit - 1
  <2> DEFINE m == (x + dropunit - 1) % dropunit
  <2>1. m \in Int /\ x = x + dropunit - 1 - m
    BY <1>0, <1>2, <1>4 DEF Whole
  <2> HIDE DEF m
  <2>2. m = dropunit - 1
    BY <1>0, <1>2, <2>1
  <2> QED
    BY <2>2 DEF m
<1>6. x % dropunit = 0
  BY <1>0, <1>2, <1>5, FullUnits
<1> QED
  BY <1>0, <1>1, <1>6 DEF Brim, x

-----------------------------------------------------------------------------
(* Bytes in the ring.                                                      *)

(* n bytes of b from position p.                                           *)
Bytes(b, p, n) == [ i \in 1..n |-> b[MovePtr(p, i - 1)] ]

(* They are n bytes.                                                       *)
LEMMA BytesSeq ==
  ASSUME NEW b \in [Cells -> Byte], NEW p \in Cells, NEW n \in 0..Size
  PROVE  /\ Bytes(b, p, n) \in Seq(Byte) /\ Len(Bytes(b, p, n)) = n
         /\ \A i \in 1..n : Bytes(b, p, n)[i] = b[MovePtr(p, i - 1)]
<1>0. Size \in Nat /\ n \in Nat
  BY AdfRingbufAssumption
<1>1. \A i \in 1..n : MovePtr(p, i - 1) \in Cells
  <2> TAKE i \in 1..n
  <2>1. i - 1 \in 0..Size
    BY <1>0
  <2> QED
    BY <2>1, Moves
<1>2. Bytes(b, p, n) \in [1..n -> Byte]
  BY <1>1 DEF Bytes
<1>3. Bytes(b, p, n) \in Seq(Byte)
  BY <1>0, <1>2, SeqDef
<1>4. DOMAIN Bytes(b, p, n) = 1..n
      /\ DOMAIN Bytes(b, p, n) = 1..Len(Bytes(b, p, n))
      /\ Len(Bytes(b, p, n)) \in Nat
  BY <1>2, <1>3, LenProperties
<1>5. Len(Bytes(b, p, n)) = n
  BY <1>0, <1>4
<1> QED
  BY <1>3, <1>5 DEF Bytes

(* What is left of s without its k oldest bytes.                           *)
LEMMA Rest ==
  ASSUME NEW s \in Seq(Byte), NEW k \in 0..Len(s)
  PROVE  /\ Counted!Without(s, k) \in Seq(Byte)
         /\ Len(Counted!Without(s, k)) = Len(s) - k
         /\ \A i \in 1..Len(s) - k : Counted!Without(s, k)[i] = s[k + i]
<1>0. Len(s) \in Nat /\ k \in Int /\ k + 1 \in Int
  BY LenProperties
<1>1. \A i \in k + 1..Len(s) : s[i] \in Byte
  BY <1>0, LenProperties
<1>2. /\ SubSeq(s, k + 1, Len(s)) \in Seq(Byte)
      /\ Len(SubSeq(s, k + 1, Len(s)))
           = IF k + 1 <= Len(s) THEN Len(s) - (k + 1) + 1 ELSE 0
      /\ \A i \in 1..Len(s) - (k + 1) + 1 :
           SubSeq(s, k + 1, Len(s))[i] = s[(k + 1) + i - 1]
  BY <1>0, <1>1, SubSeqProperties
<1> QED
  BY <1>0, <1>2 DEF Counted!Without

(* The fresh bytes are bytes.                                              *)
LEMMA FreshSeq ==
  ASSUME next \in 0..Tags - 1, NEW n \in Nat
  PROVE  Fresh(n) \in Seq(Byte) /\ Len(Fresh(n)) = n
<1>0. n \in Nat /\ Tags \in Nat \ {0}
  BY AdfRingbufAssumption
<1>1. \A i \in 1..n : 1 + ((next + i - 1) % Tags) \in Byte
  <2> TAKE i \in 1..n
  <2>1. next + i - 1 \in Int
    BY <1>0
  <2>2. (next + i - 1) % Tags \in 0..Tags - 1
    BY <1>0, <2>1
  <2> QED
    BY <1>0, <2>2 DEF Byte
<1>2. Fresh(n) \in [1..n -> Byte]
  BY <1>1 DEF Fresh
<1>3. Fresh(n) \in Seq(Byte)
  BY <1>0, <1>2, SeqDef
<1>4. DOMAIN Fresh(n) = 1..n /\ DOMAIN Fresh(n) = 1..Len(Fresh(n))
      /\ Len(Fresh(n)) \in Nat
  BY <1>2, <1>3, LenProperties
<1> QED
  BY <1>0, <1>3, <1>4

-----------------------------------------------------------------------------
(* What is used of the ring when one end has moved by n and the other by l. *)
LEMMA MovedSize ==
  ASSUME NEW r \in 0..Size - 1, NEW w \in 0..Size - 1, NEW l \in 0..Size - 1,
         NEW n \in Nat, MovePtr(r, n) \in 0..Size - 1,
         n <= RWSize(r, w) + l, RWSize(r, w) + l - n < Size
  PROVE  RWSize(MovePtr(r, n), MovePtr(w, l)) = RWSize(r, w) + l - n
<1>0. Size \in Nat /\ r \in Int /\ w \in Int /\ l \in Int /\ n \in Int
  BY AdfRingbufAssumption
<1> DEFINE p == MovePtr(r, n)
           q == MovePtr(w, l)
<1>1. p = r + n \/ p = r + n - Size
  BY <1>0 DEF MovePtr
<1>2. p \in 0..Size - 1
  BY <1>0 DEF MovePtr
<1>3. q = w + l \/ q = w + l - Size
  BY <1>0 DEF MovePtr
<1>4. q \in 0..Size - 1
  BY <1>0 DEF MovePtr
<1> HIDE DEF p, q
<1>5. RWSize(r, w) = w - r \/ RWSize(r, w) = w - r + Size
  BY <1>0 DEF RWSize
<1>6. RWSize(p, q) = q - p \/ RWSize(p, q) = q - p + Size
  BY <1>0, <1>2, <1>4 DEF RWSize
<1>7. RWSize(p, q) \in 0..Size - 1
  BY <1>0, <1>2, <1>4 DEF RWSize
<1>8. RWSize(p, q) = RWSize(r, w) + l - n
  BY <1>0, <1>1, <1>2, <1>3, <1>4, <1>5, <1>6, <1>7
<1> QED
  BY <1>8 DEF p, q

(* A ring of which all is used has its ends at the same place.             *)
LEMMA MovedOnto ==
  ASSUME NEW r \in 0..Size - 1, NEW w \in 0..Size - 1, NEW l \in 0..Size - 1,
         NEW n \in Nat, MovePtr(r, n) \in 0..Size - 1,
         RWSize(r, w) + l - n = Size
  PROVE  MovePtr(r, n) = MovePtr(w, l)
<1>0. Size \in Nat /\ r \in Int /\ w \in Int /\ l \in Int /\ n \in Int
  BY AdfRingbufAssumption
<1>1. MovePtr(r, n) \in { r + n, r + n - Size }
      /\ MovePtr(r, n) \in 0..Size - 1
  BY <1>0 DEF MovePtr
<1>2. MovePtr(w, l) \in { w + l, w + l - Size }
      /\ MovePtr(w, l) \in 0..Size - 1
  BY <1>0 DEF MovePtr
<1>3. RWSize(r, w) \in { w - r, w - r + Size }
  BY <1>0 DEF RWSize
<1> QED
  BY <1>0, <1>1, <1>2, <1>3

(* b with s put into it at w.                                              *)
With(b, w, s) == [ c \in Cells |-> IF RWSize(w, c) < Len(s)
                                   THEN s[RWSize(w, c) + 1] ELSE b[c] ]

(* Putting s at w and dropping n bytes at r.                               *)
LEMMA PutBytes ==
  ASSUME NEW b \in [Cells -> Byte], NEW r \in Cells, NEW w \in Cells,
         NEW s \in Seq(Byte), Len(s) < Size, NEW n \in Nat,
         MovePtr(r, n) \in Cells,
         n <= RWSize(r, w) + Len(s), RWSize(r, w) + Len(s) - n < Size
  PROVE  Bytes(With(b, w, s), MovePtr(r, n),
               RWSize(MovePtr(r, n), MovePtr(w, Len(s))))
           = Counted!Without(Bytes(b, r, RWSize(r, w)) \o s, n)
<1> DEFINE bb == With(b, w, s)
           u == RWSize(r, w)
           old == Bytes(b, r, u)
           k == u + Len(s) - n
<1>10. Size \in Nat /\ Len(s) \in Nat /\ u \in 0..Size - 1
  BY AdfRingbufAssumption, Sizes, LenProperties
<1>14. bb = [ c \in Cells |-> IF RWSize(w, c) < Len(s)
                               THEN s[RWSize(w, c) + 1] ELSE b[c] ]
  BY DEF With
<1>11. k = u + Len(s) - n /\ u = RWSize(r, w)
  OBVIOUS
<1>12. u + Len(s) - n < Size /\ n <= u + Len(s)
  OBVIOUS
<1> HIDE DEF bb, u, old, k
<1>0. /\ Size \in Nat /\ r \in 0..Size - 1 /\ w \in 0..Size - 1
      /\ Len(s) \in 0..Size - 1
      /\ u \in 0..Size - 1 /\ k \in 0..Size - 1 /\ n \in Nat
      /\ u \in 0..Size /\ k \in 0..Size
  BY <1>10, <1>11, <1>12 DEF Cells
<1>1. MovePtr(r, n) \in Cells /\ MovePtr(w, Len(s)) \in Cells
  BY <1>0, Moves
<1>2. RWSize(MovePtr(r, n), MovePtr(w, Len(s))) = k
  BY <1>0, <1>1, <1>11, <1>12, MovedSize DEF Cells
<1>3. bb \in [Cells -> Byte]
  <2>1. ASSUME NEW c \in Cells, RWSize(w, c) < Len(s)
        PROVE  s[RWSize(w, c) + 1] \in Byte
    <3>1. RWSize(w, c) \in 0..Size - 1
      BY Sizes
    <3>2. RWSize(w, c) + 1 \in 1..Len(s)
      BY <1>0, <2>1, <3>1
    <3> QED
      BY <3>2, LenProperties
  <2> QED
    BY <1>14, <2>1
<1>4. /\ old \in Seq(Byte) /\ Len(old) = u
      /\ \A i \in 1..u : old[i] = b[MovePtr(r, i - 1)]
  BY <1>0, BytesSeq DEF old
<1>5. /\ old \o s \in Seq(Byte) /\ Len(old \o s) = u + Len(s)
      /\ \A i \in 1..u + Len(s) :
           (old \o s)[i] = IF i <= u THEN old[i] ELSE s[i - u]
  BY <1>4, ConcatProperties
<1>13. n \in 0..Len(old \o s) /\ Len(old \o s) - n = k
  BY <1>0, <1>11, <1>5
<1>6. /\ Counted!Without(old \o s, n) \in Seq(Byte)
      /\ Len(Counted!Without(old \o s, n)) = k
      /\ \A i \in 1..k : Counted!Without(old \o s, n)[i] = (old \o s)[n + i]
  BY <1>5, <1>13, Rest
<1>7. /\ Bytes(bb, MovePtr(r, n), k) \in Seq(Byte)
      /\ Len(Bytes(bb, MovePtr(r, n), k)) = k
      /\ \A i \in 1..k :
           Bytes(bb, MovePtr(r, n), k)[i] = bb[MovePtr(MovePtr(r, n), i - 1)]
  BY <1>0, <1>1, <1>3, BytesSeq
<1>8. ASSUME NEW i \in 1..k
      PROVE  bb[MovePtr(MovePtr(r, n), i - 1)] = (old \o s)[n + i]
  <2> DEFINE c == MovePtr(MovePtr(r, n), i - 1)
  <2>0. i - 1 \in 0..Size /\ n + i \in 1..u + Len(s)
    BY <1>0, <1>11
  <2>1. c \in Cells /\ i - 1 \in 0..Size /\ n + i \in 1..u + Len(s)
    BY <2>0, <1>1, Moves
  <2>2. bb[c] = IF RWSize(w, c) < Len(s) THEN s[RWSize(w, c) + 1] ELSE b[c]
    BY <1>14, <2>1
  <2>3. CASE n + i <= u
    <3>1. c = MovePtr(r, n + i - 1)
      BY <1>0, <1>11, <2>3 DEF MovePtr
    <3>2. ~(RWSize(w, c) < Len(s))
      BY <1>0, <1>11, <2>3 DEF MovePtr, RWSize
    <3>3. n + i \in 1..u
      BY <1>0, <2>3
    <3>4. (old \o s)[n + i] = b[MovePtr(r, (n + i) - 1)]
      BY <2>1, <2>3, <3>3, <1>4, <1>5
    <3> QED
      BY <2>2, <3>1, <3>2, <3>4
  <2>4. CASE n + i > u
    <3>1. RWSize(w, c) = (n + i) - u - 1
      BY <1>0, <1>11, <2>4 DEF MovePtr, RWSize
    <3>2. (old \o s)[n + i] = s[(n + i) - u]
      <4> DEFINE j == n + i
      <4>1. j \in 1..u + Len(s) /\ ~(j <= u)
        BY <1>0, <2>1, <2>4
      <4> HIDE DEF j
      <4>2. (old \o s)[j] = s[j - u]
        BY <1>5, <4>1
      <4> QED
        BY <4>2 DEF j
    <3>3. RWSize(w, c) < Len(s) /\ RWSize(w, c) + 1 = (n + i) - u
      BY <1>0, <2>1, <2>4, <3>1
    <3> QED
      BY <2>2, <3>2, <3>3
  <2>5. n + i <= u \/ n + i > u
    BY <1>0
  <2> QED
    BY <2>3, <2>4, <2>5, Zenon
<1>9. Bytes(bb, MovePtr(r, n), k) = Counted!Without(old \o s, n)
  <2> DEFINE x == Bytes(bb, MovePtr(r, n), k)
             y == Counted!Without(old \o s, n)
  <2>1. x \in Seq(Byte) /\ y \in Seq(Byte) /\ Len(x) = k /\ Len(y) = k
    BY <1>6, <1>7
  <2>2. \A i \in 1..k : x[i] = y[i]
    BY <1>6, <1>7, <1>8
  <2> HIDE DEF x, y
  <2>3. x = y
    BY <2>1, <2>2, SeqEqual
  <2> QED
    BY <2>3 DEF x, y
<1> QED
  BY <1>2, <1>9, <1>11 DEF old, bb

-----------------------------------------------------------------------------
(* The steps of the ring, each mapped to a step of the queue.              *)

(* What the ring holds, and that it is well typed.                         *)
LEMMA ContentsBytes ==
  ASSUME TypeOK, Valid
  PROVE  /\ Contents = Bytes(buffer, rp, Used) /\ Contents \in Seq(Byte)
         /\ Len(Contents) = Used /\ Used \in 0..Size - 1
<1>0. Used \in 0..Size - 1
  BY Sizes DEF Valid, Used
<1>1. Used \in 0..Size - 1 /\ Used \in 0..Size
  BY <1>0, AdfRingbufAssumption
<1>2. Contents = Bytes(buffer, rp, Used)
  BY DEF Contents, From, Bytes
<1> QED
  BY <1>1, <1>2, BytesSeq DEF TypeOK, Valid

(* An empty ring holds nothing.                                            *)
LEMMA EmptyContents == rp = wp /\ rp \in Cells => Contents = << >>
<1> SUFFICES ASSUME rp = wp, rp \in Cells PROVE Contents = << >>
  OBVIOUS
<1>1. Used = 0
  BY AdfRingbufAssumption DEF Used, RWSize, Cells
<1>2. Contents \in [1..0 -> Byte]
  BY <1>1 DEF Contents, From, Valid
<1>3. Contents \in Seq(Byte) /\ DOMAIN Contents = 1..0
  BY <1>2, SeqDef
<1>4. Len(Contents) = 0
  BY <1>3, LenProperties
<1> QED
  BY <1>3, <1>4, EmptySeq

(* The sizes of a ring that is well typed.                                 *)
LEMMA RingSizes ==
  ASSUME Sound
  PROVE  /\ Size \in Nat \ {0} /\ Word \in Nat \ {0} /\ dropunit \in 0..Size
         /\ Used \in 0..Size - 1 /\ Free \in 1..Size /\ Used + Free = Size
         /\ rp \in Cells /\ wp \in Cells
BY Sizes, NumbersHold, AdfRingbufAssumption DEF Numbers, Used, Free

(* A put that fills the ring to the last byte loses all that is in it.     *)
Overflow == Stream!Next /\ Contents' = << >>

(* Of a put that moves wp on over all of s, the queue grows by s and loses *)
(* n bytes, or is emptied.                                                 *)
LEMMA PutMaps ==
  ASSUME Sound, Valid', NEW s \in Seq(Byte), Len(s) < Size, NEW n \in Nat,
         n <= Used + Len(s), Used + Len(s) - n <= Size,
         n > 0 => /\ dropunit > 0 /\ Used + Len(s) >= Size
                  /\ n < Used + Len(s) - Size + dropunit,
         Used + Len(s) - n = Size => dropunit > 0,
         Put(s, Len(s), n)
  PROVE  /\ Used + Len(s) - n < Size => Counted!Next
         /\ Used + Len(s) - n = Size => Overflow
<1>0. /\ Size \in Nat \ {0} /\ Len(s) \in Nat /\ Used \in 0..Size - 1
      /\ Len(s) \in 0..Size /\ Len(s) \in 0..Size - 1
      /\ rp \in Cells /\ wp \in Cells /\ TypeOK /\ Valid
  BY RingSizes, LenProperties DEF Sound
<1>1. /\ buffer' = [ c \in Cells |-> IF RWSize(wp, c) < Len(s)
                                      THEN s[RWSize(wp, c) + 1] ELSE buffer[c] ]
      /\ wp' = MovePtr(wp, Len(s)) /\ rp' = MovePtr(rp, n)
      /\ drop' = (drop + n) % Drops
      /\ io' = s /\ UNCHANGED dropunit
  <2>1. At(wp) = wp
    BY <1>0 DEF At, Cells
  <2> QED
    BY <2>1 DEF Put
<1>2. rp' \in Cells /\ MovePtr(rp, n) \in Cells
  BY <1>1 DEF Valid
<1>3. ASSUME Used + Len(s) - n < Size PROVE Counted!Next
  <2>1. Contents' = Bytes(buffer', rp', RWSize(rp', wp'))
    BY DEF Contents, From, Bytes, Used
  <2>2. Contents' = Counted!Without(Contents \o s, n)
    <3>1. buffer \in [Cells -> Byte] /\ Used = RWSize(rp, wp)
      BY <1>0 DEF TypeOK, Used
    <3>3. buffer' = With(buffer, wp, s)
      BY <1>1 DEF With
    <3>2. Bytes(With(buffer, wp, s), MovePtr(rp, n),
                RWSize(MovePtr(rp, n), MovePtr(wp, Len(s))))
            = Counted!Without(Bytes(buffer, rp, RWSize(rp, wp)) \o s, n)
      <4>1. n <= RWSize(rp, wp) + Len(s) /\ RWSize(rp, wp) + Len(s) - n < Size
        BY <1>3, <3>1
      <4> QED
        BY <1>0, <1>2, <3>1, <4>1, PutBytes
    <3> QED
      BY <1>0, <1>1, <2>1, <3>1, <3>2, <3>3, ContentsBytes
  <2>3. Len(Contents \o s) = Used + Len(s)
    BY <1>0, ContentsBytes, ConcatProperties
  <2>4. n \in 0..Len(Contents \o s)
    BY <1>0, <2>3
  <2>5. /\ io' \in Seq(Byte) /\ n \in 0..Len(Contents \o io')
        /\ Contents' = Counted!Without(Contents \o io', n)
        /\ drop' = (drop + n) % Drops
    BY <1>1, <2>2, <2>4
  <2>6. n > 0 => /\ dropunit > 0 /\ Len(Contents \o io') >= Size
                 /\ n < Len(Contents \o io') - Size + dropunit
    <3> DEFINE all == Len(Contents \o io')
    <3>1. all = Used + Len(s)
      BY <1>1, <2>3
    <3> HIDE DEF all
    <3>2. n > 0 => dropunit > 0 /\ all >= Size /\ n < all - Size + dropunit
      BY <1>0, <3>1
    <3> QED
      BY <3>2 DEF all
  <2>7. Counted!Put
    BY <2>5, <2>6 DEF Counted!Put
  <2> QED
    BY <1>1, <2>7 DEF Counted!Next
<1>4. ASSUME Used + Len(s) - n = Size PROVE Overflow
  <2>1. rp' = wp'
    BY <1>0, <1>1, <1>2, <1>4, MovedOnto DEF Used, Cells
  <2>2. Contents' = << >>
    <3>1. (rp = wp /\ rp \in Cells => Contents = << >>)'
      BY EmptyContents, PTL
    <3> QED
      BY <1>2, <2>1, <3>1
  <2>3. io' \in Seq(Byte) /\ dropunit' = dropunit
    BY <1>1
  <2>4. Len(Contents \o io') >= Size /\ Len(Contents \o io') - Size = n
    <3> DEFINE all == Len(Contents \o io')
    <3>1. all = Used + Len(s)
      BY <1>0, <1>1, ContentsBytes, ConcatProperties
    <3> HIDE DEF all
    <3>2. all >= Size /\ all - Size = n
      BY <1>0, <1>4, <3>1
    <3> QED
      BY <3>2 DEF all
  <2>5. Stream!Overrun
    BY <1>1, <1>4, <2>2, <2>3, <2>4 DEF Stream!Overrun
  <2> QED
    BY <2>2, <2>3, <2>5 DEF Overflow, Stream!Next
<1> QED
  BY <1>3, <1>4, Zenon

(* A step of the queue that counts all it drops, or else len bytes have    *)
(* filled the ring to the brim.                                            *)
Mapped(len) == [Counted!Next]_(Counted!vars) \/ (Brim(len) /\ Overflow)

(* A put of len bytes, of which there is room for or made.                 *)
LEMMA PutFresh ==
  ASSUME Sound, Valid', NEW len \in Lens, len < Free \/ dropunit > 0,
         Put(Fresh(len), len, DropLen(len))
  PROVE  Mapped(len)
<1>0. Numbers /\ len \in 0..Size /\ len < Size
  BY NumbersHold, AdfRingbufAssumption DEF Lens
<1>1. Fresh(len) \in Seq(Byte) /\ Len(Fresh(len)) = len
  BY <1>0, FreshSeq DEF Numbers
<1>2. /\ DropLen(len) \in Nat /\ DropLen(len) <= Used + len
      /\ Used + len - DropLen(len) <= Size
      /\ DropLen(len) > 0 => /\ dropunit > 0 /\ Used + len >= Size
                             /\ DropLen(len) < Used + len - Size + dropunit
  BY <1>0, Dropped
<1> DEFINE s == Fresh(len)
           n == DropLen(len)
<1>3. /\ s \in Seq(Byte) /\ Len(s) < Size /\ n \in Nat
      /\ n <= Used + Len(s) /\ Used + Len(s) - n <= Size
      /\ n > 0 => /\ dropunit > 0 /\ Used + Len(s) >= Size
                  /\ n < Used + Len(s) - Size + dropunit
      /\ Put(s, Len(s), n)
  BY <1>0, <1>1, <1>2, Zenon
<1>4. Used + Len(s) - n = Size => dropunit > 0
  <2>1. CASE len < Free
    <3>1. Used + Free = Size /\ Used \in 0..Size - 1 /\ Free \in 1..Size
          /\ Size \in Nat
      BY RingSizes
    <3>2. DropLen(len) = 0
      BY <1>0, <2>1, <3>1 DEF DropLen
    <3>3. Len(Fresh(len)) = len
      BY <1>1
    <3> QED
      BY <1>0, <2>1, <3>1, <3>2, <3>3
  <2> QED
    BY <2>1
<1>5. Used + Len(s) - n = Size => Brim(len)
  BY <1>0, <1>1, <1>2, <1>4, Brimmed
<1>6. Used + Len(s) - n < Size \/ Used + Len(s) - n = Size
  BY <1>0, <1>1, <1>2, RingSizes
<1> HIDE DEF s, n
<1>7. /\ Used + Len(s) - n < Size => Counted!Next
      /\ Used + Len(s) - n = Size => Overflow
  BY <1>3, <1>4, PutMaps
<1> QED
  BY <1>5, <1>6, <1>7, Zenon DEF Mapped

(* A stray copy is none of the queue's business.                           *)
LEMMA StrayMaps == Stray => UNCHANGED Counted!vars
BY DEF Stray, Contents, Valid, From, Used, Counted!vars

(* A write puts what there is room for, or makes room.                     *)
LEMMA WriteMaps ==
  ASSUME Sound, Valid', NEW len \in Lens, Write(len)
  PROVE  Mapped(len)
<1>0. /\ Size \in Nat \ {0} /\ Word \in Nat \ {0} /\ dropunit \in 0..Size
      /\ Used \in 0..Size - 1 /\ Free \in 1..Size /\ Used + Free = Size
      /\ len \in 1..Size - 1
  BY RingSizes DEF Lens
<1>1. CASE ~Inside(wp, KeptLen(len))
  <2>1. Stray
    BY <1>1, Zenon DEF Write
  <2> QED
    BY <2>1, StrayMaps DEF Mapped
<1>2. CASE Inside(wp, KeptLen(len)) /\ len >= Free /\ dropunit = 0
  <2>1. /\ KeptLen(len) = Free - Word /\ DropLen(len) = 0
        /\ Free - Word \in 0..Size /\ Free - Word < Free /\ Free - Word < Size
    BY <1>0, <1>2 DEF KeptLen, DropLen, Inside
  <2>2. Put(Fresh(Free - Word), Free - Word, 0)
    BY <1>2, <2>1 DEF Write
  <2>3. Fresh(Free - Word) \in Seq(Byte)
       /\ Len(Fresh(Free - Word)) = Free - Word
    <3>1. Free - Word \in Nat /\ next \in 0..Tags - 1
      BY <1>0, <2>1, NumbersHold DEF Numbers
    <3> QED
      BY <3>1, FreshSeq
  <2> DEFINE s == Fresh(Free - Word)
  <2>4. s \in Seq(Byte) /\ Len(s) = Free - Word /\ Put(s, Len(s), 0)
    BY <2>2, <2>3
  <2> HIDE DEF s
  <2>5. /\ Len(s) < Size /\ 0 \in Nat /\ 0 <= Used + Len(s)
        /\ Used + Len(s) - 0 <= Size
        /\ 0 > 0 => /\ dropunit > 0 /\ Used + Len(s) >= Size
                    /\ 0 < Used + Len(s) - Size + dropunit
        /\ Used + Len(s) - 0 < Size /\ Used + Len(s) - 0 # Size
    BY <1>0, <2>1, <2>4
  <2>6. Counted!Next
    BY <2>4, <2>5, PutMaps
  <2> QED
    BY <2>6 DEF Mapped
<1>3. CASE Inside(wp, KeptLen(len)) /\ (len < Free \/ dropunit > 0)
  <2>1. KeptLen(len) = len
    BY <1>0, <1>3 DEF KeptLen
  <2>2. Put(Fresh(len), len, DropLen(len))
    BY <1>3, <2>1, Zenon DEF Write
  <2> QED
    BY <1>3, <2>2, PutFresh
<1> QED
  BY <1>0, <1>1, <1>2, <1>3

(* An add to a ring that never drops and has no room: the hardware has put *)
(* the bytes over the oldest, and all but a word of the buffer is in use.  *)
Laid == Stream!Next /\ Len(Contents') = Size - Word

(* Such an add leaves rp where it is, and wp a word before it.             *)
LEMMA CutSize ==
  ASSUME NEW r \in Cells, NEW w \in Cells,
         MovePtr(w, WRSize(w, r) - Word) \in Cells
  PROVE  RWSize(r, MovePtr(w, WRSize(w, r) - Word)) = Size - Word
<1>0. Size \in Nat /\ Word \in 1..Size /\ r \in 0..Size - 1 /\ w \in 0..Size - 1
  BY AdfRingbufAssumption DEF Cells
<1>1. WRSize(w, r) = r - w \/ WRSize(w, r) = Size - w + r
  BY <1>0 DEF WRSize
<1> DEFINE q == MovePtr(w, WRSize(w, r) - Word)
<1>2. q \in 0..Size - 1 /\ (q = r - Word \/ q = r + Size - Word)
  <2>1. q \in 0..Size - 1
    BY <1>0 DEF Cells
  <2>2. q = w + (WRSize(w, r) - Word) \/ q = w + (WRSize(w, r) - Word) - Size
    BY DEF MovePtr
  <2> HIDE DEF q
  <2> QED
    BY <1>0, <1>1, <2>1, <2>2
<1> HIDE DEF q
<1>3. RWSize(r, q) = Size - Word
  BY <1>0, <1>2 DEF RWSize
<1> QED
  BY <1>3 DEF q

(* It is the queue that the hardware has gone round.                       *)
LEMMA CutMaps ==
  ASSUME Sound, Valid', NEW len \in Lens, dropunit = 0, len >= Free, Add(len)
  PROVE  Laid
<1>0. /\ Size \in Nat \ {0} /\ Word \in 1..Size /\ TypeOK /\ Valid
      /\ Used \in 0..Size - 1 /\ Free \in 1..Size /\ Used + Free = Size
      /\ len \in 1..Size - 1 /\ rp \in Cells /\ wp \in Cells
      /\ Free = WRSize(wp, rp) /\ Used = RWSize(rp, wp)
  BY RingSizes, AdfRingbufAssumption DEF Lens, Sound, Free, Used
<1> DEFINE s == Fresh(len)
<1>1. s \in Seq(Byte) /\ Len(s) = len
  BY <1>0, NumbersHold, FreshSeq DEF Numbers
<1>2. Put(s, Free - Word, 0)
  <2>1. KeptLen(len) = Free - Word /\ DropLen(len) = 0
    BY <1>0 DEF KeptLen, DropLen
  <2> QED
    BY <2>1 DEF Add
<1> HIDE DEF s
<1>3. /\ buffer' = With(buffer, wp, s)
      /\ wp' = MovePtr(wp, WRSize(wp, rp) - Word) /\ rp' = MovePtr(rp, 0)
      /\ drop' = (drop + 0) % Drops /\ io' = s /\ dropunit' = dropunit
  <2>1. At(wp) = wp
    BY <1>0 DEF At, Cells
  <2> QED
    BY <1>0, <1>2, <2>1 DEF Put, With
<1>4. rp' = rp /\ rp \in 0..Size - 1 /\ wp \in 0..Size - 1
  BY <1>0, <1>3 DEF MovePtr, Cells
<1>5. drop' = drop
  <2>1. Drops \in Nat \ {0} /\ drop \in 0..Drops - 1
    BY <1>0, AdfRingbufAssumption DEF TypeOK
  <2> QED
    BY <1>3, <2>1
<1>6. RWSize(rp', wp') = Size - Word /\ Size - Word \in 0..Size
  <2>1. wp' \in Cells
    BY DEF Valid
  <2> QED
    BY <1>0, <1>3, <1>4, <2>1, CutSize
<1> DEFINE k == Size - Word
           all == Contents \o s
<1>7. Contents' = Bytes(With(buffer, wp, s), rp, k)
  <2>1. Contents' = Bytes(buffer', rp', RWSize(rp', wp'))
    BY DEF Contents, From, Bytes, Used
  <2> QED
    BY <1>3, <1>4, <1>6, <2>1
<1>8. With(buffer, wp, s) \in [Cells -> Byte]
  <2>1. ASSUME NEW c \in Cells, RWSize(wp, c) < Len(s)
        PROVE  s[RWSize(wp, c) + 1] \in Byte
    <3>1. RWSize(wp, c) \in 0..Size - 1
      BY <1>0, Sizes
    <3>2. RWSize(wp, c) + 1 \in 1..Len(s)
      BY <1>0, <1>1, <2>1, <3>1
    <3> QED
      BY <1>1, <3>2, LenProperties
  <2> QED
    BY <1>0, <2>1 DEF With, TypeOK
<1>9. /\ Contents' \in Seq(Byte) /\ Len(Contents') = k
      /\ Contents' = [ i \in 1..k |-> With(buffer, wp, s)[MovePtr(rp, i - 1)] ]
  BY <1>0, <1>6, <1>7, <1>8, BytesSeq DEF Bytes
<1>10. /\ Contents \in Seq(Byte) /\ Len(Contents) = Used
       /\ \A i \in 1..Used : Contents[i] = buffer[MovePtr(rp, i - 1)]
  <2>1. Contents = Bytes(buffer, rp, Used)
    BY <1>0, ContentsBytes
  <2> QED
    BY <1>0, <2>1, ContentsBytes DEF Bytes
<1>11. /\ Len(all) = Used + len
       /\ \A i \in 1..Used + len :
            all[i] = IF i <= Used THEN Contents[i] ELSE s[i - Used]
  BY <1>1, <1>10, ConcatProperties
<1>12. ASSUME NEW i \in 1..k
       PROVE  With(buffer, wp, s)[MovePtr(rp, i - 1)]
                = IF i <= Len(all) - Size THEN all[i + Size] ELSE all[i]
  <2> DEFINE c == MovePtr(rp, i - 1)
             m == RWSize(wp, c)
  <2>1. i - 1 \in 0..Size /\ i \in 1..Size - 1 /\ i <= Used + len
    BY <1>0
  <2>2. c \in Cells
    BY <1>0, <2>1, Moves
  <2>3. With(buffer, wp, s)[c] = IF m < len THEN s[m + 1] ELSE buffer[c]
    BY <1>1, <2>2 DEF With
  <2>4. m = IF i <= Used THEN Size - Used + i - 1 ELSE i - Used - 1
    BY <1>0, <1>4, <2>1 DEF MovePtr, RWSize
  <2>5. i <= Used => Contents[i] = buffer[c]
    BY <1>0, <1>10, <2>1
  <2>6. Len(all) = Used + len
    BY <1>11
  <2> SUFFICES With(buffer, wp, s)[c] = IF i <= Len(all) - Size
                                        THEN all[i + Size] ELSE all[i]
    OBVIOUS
  <2> HIDE DEF c, m, all, k
  <2>7. CASE i <= Used + len - Size
    <3>1. m < len /\ m + 1 = (i + Size) - Used
      BY <1>0, <2>1, <2>4, <2>7
    <3>2. i + Size \in 1..Used + len /\ ~(i + Size <= Used)
      BY <1>0, <2>1, <2>7
    <3>3. all[i + Size] = s[(i + Size) - Used]
      BY <1>11, <3>2
    <3>4. With(buffer, wp, s)[c] = all[i + Size]
      BY <2>3, <3>1, <3>3
    <3> QED
      BY <1>0, <2>1, <2>6, <2>7, <3>4
  <2>8. CASE ~(i <= Used + len - Size) /\ i <= Used
    <3>1. ~(m < len)
      BY <1>0, <2>1, <2>4, <2>8
    <3>2. i \in 1..Used + len
      BY <1>0, <2>1, <2>8
    <3>3. all[i] = Contents[i]
      BY <1>11, <2>8, <3>2
    <3>4. With(buffer, wp, s)[c] = all[i]
      BY <2>3, <2>5, <2>8, <3>1, <3>3
    <3> QED
      BY <1>0, <2>1, <2>6, <2>8, <3>4
  <2>9. CASE ~(i <= Used + len - Size) /\ ~(i <= Used)
    <3>1. m < len /\ m + 1 = i - Used
      BY <1>0, <2>1, <2>4, <2>9
    <3>2. i \in 1..Used + len
      BY <1>0, <2>1, <2>9
    <3>3. all[i] = s[i - Used]
      BY <1>11, <2>9, <3>2
    <3>4. With(buffer, wp, s)[c] = all[i]
      BY <2>3, <3>1, <3>3
    <3> QED
      BY <1>0, <2>1, <2>6, <2>9, <3>4
  <2> QED
    BY <2>7, <2>8, <2>9
<1>13. Contents' = [ i \in 1..k |->
                       IF i <= Len(all) - Size THEN all[i + Size] ELSE all[i] ]
  BY <1>9, <1>12
<1>14. Len(all) >= Size
  BY <1>0, <1>11
<1>15. Stream!Overlay
  BY <1>0, <1>1, <1>3, <1>5, <1>13, <1>14 DEF Stream!Overlay
<1> QED
  BY <1>3, <1>9, <1>15 DEF Laid, Stream!Next

(* An add that finds or makes room puts its bytes as a write does.         *)
LEMMA AddMaps ==
  ASSUME Sound, Valid', NEW len \in Lens, len < Free \/ dropunit > 0, Add(len)
  PROVE  Mapped(len)
<1>1. KeptLen(len) = len
  BY RingSizes DEF KeptLen, Lens
<1>2. Put(Fresh(len), len, DropLen(len))
  BY <1>1 DEF Add
<1> QED
  BY <1>2, PutFresh


(* A read finds the oldest bytes.                                          *)
LEMMA ReadMaps ==
  ASSUME Sound, NEW len \in Lens, Read(len)
  PROVE  [Counted!Next]_(Counted!vars)
<1> DEFINE n == Least(len, Used)
<1>0. /\ Size \in Nat \ {0} /\ Used \in 0..Size - 1 /\ len \in 1..Size - 1
      /\ rp \in 0..Size - 1 /\ TypeOK /\ Valid
  BY RingSizes DEF Lens, Sound, Cells
<1>1. n \in 0..Used /\ n \in 0..Size
  BY <1>0 DEF Least
<1>2. /\ io' = From(rp, n)
      /\ UNCHANGED << buffer, rp, wp, drop, dropunit, stray, next >>
  <2>1. Inside(rp, n)
    BY <1>0, <1>1 DEF Inside
  <2> QED
    BY <2>1 DEF Read
<1> HIDE DEF n
<1>3. io' = Bytes(buffer, rp, n)
  BY <1>2 DEF From, Bytes
<1>4. /\ Bytes(buffer, rp, n) \in Seq(Byte) /\ Len(Bytes(buffer, rp, n)) = n
      /\ \A i \in 1..n : Bytes(buffer, rp, n)[i] = buffer[MovePtr(rp, i - 1)]
  BY <1>0, <1>1, BytesSeq DEF TypeOK, Cells
<1>5. Contents' = Contents
  BY <1>2 DEF Contents, Valid, From, Used
<1>6. io' = SubSeq(Contents, 1, n)
  <2>1. /\ Contents \in Seq(Byte) /\ Len(Contents) = Used
        /\ Contents = Bytes(buffer, rp, Used)
    BY <1>0, ContentsBytes
  <2>2. \A i \in 1..Used : Contents[i] = buffer[MovePtr(rp, i - 1)]
    BY <2>1 DEF Bytes
  <2>3. n \in Int /\ 1 \in Int /\ \A i \in 1..n : Contents[i] \in Byte
    BY <1>0, <1>1, <2>1, LenProperties
  <2>4. /\ SubSeq(Contents, 1, n) \in Seq(Byte)
        /\ Len(SubSeq(Contents, 1, n)) = IF 1 <= n THEN n - 1 + 1 ELSE 0
        /\ \A i \in 1..n - 1 + 1 :
             SubSeq(Contents, 1, n)[i] = Contents[1 + i - 1]
    BY <2>3, SubSeqProperties
  <2>5. Len(SubSeq(Contents, 1, n)) = n
        /\ \A i \in 1..n : SubSeq(Contents, 1, n)[i] = Contents[i]
    BY <1>0, <1>1, <2>4
  <2> DEFINE x == Bytes(buffer, rp, n)
             y == SubSeq(Contents, 1, n)
  <2>6. x \in Seq(Byte) /\ y \in Seq(Byte) /\ Len(x) = n /\ Len(y) = n
    BY <1>4, <2>4, <2>5
  <2>7. \A i \in 1..n : x[i] = y[i]
    BY <1>0, <1>1, <1>4, <2>2, <2>5
  <2> HIDE DEF x, y
  <2>8. x = y
    BY <2>6, <2>7, SeqEqual
  <2> QED
    BY <1>3, <2>8 DEF x, y
<1>7. Counted!Read
  BY <1>0, <1>1, <1>2, <1>5, <1>6, ContentsBytes DEF Counted!Read
<1> QED
  BY <1>2, <1>7 DEF Counted!Next

(* The ring with its read pointer moved on over n bytes.                   *)
LEMMA MovedOn ==
  ASSUME NEW b \in [Cells -> Byte], NEW r \in Cells, NEW w \in Cells,
         NEW n \in 0..Size, n <= RWSize(r, w)
  PROVE  Bytes(b, MovePtr(r, n), RWSize(MovePtr(r, n), w))
           = Counted!Without(Bytes(b, r, RWSize(r, w)), n)
<1>0. /\ Size \in Nat \ {0} /\ RWSize(r, w) \in 0..Size - 1
      /\ RWSize(r, w) \in 0..Size
  BY Sizes, AdfRingbufAssumption
<1>1. ASSUME NEW s \in Seq(Byte), Len(s) = 0
      PROVE  Bytes(b, MovePtr(r, n), RWSize(MovePtr(r, n), w))
               = Counted!Without(Bytes(b, r, RWSize(r, w)), n)
  <2>1. Len(s) = 0
    BY <1>1
  <2>2. ASSUME NEW c \in Cells PROVE ~(RWSize(w, c) < Len(s))
    <3>1. RWSize(w, c) \in 0..Size - 1
      BY Sizes
    <3> QED
      BY <1>0, <2>1, <3>1
  <2>3. With(b, w, s) = b
    BY <2>2 DEF With
  <2>4. /\ Len(s) < Size /\ n <= RWSize(r, w) + Len(s)
        /\ RWSize(r, w) + Len(s) - n < Size
    BY <1>0, <2>1
  <2>5. Bytes(With(b, w, s), MovePtr(r, n),
              RWSize(MovePtr(r, n), MovePtr(w, Len(s))))
          = Counted!Without(Bytes(b, r, RWSize(r, w)) \o s, n)
    <3>1. n \in Nat /\ MovePtr(r, n) \in Cells
      BY <1>0, Moves
    <3> QED
      BY <1>1, <2>4, <3>1, PutBytes
  <2>6. MovePtr(w, Len(s)) = w
    BY <1>0, <2>1 DEF MovePtr, Cells
  <2>7. Bytes(b, r, RWSize(r, w)) \in Seq(Byte)
    BY <1>0, BytesSeq
  <2>9. s = << >>
    BY <1>1, EmptySeq
  <2>8. Bytes(b, r, RWSize(r, w)) \o s = Bytes(b, r, RWSize(r, w))
    BY <2>7, <2>9, ConcatEmptySeq
  <2> QED
    BY <2>3, <2>5, <2>6, <2>8
<1>2. << >> \in Seq(Byte) /\ Len(<< >>) = 0
  OBVIOUS
<1> QED
  BY <1>1, <1>2, Zenon

(* A flush takes the oldest bytes.                                         *)
LEMMA FlushMaps ==
  ASSUME Sound, Valid', NEW len \in Lens, Flush(len)
  PROVE  [Counted!Next]_(Counted!vars)
<1> DEFINE n == Least(len, Used)
<1>0. /\ Size \in Nat \ {0} /\ Used \in 0..Size - 1 /\ len \in 1..Size - 1
      /\ TypeOK /\ Valid
  BY RingSizes DEF Lens, Sound
<1>1. n \in 0..Used /\ n \in 0..Size /\ n <= RWSize(rp, wp)
  BY <1>0 DEF Least, Used
<1>2. /\ rp' = MovePtr(rp, n)
      /\ UNCHANGED << buffer, wp, drop, dropunit, stray, next, io >>
  BY DEF Flush
<1> HIDE DEF n
<1>3. Contents' = Counted!Without(Contents, n)
  <2>1. Contents' = Bytes(buffer', rp', RWSize(rp', wp'))
    BY DEF Contents, From, Bytes, Used
  <2>2. Contents = Bytes(buffer, rp, RWSize(rp, wp))
    BY <1>0 DEF Contents, From, Bytes, Used
  <2>3. Bytes(buffer, MovePtr(rp, n), RWSize(MovePtr(rp, n), wp))
          = Counted!Without(Bytes(buffer, rp, RWSize(rp, wp)), n)
    BY <1>0, <1>1, RingSizes, MovedOn DEF TypeOK
  <2> QED
    BY <1>2, <2>1, <2>2, <2>3
<1>4. Counted!Flush
  BY <1>0, <1>1, <1>2, <1>3, ContentsBytes DEF Counted!Flush
<1> QED
  BY <1>2, <1>4 DEF Counted!Next

(* A step back by n and on by n.                                           *)
LEMMA BackAndOn ==
  ASSUME NEW r \in Cells, NEW w \in Cells, NEW n \in 0..WRSize(w, r)
  PROVE  /\ MovePtr(r, Size - n) \in Cells
         /\ MovePtr(MovePtr(r, Size - n), n) = r
         /\ n < WRSize(w, r) =>
              RWSize(MovePtr(r, Size - n), w) = RWSize(r, w) + n
         /\ n = WRSize(w, r) => MovePtr(r, Size - n) = w
BY AdfRingbufAssumption DEF MovePtr, RWSize, WRSize, Cells

(* A reserve gives the oldest bytes back, or the ring comes to be empty.   *)
LEMMA ReserveMaps ==
  ASSUME Sound, Valid', NEW len \in Lens, Reserve(len)
  PROVE  [Counted!Next]_(Counted!vars)
<1>0. /\ Size \in Nat \ {0} /\ dropunit \in 0..Size
      /\ Used \in 0..Size - 1 /\ Free \in 1..Size /\ Used + Free = Size
      /\ len \in 1..Size - 1 /\ rp \in Cells /\ wp \in Cells
      /\ TypeOK /\ Valid
  BY RingSizes DEF Lens, Sound
<1>1. CASE len >= Free /\ dropunit = 0
  <2>1. Stray
    BY <1>1 DEF Reserve
  <2> QED
    BY <2>1, StrayMaps
<1>2. CASE ~(len >= Free /\ dropunit = 0)
  <2> DEFINE n == IF len >= Free THEN Whole(Free) ELSE len
  <2>1. /\ rp' = MovePtr(rp, Size - n)
        /\ UNCHANGED << buffer, wp, drop, dropunit, stray, next, io >>
    BY <1>2 DEF Reserve
  <2>2. n \in 0..Free
    <3>1. CASE len >= Free
      <4>1. dropunit \in Nat \ {0} /\ Free \in Nat
        BY <1>0, <1>2, <3>1
      <4>2. Whole(Free) \in Nat /\ Whole(Free) <= Free
        BY <4>1, WholeUnits
      <4> QED
        BY <1>0, <3>1, <4>2
    <3>2. CASE ~(len >= Free)
      BY <1>0, <3>2
    <3> QED
      BY <3>1, <3>2
  <2> HIDE DEF n
  <2>3. /\ n \in 0..WRSize(wp, rp) /\ Free = WRSize(wp, rp) /\ n \in 0..Size
        /\ Used = RWSize(rp, wp)
    BY <1>0, <2>2 DEF Free, Used
  <2>4. /\ MovePtr(rp, Size - n) \in Cells
        /\ MovePtr(MovePtr(rp, Size - n), n) = rp
        /\ n < WRSize(wp, rp) =>
             RWSize(MovePtr(rp, Size - n), wp) = RWSize(rp, wp) + n
        /\ n = WRSize(wp, rp) => MovePtr(rp, Size - n) = wp
    BY <1>0, <2>3, BackAndOn
  <2>5. CASE n < Free
    <3>1. RWSize(rp', wp) = Used + n /\ rp' \in Cells /\ MovePtr(rp', n) = rp
      BY <2>1, <2>3, <2>4, <2>5
    <3>2. n <= RWSize(rp', wp) /\ Used + n \in 0..Size
      BY <1>0, <2>2, <3>1
    <3>3. Bytes(buffer, MovePtr(rp', n), RWSize(MovePtr(rp', n), wp))
            = Counted!Without(Bytes(buffer, rp', RWSize(rp', wp)), n)
      <4>1. buffer \in [Cells -> Byte] /\ n \in 0..Size /\ wp \in Cells
        BY <1>0, <2>3 DEF TypeOK
      <4> DEFINE q == rp'
      <4>2. q \in Cells /\ n <= RWSize(q, wp)
        BY <3>1, <3>2
      <4> HIDE DEF q
      <4>3. Bytes(buffer, MovePtr(q, n), RWSize(MovePtr(q, n), wp))
              = Counted!Without(Bytes(buffer, q, RWSize(q, wp)), n)
        BY <4>1, <4>2, MovedOn
      <4> QED
        BY <4>3 DEF q
    <3>4. /\ Contents' = Bytes(buffer, rp', RWSize(rp', wp))
          /\ Contents = Bytes(buffer, rp, RWSize(rp, wp))
      BY <1>0, <2>1 DEF Contents, From, Bytes, Used
    <3>5. Len(Contents') = Used + n /\ Len(Contents) = Used
      <4>1. Bytes(buffer, rp', Used + n) \in Seq(Byte)
            /\ Len(Bytes(buffer, rp', Used + n)) = Used + n
        <5>1. buffer \in [Cells -> Byte] /\ rp' \in Cells
              /\ Used + n \in 0..Size
          BY <1>0, <3>1, <3>2 DEF TypeOK
        <5> DEFINE q == rp'
                   m == Used + n
        <5>2. q \in Cells /\ m \in 0..Size
          BY <5>1
        <5> HIDE DEF q, m
        <5>3. Len(Bytes(buffer, q, m)) = m /\ Bytes(buffer, q, m) \in Seq(Byte)
          BY <5>1, <5>2, BytesSeq
        <5> QED
          BY <5>3 DEF q, m
      <4> QED
        BY <1>0, <3>1, <3>4, <4>1, ContentsBytes
    <3>6. Contents = Counted!Without(Contents', Len(Contents') - Len(Contents))
      <4>1. Len(Contents') - Len(Contents) = n
        BY <1>0, <2>3, <3>5
      <4> QED
        BY <3>1, <3>3, <3>4, <4>1
    <3>7. Len(Contents') >= Len(Contents)
      BY <1>0, <2>3, <3>5
    <3>8. Counted!Reserve
      BY <2>1, <3>6, <3>7 DEF Counted!Reserve
    <3> QED
      BY <2>1, <3>8 DEF Counted!Next
  <2>6. CASE n = Free
    <3>1. rp' = wp' /\ rp' \in Cells
      BY <2>1, <2>3, <2>4, <2>6
    <3>2. (rp = wp /\ rp \in Cells => Contents = << >>)'
      BY EmptyContents, PTL
    <3>3. Contents \in Seq(Byte) /\ Len(Contents) \in Nat
      BY <1>0, ContentsBytes, LenProperties
    <3>4. Counted!Without(Contents, Len(Contents)) = << >>
      BY <3>3, SubSeqEmpty DEF Counted!Without
    <3>5. Len(Contents) \in 0..Len(Contents)
      BY <3>3
    <3>6. Contents' = Counted!Without(Contents, Len(Contents))
      BY <3>1, <3>2, <3>4
    <3>7. Counted!Flush
      BY <2>1, <3>5, <3>6 DEF Counted!Flush
    <3> QED
      BY <2>1, <3>7 DEF Counted!Next
  <2> QED
    BY <1>0, <2>2, <2>5, <2>6
<1> QED
  BY <1>1, <1>2

(* A reset empties the ring.                                               *)
LEMMA ResetMaps ==
  ASSUME Reset
  PROVE  [Counted!Next]_(Counted!vars)
<1>1. /\ rp' = 0 /\ wp' = 0 /\ drop' = 0
      /\ UNCHANGED << dropunit, io >>
  BY DEF Reset
<1>2. 0 \in Cells
  BY AdfRingbufAssumption DEF Cells
<1>3. (rp = wp /\ rp \in Cells => Contents = << >>)'
  BY EmptyContents, PTL
<1>4. Counted!Reset
  BY <1>1, <1>2, <1>3 DEF Counted!Reset
<1> QED
  BY <1>1, <1>4 DEF Counted!Next

(* A new ring is an empty queue.                                           *)
LEMMA InitMaps == Init => TypeOK /\ Stream!Init
<1> SUFFICES ASSUME Init PROVE TypeOK /\ Stream!Init
  OBVIOUS
<1>1. /\ 0 \in Cells /\ 0 \in 0..Drops - 1 /\ 0 \in 0..Tags - 1 /\ 0 \in Byte
      /\ 0 \in Nat /\ 0 \in -Word..Size - 1
  BY AdfRingbufAssumption DEF Cells, Byte
<1>2. << >> \in Seq(Byte)
  OBVIOUS
<1>3. TypeOK
  BY <1>1, <1>2 DEF Init, TypeOK
<1>4. Contents = << >>
  BY <1>1, EmptyContents DEF Init
<1> QED
  BY <1>3, <1>4 DEF Init, Stream!Init

(* Every step of a ring whose pointers are in the buffer, and stay there,  *)
(* is one of the queue that counts all it drops, or a put that fills the   *)
(* ring, or an add to a ring that never drops and has no room, or none.    *)
StepMapped ==
  \/ [Counted!Next]_(Counted!vars)
  \/ FillsUp /\ Overflow
  \/ CutAdd /\ Laid

LEMMA StepCounts ==
  ASSUME Sound, Valid', [~stray /\ Next]_vars
  PROVE  StepMapped
<1>1. ASSUME NEW len \in Lens, Write(len) PROVE StepMapped
  BY <1>1, WriteMaps, Zenon DEF Mapped, FillsUp, StepMapped
<1>2. ASSUME NEW len \in Lens, Add(len) PROVE StepMapped
  <2>1. CASE len < Free \/ dropunit > 0
    BY <1>2, <2>1, AddMaps, Zenon DEF Mapped, FillsUp, StepMapped
  <2>2. CASE ~(len < Free \/ dropunit > 0)
    <3>1. dropunit = 0 /\ len >= Free
      BY <2>2, RingSizes DEF Lens
    <3>2. Laid
      BY <1>2, <3>1, CutMaps
    <3> QED
      BY <1>2, <3>1, <3>2 DEF CutAdd, StepMapped
  <2> QED
    BY <2>1, <2>2
<1>3. ASSUME NEW len \in Lens, Read(len) \/ Flush(len) \/ Reserve(len)
      PROVE  StepMapped
  BY <1>3, ReadMaps, FlushMaps, ReserveMaps, Zenon DEF StepMapped
<1>4. ASSUME NEW ptr \in Cells, Apply(ptr) PROVE StepMapped
  <2>1. RWSize(wp, ptr) \in Lens
    BY <1>4, RingSizes DEF Apply, RWSize, Lens, Cells
  <2>2. Add(RWSize(wp, ptr))
    BY <1>4 DEF Apply
  <2> QED
    BY <1>2, <2>1, <2>2
<1>5. CASE Reset
  BY <1>5, ResetMaps DEF StepMapped
<1>6. CASE UNCHANGED vars
  <2>1. Contents' = Contents
    BY <1>6 DEF Contents, Valid, From, Used, vars
  <2> QED
    BY <1>6, <2>1 DEF vars, Counted!vars, StepMapped
<1> QED
  BY <1>1, <1>2, <1>3, <1>4, <1>5, <1>6 DEF Next

(* A queue that counts all it drops is one that may overrun.               *)
LEMMA CountedStreams ==
  [Counted!Next]_(Counted!vars) => [Stream!Next]_(Stream!vars)
BY Zenon DEF Counted!Next, Counted!Put, Counted!Overrun, Counted!Overlay,
  Counted!Read, Counted!Flush, Counted!Reserve, Counted!Reset,
  Counted!Without, Counted!vars, Stream!Next, Stream!Put, Stream!Read,
  Stream!Flush, Stream!Reserve, Stream!Reset, Stream!Without, Stream!vars

-----------------------------------------------------------------------------
(* Where the pointers can be.                                              *)

(* What the numbers of a ring are, its pointers in the buffer or not.      *)
LEMMA Ranges ==
  ASSUME TypeOK
  PROVE  /\ Size \in Nat \ {0} /\ Word \in 1..Size /\ Tags \in Nat \ {0}
         /\ Drops \in Nat \ {0} /\ dropunit \in Nat /\ rp \in Nat
         /\ wp \in -Word..Size - 1 /\ Used \in Int /\ Free \in Int
         /\ At(wp) \in Cells
<1>1. /\ Size \in Nat \ {0} /\ Word \in 1..Size /\ Tags \in Nat \ {0}
      /\ Drops \in Nat \ {0}
  BY AdfRingbufAssumption
<1>2. dropunit \in Nat /\ rp \in Nat /\ wp \in -Word..Size - 1
  BY AdfRingbufAssumption DEF TypeOK
<1>3. Used \in Int /\ Free \in Int
  BY <1>1, <1>2 DEF Used, Free, RWSize, WRSize
<1>4. At(wp) \in Cells
  BY <1>1, <1>2 DEF At, Cells
<1> QED
  BY <1>1, <1>2, <1>3, <1>4

(* Whole dropunits of what is no less than nothing.                        *)
LEMMA DropLenNat ==
  ASSUME TypeOK, NEW len \in Nat
  PROVE  DropLen(len) \in Nat
<1>1. CASE len >= Free /\ dropunit > 0
  <2>1. len - Free + dropunit - 1 \in Nat /\ dropunit \in Nat \ {0}
    BY <1>1, Ranges
  <2> QED
    BY <1>1, <2>1, WholeUnits DEF DropLen
<1>2. CASE ~(len >= Free /\ dropunit > 0)
  BY <1>2 DEF DropLen
<1> QED
  BY <1>1, <1>2

(* A put from wp on of len bytes, cut short or not, keeps wp in its range. *)
LEMMA PutRange ==
  ASSUME TypeOK, NEW len \in Nat \ {0}, len < Size \/ wp + len < Size
  PROVE  /\ KeptLen(len) \in Int
         /\ MovePtr(wp, KeptLen(len)) \in -Word..Size - 1
BY Ranges DEF KeptLen, Free, WRSize, MovePtr

(* The types after a put.                                                  *)
LEMMA PutTypes ==
  ASSUME TypeOK, NEW k \in Nat, NEW l \in Int, NEW n \in Nat,
         MovePtr(wp, l) \in -Word..Size - 1, Put(Fresh(k), l, n)
  PROVE  TypeOK'
<1>1. /\ Fresh(k) \in Seq(Byte) /\ Len(Fresh(k)) = k
  BY FreshSeq DEF TypeOK
<1> DEFINE s == Fresh(k)
<1>2. s \in Seq(Byte) /\ Len(s) = k
  BY <1>1
<1>3. Put(s, l, n)
  OBVIOUS
<1> HIDE DEF s
<1>4. buffer' \in [Cells -> Byte]
  <2>1. ASSUME NEW c \in Cells, RWSize(At(wp), c) < Len(s)
        PROVE  s[RWSize(At(wp), c) + 1] \in Byte
    <3>1. RWSize(At(wp), c) \in 0..Size - 1
      BY Ranges, Sizes
    <3>2. RWSize(At(wp), c) + 1 \in 1..Len(s)
      BY <1>2, <2>1, <3>1, Ranges
    <3> QED
      BY <1>2, <3>2, LenProperties
  <2> QED
    BY <1>3, <2>1 DEF TypeOK, Put
<1>5. rp' \in Nat /\ wp' \in -Word..Size - 1
  <2>1. rp' = MovePtr(rp, n) /\ wp' = MovePtr(wp, l)
    BY <1>3 DEF Put
  <2>2. MovePtr(rp, n) \in Nat
    BY Ranges DEF MovePtr
  <2> QED
    BY <2>1, <2>2
<1>6. drop' \in 0..Drops - 1 /\ next' \in 0..Tags - 1
  <2>1. drop' = (drop + n) % Drops /\ next' = (next + k) % Tags
    BY <1>2, <1>3 DEF Put
  <2>2. drop + n \in Int /\ next + k \in Int
    BY Ranges DEF TypeOK
  <2> QED
    BY <2>1, <2>2, Ranges
<1>7. io' = s /\ UNCHANGED << dropunit, stray >>
  BY <1>3 DEF Put
<1> QED
  BY <1>2, <1>4, <1>5, <1>6, <1>7 DEF TypeOK

(* A stray copy changes no type.                                           *)
LEMMA StrayTypes == TypeOK /\ Stray => TypeOK'
BY DEF Stray, TypeOK

(* The types after an add, of any length that ends in the buffer.          *)
LEMMA AddTypes ==
  ASSUME TypeOK, NEW len \in Nat \ {0}, len < Size \/ wp + len < Size,
         Add(len)
  PROVE  TypeOK'
BY PutRange, DropLenNat, PutTypes DEF Add

(* Each step keeps the types.                                              *)
LEMMA StepTypes ==
  ASSUME TypeOK, [~stray /\ Next]_vars
  PROVE  TypeOK'
<1>1. ASSUME NEW len \in Lens PROVE len \in Nat \ {0} /\ len < Size
  BY Ranges DEF Lens
<1>2. ASSUME NEW len \in Lens, Write(len) PROVE TypeOK'
  <2>1. CASE Inside(wp, KeptLen(len))
    <3>1. Put(Fresh(KeptLen(len)), KeptLen(len), DropLen(len))
      BY <1>2, <2>1 DEF Write
    <3>2. KeptLen(len) \in Int /\ MovePtr(wp, KeptLen(len)) \in -Word..Size - 1
      BY <1>1, PutRange
    <3>3. KeptLen(len) \in Nat
      BY <2>1, <3>2 DEF Inside
    <3>4. DropLen(len) \in Nat
      BY <1>1, DropLenNat
    <3> QED
      BY <3>1, <3>2, <3>3, <3>4, PutTypes
  <2>2. CASE ~Inside(wp, KeptLen(len))
    BY <1>2, <2>2, StrayTypes, Zenon DEF Write
  <2> QED
    BY <2>1, <2>2
<1>3. ASSUME NEW len \in Lens, Add(len) PROVE TypeOK'
  BY <1>1, <1>3, AddTypes
<1>4. ASSUME NEW ptr \in Cells, Apply(ptr) PROVE TypeOK'
  <2>1. Add(RWSize(wp, ptr)) /\ ptr # wp
    BY <1>4 DEF Apply
  <2>2. /\ RWSize(wp, ptr) \in Nat \ {0}
        /\ RWSize(wp, ptr) < Size \/ wp + RWSize(wp, ptr) < Size
    BY <2>1, Ranges DEF RWSize, Cells
  <2> QED
    BY <2>1, <2>2, AddTypes
<1>5. ASSUME NEW len \in Lens, Read(len) PROVE TypeOK'
  <2>1. CASE Inside(rp, Least(len, Used))
    <3> DEFINE n == Least(len, Used)
    <3>1. /\ n \in Nat /\ n < Size /\ (n > 0 => rp \in 0..Size)
          /\ rp \in Nat /\ Size \in Nat \ {0}
      BY <1>1, <2>1, Ranges DEF Least, Inside
    <3>2. /\ io' = From(rp, n)
          /\ UNCHANGED << buffer, rp, wp, drop, dropunit, stray, next >>
      BY <1>5, <2>1 DEF Read
    <3> HIDE DEF n
    <3>3. \A i \in 1..n : MovePtr(rp, i - 1) \in Cells
      BY <3>1 DEF MovePtr, Cells
    <3>4. From(rp, n) \in [1..n -> Byte]
      BY <3>3 DEF From, TypeOK
    <3>5. io' \in Seq(Byte)
      BY <3>1, <3>2, <3>4, SeqDef
    <3> QED
      BY <3>2, <3>5 DEF TypeOK
  <2>2. CASE ~Inside(rp, Least(len, Used))
    BY <1>5, <2>2, StrayTypes, Zenon DEF Read
  <2> QED
    BY <2>1, <2>2
<1>6. ASSUME NEW len \in Lens, Flush(len) PROVE TypeOK'
  <2>1. MovePtr(rp, Least(len, Used)) \in Nat
    BY <1>1, Ranges DEF Least, Used, RWSize, MovePtr
  <2> QED
    BY <1>6, <2>1 DEF Flush, TypeOK
<1>7. ASSUME NEW len \in Lens, Reserve(len) PROVE TypeOK'
  <2>1. CASE len >= Free /\ dropunit = 0
    BY <1>7, <2>1, StrayTypes DEF Reserve
  <2>2. CASE ~(len >= Free /\ dropunit = 0)
    <3> DEFINE n == IF len >= Free THEN Whole(Free) ELSE len
    <3>1. /\ rp' = MovePtr(rp, Size - n)
          /\ UNCHANGED << buffer, wp, drop, dropunit, stray, next, io >>
      BY <1>7, <2>2 DEF Reserve
    <3>2. n \in Nat /\ n <= Free
      <4>1. CASE len >= Free
        <5>1. dropunit \in Nat \ {0} /\ Free \in Nat
          BY <2>2, <4>1, Ranges DEF Free, WRSize
        <5> QED
          BY <4>1, <5>1, WholeUnits
      <4>2. CASE ~(len >= Free)
        BY <1>1, <4>2, Ranges
      <4> QED
        BY <4>1, <4>2
    <3> HIDE DEF n
    <3>3. rp' \in Nat
      BY <3>1, <3>2, Ranges DEF Free, WRSize, MovePtr
    <3> QED
      BY <3>1, <3>3 DEF TypeOK
  <2> QED
    BY <2>1, <2>2
<1>8. CASE Reset
  <2>1. 0 \in Nat /\ 0 \in -Word..Size - 1 /\ 0 \in 0..Drops - 1
    BY Ranges
  <2> QED
    BY <1>8, <2>1 DEF Reset, TypeOK
<1>9. CASE UNCHANGED vars
  BY <1>9 DEF vars, TypeOK
<1> QED
  BY <1>2, <1>3, <1>4, <1>5, <1>6, <1>7, <1>8, <1>9 DEF Next

-----------------------------------------------------------------------------
(* The numbers of adf_ringbuf.c stay what they are, and rp never comes     *)
(* before the base nor wp past the limit or more than a word before the    *)
(* base, whatever the sizes of ring and drop unit.                         *)
THEOREM AdfTypeCorrect == Spec => []TypeOK
<1>1. Init => TypeOK
  BY InitMaps
<1>2. TypeOK /\ [~stray /\ Next]_vars => TypeOK'
  BY StepTypes
<1> QED
  BY <1>1, <1>2, PTL DEF Spec

(* While its pointers are in the buffer and a drop unit fits into it, the  *)
(* ring of adf_ringbuf.c is the queue of bytes of AdfStream: over every    *)
(* wrap of its pointers what it keeps is in the order it was put and only  *)
(* the oldest is dropped, by no more than one dropunit beyond the room     *)
(* needed, unless it overruns or the hardware puts bytes over bytes.       *)
THEOREM AdfImplementsStream == Spec => StreamSpec
<1>1. Init => TypeOK /\ Stream!Init
  BY InitMaps
<1>2. TypeOK /\ [~stray /\ Next]_vars
        => TypeOK' /\ [Sane => Stream!Next]_(Stream!vars)
  <2> SUFFICES ASSUME TypeOK, [~stray /\ Next]_vars
               PROVE  TypeOK' /\ [Sane => Stream!Next]_(Stream!vars)
    OBVIOUS
  <2>1. ASSUME Sane PROVE [Stream!Next]_(Stream!vars)
    <3>1. StepMapped
      BY <2>1, StepCounts DEF Sane, Sound
    <3> QED
      BY <3>1, CountedStreams, Zenon DEF StepMapped, Overflow, Laid
  <2> QED
    BY <2>1, StepTypes, Zenon
<1> QED
  BY <1>1, <1>2, PTL DEF Spec, StreamSpec

(* Whatever the size of the ring, its word, its dropunit and the bytes     *)
(* put, the steps that lose bytes without counting them are two: the put   *)
(* by which what is too much comes to whole dropunits (adf_ringbuf.c:41),  *)
(* which leaves the ring full to the last byte, rp and wp the same, and    *)
(* all in it lost; and the add to a ring that never drops and has no room  *)
(* (49), which leaves wp a word before rp.                                 *)
THEOREM AdfLossesCounted == Spec => LossesCounted
<1>1. Init => TypeOK
  BY InitMaps
<1>2. TypeOK /\ [~stray /\ Next]_vars
        => /\ TypeOK'
           /\ [Sane => \/ Counted!Next
                       \/ FillsUp /\ Contents' = << >>
                       \/ CutAdd /\ Len(Contents') = Size - Word]_(Counted!vars)
  <2> SUFFICES ASSUME TypeOK, [~stray /\ Next]_vars
               PROVE  /\ TypeOK'
                      /\ [Sane => \/ Counted!Next
                                  \/ FillsUp /\ Contents' = << >>
                                  \/ CutAdd /\ Len(Contents') = Size - Word
                         ]_(Counted!vars)
    OBVIOUS
  <2>1. Sane => StepMapped
    BY StepCounts DEF Sane, Sound
  <2> QED
    BY <2>1, StepTypes, Zenon DEF StepMapped, Overflow, Laid
<1> QED
  BY <1>1, <1>2, PTL DEF Spec, LossesCounted

-----------------------------------------------------------------------------
(* Staying in the buffer.                                                  *)

(* A put that drops no more than the buffer has, and takes wp not before   *)
(* the base, leaves both pointers in the buffer.                           *)
LEMMA PutStays ==
  ASSUME TypeOK, Valid, NEW s, NEW l \in Int, NEW n \in 0..Size,
         l < Size, wp + l >= 0, Put(s, l, n)
  PROVE  Valid'
<1>1. wp' = MovePtr(wp, l) /\ rp' = MovePtr(rp, n)
  BY DEF Put
<1>2. MovePtr(wp, l) \in Cells /\ MovePtr(rp, n) \in Cells
  BY AdfRingbufAssumption DEF MovePtr, Valid, Cells
<1> QED
  BY <1>1, <1>2 DEF Valid

(* So the pointers leave the buffer by two kinds of put only.              *)
Leaves(len) ==
  \/ (Write(len) \/ Add(len)) /\ DropLen(len) > Size
  \/ Add(len) /\ KeptLen(len) < 0 /\ wp + KeptLen(len) < 0

(* An add leaves them there, or is of one of these kinds.                  *)
LEMMA AddStays ==
  ASSUME TypeOK, Valid, NEW len \in Lens, Add(len)
  PROVE  Valid' \/ Leaves(len)
<1>0. /\ len \in 1..Size - 1 /\ Size \in Nat /\ Word \in 1..Size
      /\ wp \in 0..Size - 1 /\ rp \in 0..Size - 1
  BY Ranges DEF Lens, Valid, Cells
<1>1. Free \in 1..Size
  BY <1>0 DEF Free, WRSize
<1>2. KeptLen(len) \in Int /\ KeptLen(len) < Size
  BY <1>0, <1>1 DEF KeptLen
<1>3. DropLen(len) \in Nat
  BY <1>0, DropLenNat
<1>4. CASE DropLen(len) > Size
  BY <1>4 DEF Leaves
<1>5. CASE wp + KeptLen(len) < 0
  <2>1. KeptLen(len) < 0
    BY <1>0, <1>2, <1>5
  <2> QED
    BY <1>5, <2>1 DEF Leaves
<1>6. CASE DropLen(len) <= Size /\ wp + KeptLen(len) >= 0
  <2>1. DropLen(len) \in 0..Size
    BY <1>0, <1>3, <1>6
  <2>2. Put(Fresh(len), KeptLen(len), DropLen(len))
    BY DEF Add
  <2> QED
    BY <1>2, <1>6, <2>1, <2>2, PutStays
<1> QED
  BY <1>0, <1>2, <1>3, <1>4, <1>5, <1>6

(* And a write.                                                            *)
LEMMA WriteStays ==
  ASSUME TypeOK, Valid, NEW len \in Lens, Write(len)
  PROVE  Valid' \/ Leaves(len)
<1>0. /\ len \in 1..Size - 1 /\ Size \in Nat /\ Word \in 1..Size
      /\ wp \in 0..Size - 1 /\ rp \in 0..Size - 1
  BY Ranges DEF Lens, Valid, Cells
<1>1. Free \in 1..Size
  BY <1>0 DEF Free, WRSize
<1>2. KeptLen(len) \in Int /\ KeptLen(len) < Size
  BY <1>0, <1>1 DEF KeptLen
<1>3. DropLen(len) \in Nat
  BY <1>0, DropLenNat
<1>4. CASE ~Inside(wp, KeptLen(len))
  <2>1. Stray
    BY <1>4, Zenon DEF Write
  <2> QED
    BY <2>1 DEF Stray, Valid
<1>5. CASE DropLen(len) > Size
  BY <1>5 DEF Leaves
<1>6. CASE Inside(wp, KeptLen(len)) /\ DropLen(len) <= Size
  <2>1. Put(Fresh(KeptLen(len)), KeptLen(len), DropLen(len))
    BY <1>6 DEF Write
  <2>2. DropLen(len) \in 0..Size /\ wp + KeptLen(len) >= 0
    BY <1>0, <1>2, <1>3, <1>6 DEF Inside
  <2> QED
    BY <1>2, <2>1, <2>2, PutStays
<1> QED
  BY <1>0, <1>3, <1>4, <1>5, <1>6

(* Every step that takes a pointer out of the buffer is such a put.        *)
LEMMA StepStays ==
  ASSUME TypeOK, Valid, [~stray /\ Next]_vars
  PROVE  Valid' \/ \E len \in Lens : Leaves(len)
<1>0. /\ Size \in Nat \ {0} /\ wp \in 0..Size - 1 /\ rp \in 0..Size - 1
      /\ Used \in 0..Size - 1 /\ Free \in 1..Size
  BY Ranges, Sizes DEF Valid, Cells, Used, Free
<1>1. ASSUME NEW len \in Lens, Write(len)
      PROVE  Valid' \/ \E k \in Lens : Leaves(k)
  BY <1>1, WriteStays
<1>2. ASSUME NEW len \in Lens, Add(len)
      PROVE  Valid' \/ \E k \in Lens : Leaves(k)
  BY <1>2, AddStays
<1>3. ASSUME NEW ptr \in Cells, Apply(ptr)
      PROVE  Valid' \/ \E k \in Lens : Leaves(k)
  <2>1. RWSize(wp, ptr) \in Lens
    BY <1>0, <1>3 DEF Apply, RWSize, Lens, Cells
  <2>2. Add(RWSize(wp, ptr))
    BY <1>3 DEF Apply
  <2> QED
    BY <1>2, <2>1, <2>2
<1>4. ASSUME NEW len \in Lens, Read(len) PROVE Valid'
  BY <1>4 DEF Read, Stray, Valid
<1>5. ASSUME NEW len \in Lens, Flush(len) PROVE Valid'
  <2>1. Least(len, Used) \in 0..Size
    BY <1>0 DEF Least, Lens
  <2> QED
    BY <1>5, <2>1, Moves DEF Flush, Valid
<1>6. ASSUME NEW len \in Lens, Reserve(len) PROVE Valid'
  <2>1. CASE len >= Free /\ dropunit = 0
    BY <1>6, <2>1 DEF Reserve, Stray, Valid
  <2>2. CASE ~(len >= Free /\ dropunit = 0)
    <3> DEFINE n == IF len >= Free THEN Whole(Free) ELSE len
    <3>1. rp' = MovePtr(rp, Size - n) /\ wp' = wp
      BY <1>6, <2>2 DEF Reserve
    <3>2. n \in 0..Size
      <4>1. CASE len >= Free
        <5>1. dropunit \in Nat \ {0} /\ Free \in Nat
          BY <1>0, <2>2, <4>1, Ranges
        <5>2. Whole(Free) \in Nat /\ Whole(Free) <= Free
          BY <5>1, WholeUnits
        <5> QED
          BY <1>0, <4>1, <5>2
      <4>2. CASE ~(len >= Free)
        BY <1>0, <4>2 DEF Lens
      <4> QED
        BY <4>1, <4>2
    <3> HIDE DEF n
    <3>3. Size - n \in 0..Size
      BY <1>0, <3>2
    <3> QED
      BY <3>1, <3>3, Moves DEF Valid
  <2> QED
    BY <2>1, <2>2
<1>7. CASE Reset
  BY <1>0, <1>7 DEF Reset, Valid, Cells
<1>8. CASE UNCHANGED vars
  BY <1>8 DEF vars, Valid
<1> QED
  BY <1>1, <1>2, <1>3, <1>4, <1>5, <1>6, <1>7, <1>8 DEF Next

(* The pointers of a ring leave its buffer only by a put that drops more   *)
(* than there are bytes in it or an add that takes wp before the base,     *)
(* whatever the sizes.                                                     *)
THEOREM AdfPointersStay == Spec => PointersStay
<1>1. Init => TypeOK
  BY InitMaps
<1>2. TypeOK /\ [~stray /\ Next]_vars
        => /\ TypeOK'
           /\ [Valid /\ ~Valid' => \E len \in Lens : Leaves(len)]_vars
  BY StepTypes, StepStays
<1>3. TypeOK /\ [~stray /\ Next]_vars
        => /\ TypeOK'
           /\ [Valid /\ ~Valid' => \E len \in Lens :
                 \/ (Write(len) \/ Add(len)) /\ DropLen(len) > Size
                 \/ Add(len) /\ KeptLen(len) < 0 /\ wp + KeptLen(len) < 0]_vars
  BY <1>2, Zenon DEF Leaves
<1> QED
  BY <1>1, <1>3, PTL DEF Spec, PointersStay

(* Of two multiples of d, the less is less by d or more.                   *)
LEMMA NextMultiple ==
  ASSUME NEW d \in Nat \ {0}, NEW x \in Nat, NEW y \in Nat,
         x % d = 0, y % d = 0, x < y + d
  PROVE  x <= y
<1> DEFINE p == x \div d
           q == y \div d
<1>1. p \in Int /\ q \in Int
  OBVIOUS
<1>2. x = d * p
  <2>1. x = d * p + (x % d)
    OBVIOUS
  <2> QED
    BY <2>1
<1>3. y = d * q
  <2>1. y = d * q + (y % d)
    OBVIOUS
  <2> QED
    BY <2>1
<1> HIDE DEF p, q
<1>4. d * (p - q) < d
  BY <1>1, <1>2, <1>3
<1>5. p - q <= 0
  BY <1>1, <1>4
<1>6. d * (p - q) <= 0
  BY <1>1, <1>5
<1> QED
  BY <1>1, <1>2, <1>3, <1>6

(* What is in whole d's has nothing left over.                             *)
LEMMA WholeMultiple ==
  ASSUME NEW d \in Nat \ {0}, NEW x \in Nat
  PROVE  (x - (x % d)) % d = 0
<1> DEFINE q == x \div d
           y == x - (x % d)
           p == y \div d
           r == y % d
<1>1. q \in Int /\ p \in Int /\ r \in 0..d - 1 /\ y \in Int
  OBVIOUS
<1>2. y = d * q
  OBVIOUS
<1>3. y = d * p + r
  BY <1>1
<1> HIDE DEF q, p, y, r
<1>4. d * (q - p) = r
  BY <1>1, <1>2, <1>3
<1>5. ~(q - p >= 1) /\ ~(q - p <= -1)
  BY <1>1, <1>4
<1>6. r = 0
  BY <1>1, <1>4, <1>5
<1> QED
  BY <1>6 DEF r, y

(* A ring whose drop unit divides it keeps its pointers in its buffer for  *)
(* good.                                                                   *)
THEOREM AdfStaysValid ==
  ASSUME \A u \in DropUnits : u > 0 /\ Size % u = 0
  PROVE  Spec => []Valid
<1>1. Init => TypeOK /\ Valid
  BY InitMaps, AdfRingbufAssumption DEF Init, Valid, Cells
<1>2. ASSUME TypeOK, Valid, NEW len \in Lens PROVE ~Leaves(len)
  <2>1. /\ len \in 1..Size - 1 /\ Size \in Nat \ {0}
        /\ dropunit \in Nat \ {0} /\ Size % dropunit = 0
    BY <1>2, Ranges DEF Lens, TypeOK
  <2>2. Free \in 1..Size
    BY <1>2, Sizes DEF Valid, Free
  <2>3. ~(KeptLen(len) < 0)
    BY <2>1 DEF KeptLen
  <2>4. CASE len >= Free
    <3> DEFINE x == len - Free + dropunit - 1
    <3>1. x \in Nat /\ x < Size + dropunit
      BY <2>1, <2>2, <2>4
    <3>2. DropLen(len) = x - (x % dropunit)
      BY <2>1, <2>4 DEF DropLen, Whole
    <3> HIDE DEF x
    <3>3. x - (x % dropunit) \in Nat /\ x - (x % dropunit) <= x
      BY <2>1, <3>1, WholeUnits DEF Whole
    <3>4. (x - (x % dropunit)) % dropunit = 0
      BY <2>1, <3>1, WholeMultiple
    <3> DEFINE y == x - (x % dropunit)
    <3>5. y \in Nat /\ y % dropunit = 0 /\ y < Size + dropunit
      BY <2>1, <3>1, <3>3, <3>4
    <3> HIDE DEF y
    <3>6. y <= Size
      BY <2>1, <3>5, NextMultiple
    <3>7. DropLen(len) = y
      BY <3>2 DEF y
    <3>8. ~(DropLen(len) > Size)
      BY <2>1, <3>5, <3>6, <3>7
    <3> QED
      BY <2>3, <3>8, Zenon DEF Leaves
  <2>5. CASE ~(len >= Free)
    <3>1. ~(DropLen(len) > Size)
      BY <2>1, <2>5 DEF DropLen
    <3> QED
      BY <2>3, <3>1, Zenon DEF Leaves
  <2> QED
    BY <2>4, <2>5
<1>3. TypeOK /\ Valid /\ [~stray /\ Next]_vars => TypeOK' /\ Valid'
  BY <1>2, StepTypes, StepStays, Zenon
<1> QED
  BY <1>1, <1>3, PTL DEF Spec

=============================================================================
