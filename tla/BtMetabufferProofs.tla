------------------------- MODULE BtMetabufferProofs -------------------------
(***************************************************************************)
(* The receive ring for rings, packets and reads of every size: it is the  *)
(* queue of bytes of BtStream as long as the reader keeps up, and whatever *)
(* the reader does but for bulk packets that find the ring full; copies    *)
(* stay inside the ring as long as no packet is too large.                 *)
(***************************************************************************)
EXTENDS BtMetabuffer, SequenceTheorems, TLAPS

-----------------------------------------------------------------------------
(* The bytes that arrive and the contents of the ring are sequences of     *)
(* bytes of the length one expects.                                        *)

(* A function on 1..n is a sequence of length n. *)
LEMMA SeqOfLength ==
  ASSUME NEW S, NEW n \in Nat, NEW s \in [1..n -> S]
  PROVE  s \in Seq(S) /\ Len(s) = n
<1>1. s \in Seq(S)
  BY SeqDef
<1>2. DOMAIN s = 1..n /\ DOMAIN s = 1..Len(s) /\ Len(s) \in Nat
  BY <1>1, LenProperties
<1> QED
  BY <1>1, <1>2

(* The next n bytes are n bytes. *)
LEMMA FreshBytes ==
  ASSUME NEW n \in Nat, next \in Byte
  PROVE  Fresh(n) \in Seq(Byte) /\ Len(Fresh(n)) = n
<1>1. ASSUME NEW i \in 1..n PROVE (next + i - 1) % Tags \in Byte
  <2>1. next + i - 1 \in Int /\ Tags \in Nat \ {0}
    BY MetabufferAssumption DEF Byte
  <2> QED
    BY <2>1 DEF Byte
<1>2. Fresh(n) \in [1..n -> Byte]
  BY <1>1 DEF Fresh
<1> QED
  BY <1>2, SeqOfLength

(* Used counts the bytes in the ring; one cell always stays free. *)
LEMMA ContentsBytes ==
  ASSUME TypeOK
  PROVE  /\ Used \in 0..Size - 1 /\ RoomLeft = Size - 1 - Used
         /\ \A i \in 1..Used : Cell(i) \in Cells
         /\ Contents \in Seq(Byte) /\ Len(Contents) = Used
<1>1. Used \in 0..Size - 1 /\ RoomLeft = Size - 1 - Used
  BY MetabufferAssumption DEF TypeOK, Used, RoomLeft, Cells
<1>2. \A i \in 1..Used : Cell(i) \in Cells
  BY <1>1, MetabufferAssumption DEF TypeOK, Cell, Cells
<1>3. Contents \in [1..Used -> Byte]
  BY <1>2 DEF TypeOK, Contents
<1>4. Used \in Nat
  BY <1>1, MetabufferAssumption
<1> QED
  BY <1>1, <1>2, <1>3, <1>4, SeqOfLength

-----------------------------------------------------------------------------
(* Storing a packet there is room for. *)

(* How far cell c is behind write_p. *)
Behind(c) == IF write_p <= c THEN c - write_p ELSE c - write_p + Size

(* The packet lies in the cells from write_p on, over the end of the ring  *)
(* or not; the other cells keep their bytes.                               *)
LEMMA StoreCells ==
  ASSUME TypeOK, NEW pkt \in Seq(Byte), NEW fits \in BOOLEAN,
         Len(pkt) < Size, Store(pkt, fits),
         IF fits THEN write_p + Len(pkt) <= Size
                 ELSE Size - write_p <= Len(pkt)
  PROVE  /\ read_p' = read_p /\ UNCHANGED stray
         /\ write_p' = IF write_p + Len(pkt) < Size
                         THEN write_p + Len(pkt)
                         ELSE write_p + Len(pkt) - Size
         /\ buffer' \in [Cells -> Byte]
         /\ \A c \in Cells : buffer'[c] = IF Behind(c) < Len(pkt)
                                            THEN pkt[Behind(c) + 1]
                                            ELSE buffer[c]
<1> DEFINE last == Size - write_p
<1>0. /\ Len(pkt) \in Nat /\ pkt \in [1..Len(pkt) -> Byte]
      /\ Size \in Nat /\ write_p \in 0..Size - 1 /\ read_p \in 0..Size - 1
  BY LenProperties, MetabufferAssumption DEF TypeOK, Cells
<1>1. CASE fits
  <2>1. /\ buffer' = Copy(buffer, write_p, pkt)
        /\ write_p' = Wrap(write_p + Len(pkt))
        /\ read_p' = read_p /\ UNCHANGED stray
    BY <1>1 DEF Store
  <2>2. write_p' = IF write_p + Len(pkt) < Size
                     THEN write_p + Len(pkt) ELSE write_p + Len(pkt) - Size
    BY <1>0, <1>1, <2>1 DEF Wrap
  <2>3. \A c \in Cells : buffer'[c] = IF Behind(c) < Len(pkt)
                                        THEN pkt[Behind(c) + 1]
                                        ELSE buffer[c]
    BY <1>0, <1>1, <2>1 DEF Copy, Cells, Behind
  <2>4. buffer' \in [Cells -> Byte]
    BY <1>0, <1>1, <2>1 DEF Copy, Cells, TypeOK
  <2> QED
    BY <2>1, <2>2, <2>3, <2>4
<1>2. CASE ~fits
  <2> DEFINE one == SubSeq(pkt, 1, last)
             two == SubSeq(pkt, last + 1, Len(pkt))
  <2>1. /\ buffer' = Copy(Copy(buffer, write_p, one), 0, two)
        /\ write_p' = Len(pkt) - last
        /\ read_p' = read_p /\ UNCHANGED stray
    BY <1>2 DEF Store
  <2>2. write_p' = IF write_p + Len(pkt) < Size
                     THEN write_p + Len(pkt) ELSE write_p + Len(pkt) - Size
    BY <1>0, <1>2, <2>1
  <2>3. /\ one \in Seq(Byte) /\ Len(one) = last
        /\ \A i \in 1..last : one[i] = pkt[i]
    <3>1. \A i \in 1..last : pkt[i] \in Byte
      BY <1>0, <1>2
    <3>2. last \in Int /\ 1 <= last
      BY <1>0
    <3> HIDE DEF last
    <3>3. /\ SubSeq(pkt, 1, last) \in Seq(Byte)
          /\ Len(SubSeq(pkt, 1, last)) = IF 1 <= last THEN last - 1 + 1 ELSE 0
          /\ \A i \in 1..last - 1 + 1 : SubSeq(pkt, 1, last)[i] = pkt[1 + i - 1]
      BY <3>1, <3>2, SubSeqProperties
    <3> QED
      BY <3>2, <3>3
  <2>4. /\ two \in Seq(Byte) /\ Len(two) = Len(pkt) - last
        /\ \A i \in 1..Len(pkt) - last : two[i] = pkt[last + i]
    <3>1. \A i \in last + 1..Len(pkt) : pkt[i] \in Byte
      BY <1>0, <1>2
    <3>2. last + 1 \in Int /\ Len(pkt) \in Int /\ last \in Int
          /\ last <= Len(pkt)
      BY <1>0, <1>2
    <3> HIDE DEF last
    <3>3. /\ SubSeq(pkt, last + 1, Len(pkt)) \in Seq(Byte)
          /\ Len(SubSeq(pkt, last + 1, Len(pkt))) =
               IF last + 1 <= Len(pkt) THEN Len(pkt) - (last + 1) + 1 ELSE 0
          /\ \A i \in 1..Len(pkt) - (last + 1) + 1 :
               SubSeq(pkt, last + 1, Len(pkt))[i] = pkt[(last + 1) + i - 1]
      BY <3>1, <3>2, SubSeqProperties
    <3> QED
      BY <3>2, <3>3
  <2>5. ASSUME NEW c \in Cells
        PROVE  buffer'[c] = IF Behind(c) < Len(pkt)
                              THEN pkt[Behind(c) + 1] ELSE buffer[c]
    <3>1. buffer'[c] = IF c \in 0..0 + Len(two) - 1 THEN two[c - 0 + 1]
                       ELSE IF c \in write_p..write_p + Len(one) - 1
                              THEN one[c - write_p + 1] ELSE buffer[c]
      BY <2>1 DEF Copy
    <3>2. c \in Nat /\ c < Size
      BY <1>0 DEF Cells
    <3>3. CASE c < Len(pkt) - last
      <4>1. buffer'[c] = two[c + 1] /\ two[c + 1] = pkt[last + (c + 1)]
        BY <1>0, <1>2, <2>4, <3>1, <3>2, <3>3
      <4>2. Behind(c) = c + last /\ Behind(c) < Len(pkt)
        BY <1>0, <1>2, <3>2, <3>3 DEF Behind
      <4> QED
        BY <1>0, <3>2, <4>1, <4>2
    <3>4. CASE ~(c < Len(pkt) - last)
      <4>1. buffer'[c] = IF c \in write_p..write_p + Len(one) - 1
                           THEN one[c - write_p + 1] ELSE buffer[c]
        BY <1>0, <1>2, <2>4, <3>1, <3>2, <3>4
      <4>2. CASE write_p <= c
        <5>1. Behind(c) = c - write_p /\ c - write_p + 1 \in 1..last
          BY <1>0, <3>2, <4>2 DEF Behind
        <5> QED
          BY <1>0, <1>2, <2>3, <3>2, <4>1, <4>2, <5>1
      <4>3. CASE c < write_p
        <5>1. Behind(c) = c - write_p + Size
          BY <1>0, <3>2, <4>3 DEF Behind
        <5> QED
          BY <1>0, <1>2, <2>3, <3>2, <3>4, <4>1, <4>3, <5>1
      <4> QED
        BY <1>0, <3>2, <4>2, <4>3
    <3> QED
      BY <3>3, <3>4
  <2>6. buffer' \in [Cells -> Byte]
    <3>1. buffer' = [ c \in Cells |-> buffer'[c] ]
      BY <2>1 DEF Copy
    <3>2. ASSUME NEW c \in Cells PROVE buffer'[c] \in Byte
      <4>1. Behind(c) \in Nat
        BY <1>0 DEF Behind, Cells
      <4>2. Behind(c) < Len(pkt) => pkt[Behind(c) + 1] \in Byte
        BY <1>0, <4>1
      <4>3. buffer[c] \in Byte
        BY DEF TypeOK
      <4> QED
        BY <2>5, <4>2, <4>3
    <3> QED
      BY <3>1, <3>2
  <2> QED
    BY <2>1, <2>2, <2>5, <2>6
<1> QED
  BY <1>1, <1>2

(* Where the bytes of the ring are: the first Used cells from read_p keep  *)
(* theirs, the packet follows, and a cell stays free.                      *)
LEMMA StoreAppends ==
  ASSUME TypeOK, NEW pkt \in Seq(Byte), NEW fits \in BOOLEAN,
         Len(pkt) <= RoomLeft, Store(pkt, fits),
         IF fits THEN write_p + Len(pkt) <= Size
                 ELSE Size - write_p <= Len(pkt)
  PROVE  /\ UNCHANGED << read_p, stray >> /\ write_p' \in Cells
         /\ buffer' \in [Cells -> Byte]
         /\ Contents' = Contents \o pkt
<1>0. /\ Len(pkt) \in Nat /\ Size \in Nat
      /\ write_p \in 0..Size - 1 /\ read_p \in 0..Size - 1
      /\ Used \in 0..Size - 1 /\ Used + Len(pkt) <= Size - 1
  BY LenProperties, ContentsBytes, MetabufferAssumption DEF TypeOK, Cells
<1>1. /\ read_p' = read_p /\ UNCHANGED stray
      /\ write_p' = IF write_p + Len(pkt) < Size
                      THEN write_p + Len(pkt)
                      ELSE write_p + Len(pkt) - Size
      /\ buffer' \in [Cells -> Byte]
      /\ \A c \in Cells : buffer'[c] = IF Behind(c) < Len(pkt)
                                         THEN pkt[Behind(c) + 1]
                                         ELSE buffer[c]
  BY <1>0, StoreCells
<1>2. write_p' \in Cells
  BY <1>0, <1>1 DEF Cells
<1>3. Used' = Used + Len(pkt)
  BY <1>0, <1>1 DEF Used
<1>4. Contents' = [ i \in 1..Used + Len(pkt) |-> buffer'[Cell(i)] ]
  BY <1>1, <1>3 DEF Contents, Cell
<1>5. ASSUME NEW i \in 1..Used + Len(pkt)
      PROVE  /\ Cell(i) \in Cells
             /\ i <= Used => ~ Behind(Cell(i)) < Len(pkt)
             /\ i > Used => Behind(Cell(i)) = i - Used - 1
  BY <1>0 DEF Cell, Cells, Behind, Used
<1>6. ASSUME NEW i \in 1..Used + Len(pkt)
      PROVE  buffer'[Cell(i)] = IF i <= Used THEN buffer[Cell(i)]
                                              ELSE pkt[i - Used]
  <2>1. CASE i <= Used
    BY <1>1, <1>5, <2>1
  <2>2. CASE i > Used
    <3>1. Behind(Cell(i)) < Len(pkt) /\ Behind(Cell(i)) + 1 = i - Used
      BY <1>0, <1>5, <2>2
    <3> QED
      BY <1>0, <1>1, <1>5, <2>2, <3>1
  <2> QED
    BY <1>0, <2>1, <2>2
<1>7. Contents \in Seq(Byte) /\ Len(Contents) = Used
  BY ContentsBytes
<1>8. /\ Contents \o pkt \in Seq(Byte)
      /\ Len(Contents \o pkt) = Used + Len(pkt)
      /\ \A i \in 1..Used + Len(pkt) :
           (Contents \o pkt)[i] = IF i <= Used THEN Contents[i]
                                              ELSE pkt[i - Used]
  BY <1>7, ConcatProperties
<1>9. Contents' \in Seq(Byte) /\ Len(Contents') = Used + Len(pkt)
  <2>1. \A i \in 1..Used + Len(pkt) : buffer'[Cell(i)] \in Byte
    BY <1>1, <1>5
  <2>2. Contents' \in [1..Used + Len(pkt) -> Byte]
    BY <1>4, <2>1
  <2>3. Used + Len(pkt) \in Nat
    BY <1>0
  <2> QED
    BY <2>2, <2>3, SeqOfLength
<1>10. \A i \in 1..Used + Len(pkt) : Contents'[i] = (Contents \o pkt)[i]
  <2>1. ASSUME NEW i \in 1..Used + Len(pkt)
        PROVE  Contents'[i] = (Contents \o pkt)[i]
    <3>1. Contents'[i] = buffer'[Cell(i)]
      BY <1>4
    <3>2. i <= Used => Contents[i] = buffer[Cell(i)]
      BY <1>0 DEF Contents
    <3> QED
      BY <1>6, <1>8, <3>1, <3>2
  <2> QED
    BY <2>1
<1> QED
  BY <1>1, <1>2, <1>8, <1>9, <1>10, SeqEqual

-----------------------------------------------------------------------------
(* Reading. *)

(* A read of n bytes from s leaves the rest of it. *)
LEMMA SplitSeq ==
  ASSUME NEW s \in Seq(Byte), NEW t \in Seq(Byte), NEW u \in Seq(Byte),
         Len(s) = Len(t) + Len(u),
         \A i \in 1..Len(t) : t[i] = s[i],
         \A i \in 1..Len(u) : u[i] = s[Len(t) + i]
  PROVE  s = t \o u
<1>1. Len(s) \in Nat /\ Len(t) \in Nat /\ Len(u) \in Nat
  BY LenProperties
<1>2. /\ t \o u \in Seq(Byte) /\ Len(t \o u) = Len(s)
      /\ \A i \in 1..Len(s) : (t \o u)[i] = IF i <= Len(t) THEN t[i]
                                              ELSE u[i - Len(t)]
  BY ConcatProperties
<1>3. ASSUME NEW i \in 1..Len(s) PROVE s[i] = (t \o u)[i]
  <2>1. CASE i <= Len(t)
    BY <1>1, <1>2, <2>1
  <2>2. CASE i > Len(t)
    <3>1. i - Len(t) \in 1..Len(u) /\ Len(t) + (i - Len(t)) = i
      BY <1>1, <2>2
    <3>2. u[i - Len(t)] = s[Len(t) + (i - Len(t))]
      BY <3>1
    <3> QED
      BY <1>1, <1>2, <2>2, <3>1, <3>2
  <2> QED
    BY <1>1, <2>1, <2>2
<1> QED
  BY <1>2, <1>3, SeqEqual

(* A part of the ring is a sequence of bytes. *)
LEMMA PartBytes ==
  ASSUME TypeOK, NEW from \in 0..Size - 1, NEW n \in 0..Size,
         from + n <= Size
  PROVE  Part(from, n) \in Seq(Byte) /\ Len(Part(from, n)) = n
<1>1. \A i \in 1..n : from + i - 1 \in Cells
  BY MetabufferAssumption DEF Cells
<1>2. Part(from, n) \in [1..n -> Byte]
  BY <1>1 DEF TypeOK, Part
<1>3. n \in Nat
  BY MetabufferAssumption
<1> QED
  BY <1>2, <1>3, SeqOfLength

(* n bytes are taken from the cells behind read_p, over the end of the     *)
(* ring or not, and read_p moves behind them.                              *)
LEMMA ReadCells ==
  ASSUME TypeOK, NEW count \in Nat \ {0}, FopsRead(count)
  PROVE  \E n \in 1..Used :
           /\ io' \in Seq(Byte) /\ Len(io') = n
           /\ \A i \in 1..n : io'[i] = buffer[Cell(i)]
           /\ read_p' = IF read_p + n < Size THEN read_p + n
                                             ELSE read_p + n - Size
<1> DEFINE tail == Size - read_p
<1>0. /\ Size \in Nat /\ write_p \in 0..Size - 1 /\ read_p \in 0..Size - 1
      /\ count \in Nat /\ count > 0
  BY MetabufferAssumption DEF TypeOK, Cells
<1>1. ASSUME NEW n \in 1..Used, read_p + n < Size,
             io' = Part(read_p, n), read_p' = read_p + n
      PROVE  /\ io' \in Seq(Byte) /\ Len(io') = n
             /\ \A i \in 1..n : io'[i] = buffer[Cell(i)]
             /\ read_p' = IF read_p + n < Size THEN read_p + n
                                               ELSE read_p + n - Size
  <2>1. n \in 0..Size /\ read_p + n <= Size
    BY <1>0, <1>1 DEF Used
  <2>2. io' \in Seq(Byte) /\ Len(io') = n
    BY <1>0, <1>1, <2>1, PartBytes
  <2>3. \A i \in 1..n : io'[i] = buffer[Cell(i)]
    BY <1>0, <1>1 DEF Part, Cell
  <2> QED
    BY <1>1, <2>2, <2>3
<1>2. CASE write_p > read_p
  <2> DEFINE n == Least(write_p - read_p, count)
  <2>1. io' = Part(read_p, n) /\ read_p' = read_p + n
    BY <1>0, <1>2 DEF FopsRead
  <2>2. n \in 1..Used /\ read_p + n < Size
    BY <1>0, <1>2 DEF Used, Least
  <2> HIDE DEF n
  <2> QED
    BY <1>1, <2>1, <2>2
<1>3. CASE write_p < read_p /\ tail > count
  <2>1. io' = Part(read_p, count) /\ read_p' = read_p + count
    BY <1>0, <1>3 DEF FopsRead
  <2>2. count \in 1..Used /\ read_p + count < Size
    BY <1>0, <1>3 DEF Used
  <2> QED
    BY <1>1, <2>1, <2>2
<1>4. CASE write_p < read_p /\ tail <= count
  <2> DEFINE h == Least(write_p, count - tail)
             one == Part(read_p, tail)
             two == Part(0, h)
  <2>1. io' = one \o two /\ read_p' = h
    BY <1>0, <1>4 DEF FopsRead
  <2>2. /\ h \in 0..Size /\ tail \in 1..Size /\ tail + h \in 1..Used
        /\ read_p + (tail + h) = Size + h /\ h <= write_p
        /\ read_p + tail <= Size /\ 0 + h <= Size
    BY <1>0, <1>4 DEF Used, Least
  <2>3. /\ one \in Seq(Byte) /\ Len(one) = tail
        /\ two \in Seq(Byte) /\ Len(two) = h
    <3> HIDE DEF tail, h
    <3>1. tail \in 0..Size /\ 0 \in 0..Size - 1
      BY <1>0, <2>2
    <3> QED
      BY <1>0, <2>2, <3>1, PartBytes
  <2>4. /\ io' \in Seq(Byte) /\ Len(io') = tail + h
        /\ \A i \in 1..tail + h :
             io'[i] = IF i <= tail THEN one[i] ELSE two[i - tail]
    <3> HIDE DEF one, two, tail, h
    <3> QED
      BY <2>1, <2>3, ConcatProperties
  <2>5. ASSUME NEW i \in 1..tail + h PROVE io'[i] = buffer[Cell(i)]
    <3>1. CASE i <= tail
      <4>1. io'[i] = one[i]
        BY <2>4, <3>1
      <4>2. i \in 1..tail /\ one[i] = buffer[read_p + i - 1]
        BY <1>0, <2>2, <3>1 DEF Part
      <4> QED
        BY <1>0, <3>1, <4>1, <4>2 DEF Cell
    <3>2. CASE i > tail
      <4>1. io'[i] = two[i - tail]
        BY <1>0, <2>2, <2>4, <3>2
      <4>2. i - tail \in 1..h /\ two[i - tail] = buffer[0 + (i - tail) - 1]
        BY <1>0, <2>2, <3>2 DEF Part
      <4>3. Cell(i) = 0 + (i - tail) - 1
        BY <1>0, <3>2 DEF Cell
      <4> QED
        BY <4>1, <4>2, <4>3
    <3> QED
      BY <1>0, <2>2, <3>1, <3>2
  <2>6. read_p' = IF read_p + (tail + h) < Size
                    THEN read_p + (tail + h) ELSE read_p + (tail + h) - Size
    BY <1>0, <2>1, <2>2
  <2> HIDE DEF tail, h
  <2> QED
    BY <2>2, <2>4, <2>5, <2>6
<1> QED
  BY <1>0, <1>2, <1>3, <1>4 DEF FopsRead

(* A read takes the oldest bytes and leaves the others. *)
LEMMA ReadTakes ==
  ASSUME TypeOK, NEW count \in Nat \ {0}, FopsRead(count)
  PROVE  /\ read_p' \in Cells /\ io' \in Seq(Byte) /\ io' # << >>
         /\ Contents' \in Seq(Byte) /\ Contents = io' \o Contents'
<1>1. PICK n \in 1..Used :
        /\ io' \in Seq(Byte) /\ Len(io') = n
        /\ \A i \in 1..n : io'[i] = buffer[Cell(i)]
        /\ read_p' = IF read_p + n < Size THEN read_p + n
                                          ELSE read_p + n - Size
  BY ReadCells
<1>2. /\ Size \in Nat /\ write_p \in 0..Size - 1 /\ read_p \in 0..Size - 1
      /\ Used \in 0..Size - 1 /\ n \in Nat /\ n > 0
      /\ Contents \in Seq(Byte) /\ Len(Contents) = Used
  BY ContentsBytes, MetabufferAssumption DEF TypeOK, Cells
<1>3. buffer' = buffer /\ write_p' = write_p
  BY DEF FopsRead
<1>4. read_p' \in 0..Size - 1 /\ Used' = Used - n
  BY <1>1, <1>2, <1>3 DEF Used
<1>5. ASSUME NEW i \in 1..Used - n
      PROVE  Cell(i)' = Cell(n + i) /\ n + i \in 1..Used
  BY <1>1, <1>2 DEF Cell
<1>6. Contents' = [ i \in 1..Used - n |-> buffer[Cell(n + i)] ]
  BY <1>3, <1>4, <1>5 DEF Contents
<1>7. Contents' \in Seq(Byte) /\ Len(Contents') = Used - n
  <2>1. \A i \in 1..Used - n : buffer[Cell(n + i)] \in Byte
    BY <1>5, ContentsBytes DEF TypeOK
  <2>2. Contents' \in [1..Used - n -> Byte]
    BY <1>6, <2>1
  <2>3. Used - n \in Nat
    BY <1>1, <1>2
  <2> QED
    BY <2>2, <2>3, SeqOfLength
<1>8. \A i \in 1..n : io'[i] = Contents[i]
  BY <1>1, <1>2 DEF Contents
<1>9. \A i \in 1..Used - n : Contents'[i] = Contents[n + i]
  BY <1>2, <1>5, <1>6 DEF Contents
<1>10. Contents = io' \o Contents'
  <2>1. Len(Contents) = Len(io') + Len(Contents')
    BY <1>1, <1>2, <1>7
  <2>2. /\ \A i \in 1..Len(io') : io'[i] = Contents[i]
        /\ \A i \in 1..Len(Contents') : Contents'[i] = Contents[Len(io') + i]
    BY <1>1, <1>7, <1>8, <1>9
  <2> QED
    BY <1>1, <1>2, <1>7, <2>1, <2>2, SplitSeq
<1>11. io' # << >>
  BY <1>1, <1>2, EmptySeq
<1> QED
  BY <1>1, <1>4, <1>7, <1>10, <1>11 DEF Cells

-----------------------------------------------------------------------------
(* The steps of the driver on the queue. *)

(* The counts of full rings stay in their bounds. *)
LEMMA CountTypes ==
  ASSUME NEW times \in 0..FullTimes, NEW full \in BOOLEAN
  PROVE  Count(times, full) \in 0..FullTimes
BY MetabufferAssumption DEF Count

(* Which pipes had a reset or a loss stays a set of pipes. *)
LEMMA ResetIfStuckTypes ==
  ASSUME TypeOK, NEW p \in Pipes, NEW times, NEW full,
         ResetIfStuck(p, times, full)
  PROVE  resets' \subseteq Pipes /\ dropped' \subseteq Pipes
BY DEF TypeOK, ResetIfStuck

(* The tags of the bytes go round. *)
LEMMA ArrivesTypes ==
  ASSUME TypeOK, NEW pkt \in Seq(Byte), Arrives(pkt)
  PROVE  next' \in Byte /\ io' \in Seq(Byte)
<1>1. next + Len(pkt) \in Int /\ Tags \in Nat \ {0}
  BY LenProperties, MetabufferAssumption DEF TypeOK, Byte
<1>2. (next + Len(pkt)) % Tags \in 0..Tags - 1
  BY <1>1
<1> QED
  BY <1>2 DEF Arrives, Byte

(* An event arrives whole or not at all. *)
LEMMA PushArrives ==
  ASSUME TypeOK, NEW n \in EventLens, PushEvent(n)
  PROVE  TypeOK' /\ stray' = stray /\ leftACLSize' = leftACLSize /\ Stream!Arrive
<1> DEFINE pkt  == Fresh(n + 1)
           full == RoomLeft < Len(pkt)
<1>0. TypeOK /\ n \in Nat /\ n + 1 \in Nat
  BY MetabufferAssumption
<1>1. pkt \in Seq(Byte) /\ Len(pkt) = n + 1
  BY <1>0, FreshBytes DEF TypeOK
<1>2. full \in BOOLEAN
  BY <1>0, <1>1, ContentsBytes, MetabufferAssumption
<1>3. /\ Arrives(pkt) /\ full_intr' = Count(full_intr, full)
      /\ ResetIfStuck("intr", full_intr', full)
      /\ IF full THEN UNCHANGED << ringVars, stray >>
                 ELSE Store(pkt, write_p + Len(pkt) <= Size)
      /\ leftACLSize' = leftACLSize /\ full_bulk' = full_bulk
  BY DEF PushEvent
<1> HIDE DEF full, pkt
<1>4. full_intr' \in 0..FullTimes
  BY <1>0, <1>2, <1>3, CountTypes DEF TypeOK
<1>5. resets' \subseteq Pipes /\ dropped' \subseteq Pipes
  BY <1>0, <1>3, ResetIfStuckTypes DEF Pipes
<1>6. next' \in Byte /\ io' = pkt /\ io' \in Seq(Byte)
  BY <1>0, <1>1, <1>3, ArrivesTypes DEF Arrives
<1>7. /\ read_p' = read_p /\ stray' = stray /\ write_p' \in Cells
      /\ buffer' \in [Cells -> Byte]
      /\ Contents' \in { Contents, Contents \o pkt }
  <2>1. CASE full
    <3>1. UNCHANGED << ringVars, stray >>
      BY <1>3, <2>1
    <3> QED
      BY <1>0, <3>1 DEF TypeOK, ringVars, Contents, Used, Cell
  <2>2. CASE ~full
    <3>1. Store(pkt, write_p + Len(pkt) <= Size)
      BY <1>3, <2>2
    <3>2. Len(pkt) <= RoomLeft
      BY <1>0, <1>1, <2>2, ContentsBytes, MetabufferAssumption DEF full
    <3>3. (write_p + Len(pkt) <= Size) \in BOOLEAN
      OBVIOUS
    <3>4. ~(write_p + Len(pkt) <= Size) => Size - write_p <= Len(pkt)
      BY <1>0, <1>1, MetabufferAssumption DEF TypeOK, Cells
    <3> QED
      BY <1>0, <1>1, <3>1, <3>2, <3>3, <3>4, StoreAppends
  <2> QED
    BY <2>1, <2>2
<1>8. TypeOK'
  BY <1>0, <1>3, <1>4, <1>5, <1>6, <1>7 DEF TypeOK
<1> QED
  BY <1>3, <1>6, <1>7, <1>8 DEF Stream!Arrive

(* A bulk packet that found the ring full, and was stored all the same.    *)
Overrun == RoomLeft < Len(io') /\ "bulk" \in dropped'

(* A copy that goes out of the ring. *)
Beyond == leftACLSize # 0 /\ write_p + Len(io') + 1 = Size

(* A bulk packet there is no room for is stored over what has not been     *)
(* read, but in the ring, or past its end when it is the rest of another;  *)
(* every other arrives whole.                                              *)
LEMMA BulkStores ==
  ASSUME TypeOK, NEW n \in 1..HdrLen + MaxAcl, NEW d \in Nat, BulkIn(n, d),
         leftACLSize = 0 /\ d > MaxAcl => n <= HdrLen + d
  PROVE  /\ TypeOK' /\ (stray' => stray \/ Beyond)
         /\ Stream!Arrive \/ Overrun
<1> DEFINE pkt  == IF leftACLSize = 0 THEN Fresh(n + 1) ELSE Fresh(n)
           full == RoomLeft < n + 1
           fits == BeforeEnd(n)
<1>1. /\ n \in Nat /\ n + 1 \in Nat /\ n + 1 < Size /\ Size \in Nat
      /\ HdrLen \in Nat /\ MaxAcl \in Nat
      /\ write_p \in 0..Size - 1 /\ RoomLeft \in 0..Size - 1
  BY ContentsBytes, MetabufferAssumption DEF TypeOK, Cells
<1>2. pkt \in Seq(Byte) /\ Len(pkt) = IF leftACLSize = 0 THEN n + 1 ELSE n
  BY <1>1, FreshBytes DEF TypeOK
<1>3. full \in BOOLEAN /\ fits \in BOOLEAN
  BY <1>1 DEF BeforeEnd
<1>4. /\ Arrives(pkt) /\ full_bulk' = Count(full_bulk, full)
      /\ ResetIfStuck("bulk", full_bulk', full)
      /\ Store(pkt, fits) /\ full_intr' = full_intr
      /\ leftACLSize' = IF leftACLSize = 0
                          THEN IF d > MaxAcl THEN d + HdrLen - n ELSE 0
                          ELSE IF leftACLSize > n THEN leftACLSize - n ELSE 0
  BY DEF BulkIn
<1>5. leftACLSize' \in Nat
  BY <1>1, <1>4 DEF TypeOK
<1>6. fits => write_p + Len(pkt) <= Size
  BY <1>1, <1>2 DEF BeforeEnd
<1>7. ~fits /\ ~(Size - write_p <= Len(pkt))
        => leftACLSize # 0 /\ write_p + Len(pkt) + 1 = Size
  BY <1>1, <1>2 DEF BeforeEnd
<1>8. Len(pkt) \in Nat /\ Len(pkt) < Size /\ Len(pkt) <= n + 1
  BY <1>1, <1>2
<1> HIDE DEF full, pkt, fits
<1>9. full_bulk' \in 0..FullTimes
  BY <1>3, <1>4, CountTypes DEF TypeOK
<1>10. resets' \subseteq Pipes /\ dropped' \subseteq Pipes
  BY <1>4, ResetIfStuckTypes DEF Pipes
<1>11. next' \in Byte /\ io' = pkt /\ io' \in Seq(Byte)
  BY <1>2, <1>4, ArrivesTypes DEF Arrives
<1>12. CASE ~fits /\ ~(Size - write_p <= Len(pkt))
  <2>1. stray' = TRUE /\ UNCHANGED << buffer, read_p, write_p >>
    BY <1>4, <1>12 DEF Store, ringVars
  <2>2. Contents' = Contents
    BY <2>1 DEF Contents, Used, Cell
  <2>3. TypeOK'
    BY <1>4, <1>5, <1>9, <1>10, <1>11, <2>1 DEF TypeOK
  <2> QED
    BY <1>7, <1>11, <1>12, <2>2, <2>3 DEF Beyond, Stream!Arrive
<1>13. CASE fits \/ Size - write_p <= Len(pkt)
  <2>1. IF fits THEN write_p + Len(pkt) <= Size ELSE Size - write_p <= Len(pkt)
    BY <1>6, <1>13
  <2>2. /\ read_p' = read_p /\ stray' = stray /\ buffer' \in [Cells -> Byte]
        /\ write_p' = IF write_p + Len(pkt) < Size
                        THEN write_p + Len(pkt)
                        ELSE write_p + Len(pkt) - Size
    BY <1>2, <1>3, <1>4, <1>8, <2>1, StoreCells
  <2>3. write_p' \in Cells
    BY <1>1, <1>8, <2>2 DEF Cells
  <2>4. TypeOK'
    BY <1>4, <1>5, <1>9, <1>10, <1>11, <2>2, <2>3 DEF TypeOK
  <2>5. CASE Len(pkt) <= RoomLeft
    <3>1. Contents' = Contents \o pkt
      BY <1>2, <1>3, <1>4, <2>1, <2>5, StoreAppends
    <3> QED
      BY <1>11, <2>2, <2>4, <3>1 DEF Stream!Arrive
  <2>6. CASE ~(Len(pkt) <= RoomLeft)
    <3>1. full /\ RoomLeft < Len(pkt)
      BY <1>1, <1>8, <2>6 DEF full
    <3>2. "bulk" \in dropped'
      BY <1>4, <3>1 DEF ResetIfStuck
    <3> QED
      BY <1>11, <2>2, <2>4, <3>1, <3>2 DEF Overrun
  <2> QED
    BY <2>5, <2>6
<1> QED
  BY <1>12, <1>13

(* What a bulk packet is: the length of its data, or the rest of another.  *)
LEMMA BulkPacketIs ==
  ASSUME TypeOK, BulkPacket
  PROVE  \E n \in 1..HdrLen + MaxAcl, d \in Nat :
           /\ BulkIn(n, d) /\ (KeepsUp => n + 1 <= RoomLeft)
           /\ leftACLSize = 0 => d \in AclData
           /\ leftACLSize = 0 /\ d > MaxAcl => n <= HdrLen + d
<1>0. HdrLen \in Nat \ {0} /\ MaxAcl \in Nat /\ AclData \subseteq Nat
  BY MetabufferAssumption
<1>1. CASE leftACLSize = 0
  <2>1. PICK d \in AclData :
          LET n == HdrLen + (IF d > MaxAcl THEN MaxAcl ELSE d)
          IN  (KeepsUp => n + 1 <= RoomLeft) /\ BulkIn(n, d)
    BY <1>1 DEF BulkPacket
  <2> DEFINE n == HdrLen + (IF d > MaxAcl THEN MaxAcl ELSE d)
  <2>2. d \in Nat /\ n \in 1..HdrLen + MaxAcl /\ n <= HdrLen + d
    BY <1>0
  <2>3. (KeepsUp => n + 1 <= RoomLeft) /\ BulkIn(n, d)
    BY <2>1
  <2> HIDE DEF n
  <2> QED
    BY <1>1, <2>2, <2>3
<1>2. CASE leftACLSize # 0
  <2>1. PICK n \in 1..HdrLen + MaxAcl :
          (KeepsUp => n + 1 <= RoomLeft) /\ BulkIn(n, 0)
    BY <1>2 DEF BulkPacket
  <2> QED
    BY <1>2, <2>1
<1> QED
  BY <1>1, <1>2

(* A bulk packet, whatever its length and the room there is.               *)
LEMMA BulkArrives ==
  ASSUME TypeOK, BulkPacket
  PROVE  /\ TypeOK' /\ (stray' => stray \/ Beyond)
         /\ Stream!Arrive \/ (~KeepsUp /\ Overrun)
         /\ leftACLSize = 0 /\ AclData \subseteq 0..MaxAcl => leftACLSize' = 0
<1>1. PICK n \in 1..HdrLen + MaxAcl, d \in Nat :
        /\ BulkIn(n, d) /\ (KeepsUp => n + 1 <= RoomLeft)
        /\ leftACLSize = 0 => d \in AclData
        /\ leftACLSize = 0 /\ d > MaxAcl => n <= HdrLen + d
  BY BulkPacketIs
<1>2. /\ TypeOK' /\ (stray' => stray \/ Beyond)
      /\ Stream!Arrive \/ Overrun
  BY <1>1, BulkStores
<1>3. KeepsUp => ~Overrun
  <2>1. io' = IF leftACLSize = 0 THEN Fresh(n + 1) ELSE Fresh(n)
    BY <1>1 DEF BulkIn, Arrives
  <2>2. n \in Nat /\ n + 1 \in Nat /\ RoomLeft \in Int
    BY ContentsBytes, MetabufferAssumption DEF TypeOK
  <2>3. Len(Fresh(n + 1)) = n + 1 /\ Len(Fresh(n)) = n
    BY <2>2, FreshBytes DEF TypeOK
  <2>4. Len(io') <= n + 1
    BY <2>1, <2>2, <2>3
  <2> QED
    BY <1>1, <2>1, <2>2, <2>3 DEF Overrun
<1>4. leftACLSize = 0 /\ AclData \subseteq 0..MaxAcl => leftACLSize' = 0
  BY <1>1, MetabufferAssumption DEF BulkIn
<1> QED
  BY <1>2, <1>3, <1>4

(* A read of the character device is a read of the queue. *)
LEMMA ReadReads ==
  ASSUME TypeOK, NEW count \in Counts, FopsRead(count)
  PROVE  TypeOK' /\ stray' = stray /\ leftACLSize' = leftACLSize /\ Stream!Read
<1>1. count \in Nat \ {0}
  BY MetabufferAssumption
<1>2. UNCHANGED << buffer, write_p, leftACLSize, fullVars, stray, next >>
  BY DEF FopsRead
<1>3. /\ read_p' \in Cells /\ io' \in Seq(Byte) /\ io' # << >>
      /\ Contents' \in Seq(Byte) /\ Contents = io' \o Contents'
  BY <1>1, ReadTakes
<1>4. TypeOK'
  BY <1>2, <1>3 DEF TypeOK, fullVars
<1> QED
  BY <1>2, <1>3, <1>4 DEF Stream!Read

(* Opening, closing and losing the device clear the queue. *)
LEMMA EmptyClears ==
  ASSUME TypeOK, Empty
  PROVE  TypeOK' /\ stray' = stray /\ leftACLSize' = leftACLSize /\ Stream!Clear
<1>1. read_p' = 0 /\ write_p' = 0 /\ 0 \in Cells /\ Size \in Nat
  BY MetabufferAssumption DEF Empty, Cells
<1>2. TypeOK'
  BY <1>1 DEF Empty, TypeOK, fullVars
<1>3. Used' = 0
  BY <1>1 DEF Used
<1>4. Contents' = << >>
  <2>1. Contents' \in [1..0 -> Byte]
    BY <1>3 DEF Contents
  <2>2. Contents' \in Seq(Byte) /\ Len(Contents') = 0
    BY <2>1, SeqOfLength
  <2> QED
    BY <2>2, EmptySeq
<1> QED
  BY <1>2, <1>4 DEF Stream!Clear, Empty

(* The ring just allocated is the empty queue. *)
LEMMA InitMaps ==
  ASSUME Init
  PROVE  TypeOK /\ ~stray /\ leftACLSize = 0 /\ Stream!Init
<1>1. /\ Size \in Nat /\ 0 \in Cells /\ 0 \in Byte /\ 0 \in 0..FullTimes
      /\ read_p = 0 /\ write_p = 0 /\ io = << >>
  BY MetabufferAssumption DEF Init, Cells, Byte
<1>2. << >> \in Seq(Byte)
  BY EmptySeq
<1>3. buffer \in [Cells -> Byte]
  BY <1>1 DEF Init
<1>4. TypeOK
  BY <1>1, <1>2, <1>3 DEF Init, TypeOK
<1>5. Used = 0
  BY <1>1 DEF Used
<1>6. Contents = << >>
  BY <1>4, <1>5, ContentsBytes, EmptySeq
<1> QED
  BY <1>1, <1>4, <1>6 DEF Init, Stream!Init

(* Every step of the ring: it keeps the types, goes out of the ring in one *)
(* case at most, and is a step of the queue or none but when a bulk packet *)
(* finds no room.                                                          *)
LEMMA StepMaps ==
  ASSUME TypeOK, [~stray /\ Next]_vars
  PROVE  /\ TypeOK' /\ (stray' => stray \/ Beyond)
         /\ [Stream!Next]_Stream!vars \/ (~KeepsUp /\ Overrun)
         /\ leftACLSize = 0 /\ AclData \subseteq 0..MaxAcl => leftACLSize' = 0
<1>1. CASE UNCHANGED vars
  <2>1. /\ UNCHANGED << buffer, read_p, write_p, leftACLSize, stray, next, io >>
        /\ UNCHANGED << full_intr, full_bulk, resets, dropped >>
    BY <1>1 DEF vars, ringVars, fullVars
  <2>2. Contents' = Contents /\ io' = io
    BY <2>1 DEF Contents, Used, Cell
  <2>3. TypeOK'
    BY <2>1 DEF TypeOK
  <2> QED
    BY <2>1, <2>2, <2>3 DEF Stream!vars
<1>2. CASE \E n \in EventLens : PushEvent(n)
  BY <1>2, PushArrives DEF Stream!Next
<1>3. CASE BulkPacket
  BY <1>3, BulkArrives DEF Stream!Next
<1>4. CASE \E count \in Counts : FopsRead(count)
  BY <1>4, ReadReads DEF Stream!Next
<1>5. CASE Empty
  BY <1>5, EmptyClears DEF Stream!Next
<1> QED
  BY <1>1, <1>2, <1>3, <1>4, <1>5 DEF Next

(* The ring's pointers, counts and bytes keep their types, whatever the    *)
(* chip sends and however slow the reader.                                 *)
THEOREM RingTypeCorrect == Spec => []TypeOK
<1>1. Init => TypeOK
  BY InitMaps
<1>2. TypeOK /\ [~stray /\ Next]_vars => TypeOK'
  BY StepMaps
<1> QED
  BY <1>1, <1>2, PTL DEF Spec

(* The ring implements the queue of bytes: whatever the sizes of the ring, *)
(* of the packets and of the reads, what btmtk_usb_fops_read returns is    *)
(* what the chip sent, in order and whole, given a reader that keeps up    *)
(* with the bulk pipe.                                                     *)
THEOREM ImplementsStream == ASSUME KeepsUp PROVE Spec => StreamSpec
<1>1. Init => Stream!Init
  BY InitMaps
<1>2. TypeOK /\ [~stray /\ Next]_vars => [Stream!Next]_Stream!vars
  BY StepMaps
<1> QED
  BY RingTypeCorrect, <1>1, <1>2, PTL DEF Spec, StreamSpec, Stream!Spec

(* Whatever the reader does, one thing alone breaks the queue: a packet on *)
(* the bulk pipe that finds the ring full.  Events are never torn, and     *)
(* what is read is what was oldest in the ring.                            *)
THEOREM OnlyOverrunsBreakStream == Spec => [][Stream!Next \/ Overrun]_Stream!vars
<1>1. TypeOK /\ [~stray /\ Next]_vars => [Stream!Next \/ Overrun]_Stream!vars
  BY StepMaps
<1> QED
  BY RingTypeCorrect, <1>1, PTL DEF Spec

(* A copy goes out of the ring only for the rest of a packet that is too   *)
(* large, in a transfer that ends one byte before the end of the ring.     *)
THEOREM RingStraysAtTheEnd == Spec => StraysAtTheEnd
<1>1. TypeOK /\ [~stray /\ Next]_vars
        => [ stray' => leftACLSize # 0 /\ write_p + Len(io') + 1 = Size ]_vars
  <2> SUFFICES ASSUME TypeOK, ~stray /\ Next
               PROVE  stray' => Beyond
    BY DEF Beyond
  <2> QED
    BY StepMaps
<1> QED
  BY RingTypeCorrect, <1>1, PTL DEF Spec, StraysAtTheEnd

(* So with no packet beyond 1021 bytes of data every copy stays inside,    *)
(* also those of packets the ring has no room for.                         *)
THEOREM RingCopiesInside ==
  ASSUME AclData \subseteq 0..MaxAcl
  PROVE  Spec => []CopiesInside
<1> DEFINE Inside == ~stray /\ leftACLSize = 0
<1>1. Init => Inside
  BY DEF Init
<1>2. TypeOK /\ Inside /\ [~stray /\ Next]_vars => Inside'
  BY StepMaps DEF Beyond
<1>3. Inside => CopiesInside
  BY DEF CopiesInside
<1> QED
  BY RingTypeCorrect, <1>1, <1>2, <1>3, PTL DEF Spec

(* A count that is not nothing goes with a packet just lost. *)
Counted ==
  /\ full_intr \in Nat /\ (full_intr > 0 => "intr" \in dropped)
  /\ full_bulk \in Nat /\ (full_bulk > 0 => "bulk" \in dropped)

(* One packet on a pipe keeps its count with the losses; when it adds the  *)
(* pipe to those reset, the count shows that the packet before was lost.   *)
LEMMA CountStep ==
  ASSUME FullTimes > 1, NEW p, NEW times \in Nat, NEW full \in BOOLEAN,
         times > 0 => p \in dropped, ResetIfStuck(p, Count(times, full), full)
  PROVE  /\ Count(times, full) \in Nat
         /\ Count(times, full) > 0 => p \in dropped'
         /\ resets' \ resets \subseteq dropped
         /\ \A q : q # p /\ q \in dropped => q \in dropped'
<1>1. Count(times, full) \in Nat /\ (Count(times, full) > 0 => full)
  BY MetabufferAssumption DEF Count
<1>2. Count(times, full) = FullTimes => times > 0
  BY MetabufferAssumption DEF Count
<1> QED
  BY <1>1, <1>2 DEF ResetIfStuck

(* Every step of the ring keeps that, and resets only a pipe that lost the *)
(* packet before.                                                          *)
LEMMA CountedStep ==
  ASSUME FullTimes > 1, Counted, [~stray /\ Next]_vars
  PROVE  Counted' /\ resets' \ resets \subseteq dropped
<1>1. ASSUME UNCHANGED << full_intr, full_bulk, resets, dropped >>
      PROVE  Counted' /\ resets' \ resets \subseteq dropped
  BY <1>1 DEF Counted
<1>2. CASE UNCHANGED vars
  BY <1>1, <1>2 DEF vars, fullVars
<1>3. ASSUME NEW n \in EventLens, PushEvent(n)
      PROVE  Counted' /\ resets' \ resets \subseteq dropped
  <2> DEFINE full == RoomLeft < Len(Fresh(n + 1))
  <2>1. /\ full \in BOOLEAN /\ full_intr' = Count(full_intr, full)
        /\ ResetIfStuck("intr", Count(full_intr, full), full)
        /\ full_bulk' = full_bulk
    BY <1>3 DEF PushEvent
  <2>2. full_intr \in Nat /\ (full_intr > 0 => "intr" \in dropped)
    BY DEF Counted
  <2> HIDE DEF full
  <2>3. /\ Count(full_intr, full) \in Nat
        /\ Count(full_intr, full) > 0 => "intr" \in dropped'
        /\ resets' \ resets \subseteq dropped
        /\ "bulk" \in dropped => "bulk" \in dropped'
    BY <2>1, <2>2, CountStep
  <2> QED
    BY <2>1, <2>3 DEF Counted
<1>4. ASSUME NEW n, NEW d, BulkIn(n, d)
      PROVE  Counted' /\ resets' \ resets \subseteq dropped
  <2> DEFINE full == RoomLeft < n + 1
  <2>1. /\ full \in BOOLEAN /\ full_bulk' = Count(full_bulk, full)
        /\ ResetIfStuck("bulk", Count(full_bulk, full), full)
        /\ full_intr' = full_intr
    BY <1>4 DEF BulkIn
  <2>2. full_bulk \in Nat /\ (full_bulk > 0 => "bulk" \in dropped)
    BY DEF Counted
  <2> HIDE DEF full
  <2>3. /\ Count(full_bulk, full) \in Nat
        /\ Count(full_bulk, full) > 0 => "bulk" \in dropped'
        /\ resets' \ resets \subseteq dropped
        /\ "intr" \in dropped => "intr" \in dropped'
    BY <2>1, <2>2, CountStep
  <2> QED
    BY <2>1, <2>3 DEF Counted
<1>5. CASE BulkPacket
  BY <1>4, <1>5 DEF BulkPacket
<1>6. CASE \E count \in Counts : FopsRead(count)
  BY <1>1, <1>6 DEF FopsRead, fullVars
<1>7. CASE Empty
  BY <1>1, <1>7 DEF Empty, fullVars
<1> QED
  BY <1>2, <1>3, <1>5, <1>6, <1>7 DEF Next

(* Whatever the sizes and however slow the reader, a pipe has the chip     *)
(* reset only if its packet before was lost as well, given a limit of more *)
(* than one (it is 100).                                                   *)
THEOREM ResetsPatient ==
  ASSUME FullTimes > 1
  PROVE  Spec => PatientReset
<1>1. Init => Counted
  BY DEF Init, Counted
<1>2. Counted /\ [~stray /\ Next]_vars => Counted'
  BY CountedStep
<1>3. Counted /\ [~stray /\ Next]_vars
        => [resets' \ resets \subseteq dropped]_vars
  BY CountedStep
<1> QED
  BY <1>1, <1>2, <1>3, PTL DEF Spec, PatientReset

=============================================================================
