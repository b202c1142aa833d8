---------------------------- MODULE BtMetabuffer ----------------------------
(***************************************************************************)
(* The receive ring of the Bluetooth driver (g_data->metabuffer): the      *)
(* interrupt and bulk URB completions store what the chip sends, reads on  *)
(* the character device take it out.  Every access to the ring is under    *)
(* its spin lock, so each is one step.                                     *)
(*                                                                         *)
(* Bytes are tags, numbered round in the order they arrive, which tells    *)
(* apart any two the ring can hold.                                        *)
(***************************************************************************)
EXTENDS Integers, Sequences

CONSTANTS
  Size,          (* META_BUFFER_SIZE                                        *)
  Tags,          (* number of different bytes                               *)
  EventLens,     (* lengths of events on the interrupt pipe                 *)
  HdrLen,        (* length of the header of an ACL packet: 4                *)
  MaxAcl,        (* most data in one ACL packet: 1021                       *)
  AclData,       (* lengths of data the chip puts in an ACL packet          *)
  Counts,        (* how much a read asks for                                *)
  FullTimes,     (* FW_QUEUE_FULL_ERR_MAX_TIMES                             *)
  KeepsUp        (* the reader is fast enough for the bulk pipe             *)

ASSUME MetabufferAssumption ==
  /\ Size \in Nat /\ Tags \in Nat \ {0}
  /\ HdrLen \in Nat \ {0} /\ MaxAcl \in Nat \ {0} /\ FullTimes \in Nat \ {0}
  /\ HdrLen + MaxAcl + 1 < Size
  /\ EventLens \subseteq 1..Size - 2 /\ AclData \subseteq Nat
  /\ Counts \subseteq Nat \ {0} /\ KeepsUp \in BOOLEAN

VARIABLES
  buffer, read_p, write_p,
  leftACLSize,   \* bytes of a large ACL packet still to come
  full_intr,     \* queueFullTimes of btmtk_usb_push_data_to_metabuffer
  full_bulk,     \* queueFullTimes of btmtk_usb_bulk_in_complete
  resets,        \* pipes whose last packet had the reset pin toggled
  dropped,       \* history: pipes whose last packet found the ring full
  stray,         \* a copy went outside the ring
  next,          \* tag of the next byte to arrive
  io             \* the last packet that arrived or bytes that were read

ringVars == << buffer, read_p, write_p >>
fullVars == << full_intr, full_bulk, resets, dropped >>
vars == << ringVars, leftACLSize, fullVars, stray, next, io >>

Byte == 0..Tags - 1
Cells == 0..Size - 1
Pipes == { "intr", "bulk" }

TypeOK ==
  /\ buffer \in [Cells -> Byte] /\ read_p \in Cells /\ write_p \in Cells
  /\ leftACLSize \in Nat
  /\ full_intr \in 0..FullTimes /\ full_bulk \in 0..FullTimes
  /\ resets \subseteq Pipes /\ dropped \subseteq Pipes /\ stray \in BOOLEAN
  /\ next \in Byte /\ io \in Seq(Byte)

-----------------------------------------------------------------------------
(* The next n bytes to arrive. *)
Fresh(n) == [ i \in 1..n |-> (next + i - 1) % Tags ]

(* memcpy of s to the ring at position at. *)
Copy(b, at, s) ==
  [ c \in Cells |-> IF c \in at..at + Len(s) - 1 THEN s[c - at + 1] ELSE b[c] ]

(* Mutant: an event that ends at the end of the ring leaves write_p there. *)
WrapNever(p) == p
(* The end of the ring is its beginning. *)
Wrap(p) == IF p = Size THEN 0 ELSE p

(* Mutant: a full ring cannot be told from an empty one. *)
RoomOff == IF read_p <= write_p THEN Size - write_p + read_p
                                ELSE read_p - write_p
(* "roomleft means the usable space" *)
RoomLeft == IF read_p <= write_p THEN Size - write_p + read_p - 1
                                 ELSE read_p - write_p - 1

(* The packet is copied behind write_p, in two parts when it does not fit  *)
(* before the end of the ring.  The length of the second part is unsigned: *)
(* a packet shorter than the first part copies past both ends.             *)
Store(pkt, fits) ==
  LET last == Size - write_p
  IN  IF fits
        THEN /\ buffer' = Copy(buffer, write_p, pkt)
             /\ write_p' = Wrap(write_p + Len(pkt))
             /\ UNCHANGED << read_p, stray >>
      ELSE IF last <= Len(pkt)
        THEN /\ buffer' = Copy(Copy(buffer, write_p, SubSeq(pkt, 1, last)),
                               0, SubSeq(pkt, last + 1, Len(pkt)))
             /\ write_p' = Len(pkt) - last
             /\ UNCHANGED << read_p, stray >>
        ELSE stray' = TRUE /\ UNCHANGED ringVars

(* Mutant: a packet stored does not end the row of full rings. *)
CountForgetful(times, full) ==
  IF full /\ times < FullTimes THEN times + 1 ELSE times
(* queueFullTimes after a packet that found the ring full or not; it only  *)
(* matters up to FullTimes.                                                *)
Count(times, full) ==
  IF ~full THEN 0 ELSE IF times < FullTimes THEN times + 1 ELSE times

(* The pin is toggled when pipe p finds the ring full once too often. *)
ResetIfStuck(p, times, full) ==
  /\ resets' = IF full /\ times = FullTimes THEN resets \cup {p}
                                            ELSE resets \ {p}
  /\ dropped' = IF full THEN dropped \cup {p} ELSE dropped \ {p}

Arrives(pkt) == io' = pkt /\ next' = (next + Len(pkt)) % Tags

(* btmtk_usb_push_data_to_metabuffer, called by btmtk_usb_intr_complete    *)
(* with an event: it is stored behind its type byte, or dropped.           *)
PushEvent(n) ==
  LET pkt  == Fresh(n + 1)
      full == RoomLeft < Len(pkt)
  IN  /\ Arrives(pkt)
      /\ full_intr' = Count(full_intr, full)
      /\ ResetIfStuck("intr", full_intr', full)
      /\ IF full THEN UNCHANGED << ringVars, stray >>
                 ELSE Store(pkt, write_p + Len(pkt) <= Size)
      /\ UNCHANGED << leftACLSize, full_bulk >>

(* Mutant: a packet that ends at the end of the ring is stored in two parts. *)
BeforeEndLate(n) == n + 2 + write_p < Size
(* Whether n bytes and a type byte end before the end of the ring. *)
BeforeEnd(n) == n + 1 + write_p < Size

(* btmtk_usb_bulk_in_complete with n bytes of an ACL packet, the first of  *)
(* which says that it carries d bytes of data.  The packet is stored       *)
(* whether there is room or not.                                           *)
BulkIn(n, d) ==
  LET pkt  == IF leftACLSize = 0 THEN Fresh(n + 1) ELSE Fresh(n)
      full == RoomLeft < n + 1
  IN  /\ Arrives(pkt)
      /\ full_bulk' = Count(full_bulk, full)
      /\ ResetIfStuck("bulk", full_bulk', full)
      /\ Store(pkt, BeforeEnd(n))
      /\ leftACLSize' =
           IF leftACLSize = 0
             THEN IF d > MaxAcl THEN d + HdrLen - n ELSE 0
             ELSE IF leftACLSize > n THEN leftACLSize - n ELSE 0
      /\ UNCHANGED full_intr

(* A packet comes in one transfer of the bulk pipe; the rest of one that   *)
(* is too large comes in transfers of its own.                             *)
BulkPacket ==
  IF leftACLSize = 0
    THEN \E d \in AclData :
           LET n == HdrLen + (IF d > MaxAcl THEN MaxAcl ELSE d)
           IN  (KeepsUp => n + 1 <= RoomLeft) /\ BulkIn(n, d)
    ELSE \E n \in 1..HdrLen + MaxAcl :
           /\ KeepsUp => n + 1 <= RoomLeft
           /\ BulkIn(n, 0)

(* memcpy of n bytes from the ring at position from. *)
Part(from, n) == [ i \in 1..n |-> buffer[from + i - 1] ]
Least(a, b) == IF a < b THEN a ELSE b

(* btmtk_usb_fops_read of a ring with data, for count bytes. *)
FopsRead(count) ==
  LET tail == Size - read_p
  IN  /\ \/ /\ write_p > read_p
            /\ LET n == Least(write_p - read_p, count)
               IN  io' = Part(read_p, n) /\ read_p' = read_p + n
         \/ /\ write_p < read_p /\ tail > count
            /\ io' = Part(read_p, count) /\ read_p' = read_p + count
         \/ /\ write_p < read_p /\ tail <= count
            /\ LET n == Least(write_p, count - tail)
               IN  io' = Part(read_p, tail) \o Part(0, n) /\ read_p' = n
      /\ UNCHANGED << buffer, write_p, leftACLSize, fullVars, stray, next >>

(* btmtk_usb_fops_open, btmtk_usb_fops_close and btmtk_usb_disconnect; the *)
(* probe also clears the bytes, which nothing reads any more.  The counts  *)
(* and leftACLSize are kept.                                               *)
Empty ==
  /\ read_p' = 0 /\ write_p' = 0
  /\ UNCHANGED << buffer, leftACLSize, fullVars, stray, next, io >>

Init ==
  /\ buffer = [ c \in Cells |-> 0 ] /\ read_p = 0 /\ write_p = 0
  /\ leftACLSize = 0 /\ full_intr = 0 /\ full_bulk = 0
  /\ resets = {} /\ dropped = {} /\ stray = FALSE
  /\ next = 0 /\ io = << >>

Next ==
  \/ \E n \in EventLens : PushEvent(n)
  \/ BulkPacket
  \/ \E count \in Counts : FopsRead(count)
  \/ Empty

(* A stray copy is the end of the kernel. *)
Spec == Init /\ [][~stray /\ Next]_vars

-----------------------------------------------------------------------------
(* What is in the ring, oldest first. *)
Used == IF read_p <= write_p THEN write_p - read_p
                             ELSE Size - read_p + write_p
Cell(i) == IF read_p + i <= Size THEN read_p + i - 1
                                 ELSE read_p + i - 1 - Size
Contents == [ i \in 1..Used |-> buffer[Cell(i)] ]

Stream == INSTANCE BtStream WITH queue <- Contents

(* The ring implements the queue of bytes its reader expects: packets go   *)
(* in whole or not at all and come out once, in order, unmixed, over any   *)
(* wrap of either pointer ("no enough space to store the received data",   *)
(* btmtk_usb_main.c:1922 and 4858).  On the bulk pipe it takes a reader    *)
(* that keeps up: a packet that finds the ring full is stored all the      *)
(* same, over what has not been read.                                      *)
StreamSpec == Stream!Spec

(* A pipe has the chip reset only if its packet before was lost as well:   *)
(* one full ring is no reason.                                             *)
PatientReset == [][ resets' \ resets \subseteq dropped ]_vars

(* A packet that passed the test of the usable space is copied inside the  *)
(* ring ("roomleft means the usable space", btmtk_usb_main.c:4850).        *)
CopiesInside == ~stray

(* A copy leaves the ring in one case only: the rest of a packet that is   *)
(* too large, without a type byte of its own (4896), in a transfer that    *)
(* ends one byte before the end of the ring.                               *)
StraysAtTheEnd ==
  [][ stray' => leftACLSize # 0 /\ write_p + Len(io') + 1 = Size ]_vars

=============================================================================
