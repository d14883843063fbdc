---------------------------- MODULE RxRingProofs ----------------------------
(***************************************************************************)
(* Proofs about RxRing, for every size of the ring, every set of frame     *)
(* lengths and every buffer: the frames lie end to end between the oldest  *)
(* one still needed and the chip's write pointer, and no arrival touches   *)
(* one of them.                                                            *)
(***************************************************************************)
EXTENDS RxRing, SequenceTheorems, TLAPS

(* The frames whose bytes are still needed: those not counted off and,     *)
(* before them, the one the sketch is reading.                             *)
Stored == [id : Ids, count : Counts, ok : BOOLEAN, next : Addresses]
kept == IF pc = "idle" /\ current # NoFrame THEN <<current>> \o fifo ELSE fifo
oldest == IF current # NoFrame THEN currentStart ELSE gNextPacketPtr

(* Frames in memory m from place `from' to place w: each starts where the  *)
(* one before it ends, none reaches into another, and each is whole.       *)
StartIn(ks, from, i) == IF i = 1 THEN from ELSE ks[i - 1].next
EndOf(ks, from, i) == ByteOf(StartIn(ks, from, i), from) + Record(ks[i].count)
Linked(ks, from, w) ==
  /\ ks \in Seq(Stored) /\ from \in Addresses /\ w \in Addresses
  /\ w = StartIn(ks, from, Len(ks) + 1)
  /\ \A i \in 1 .. Len(ks) :
       ks[i].next = (StartIn(ks, from, i) + Record(ks[i].count)) % Size
Separate(ks, from, w) ==
  \A i \in 1 .. Len(ks) :
    /\ EndOf(ks, from, i) <= ByteOf(w, from)
    /\ \A j \in i + 1 .. Len(ks) : EndOf(ks, from, i) <= ByteOf(StartIn(ks, from, j), from)
Holds(ks, from, m) ==
  \A i \in 1 .. Len(ks) : \A k \in 0 .. Record(ks[i].count) - 1 :
    m[(StartIn(ks, from, i) + k) % Size] = [frame |-> ks[i], off |-> k]
Laid(ks, from, w, m) == Linked(ks, from, w) /\ Separate(ks, from, w) /\ Holds(ks, from, m)

(* Frames take an even number of bytes in a ring of even size.  Were it    *)
(* otherwise, a full ring would look empty: ERXWRPT could meet ERXRDPT.    *)
Even == ERXWRPT % 2 = 0 /\ oldest % 2 = 0
(* ERXRDPT is just before what is needed, or where it was at power-up.     *)
ReadPointer == ERXRDPT = (oldest + Stop) % Size \/ (ERXRDPT = 0 /\ oldest = 0)
Turns ==
  /\ unreleasedPacket <=> current # NoFrame
  /\ pc = "released" => current = NoFrame
  /\ pc = "copied" => fifo # << >> /\ current = Head(fifo)
  /\ current # NoFrame => gNextPacketPtr = current.next
BufferFilled ==
  pc = "copied" =>
    buffer = [i \in 1 .. DataLength(current) |->
                [frame |-> current, off |-> HeaderLength + i - 1]]
RingInv ==
  /\ TypeOK /\ Turns /\ BufferFilled /\ Even /\ ReadPointer
  /\ Laid(kept, oldest, ERXWRPT, mem)

-----------------------------------------------------------------------------
(* Places in the ring.                                                     *)
LEMMA SizeFacts ==
  /\ Stop \in Nat /\ Size \in Nat \ {0} /\ Size = Stop + 1
  /\ \A a : a \in Addresses <=> a \in Nat /\ a < Size
BY RxAssumption DEF Size, Addresses

(* What % Size does to a number below twice the size of the ring.          *)
LEMMA Wrap ==
  /\ \A x \in Nat : x % Size \in Nat /\ x % Size < Size
  /\ \A x \in Nat : x < Size => x % Size = x
  /\ \A x \in Nat : x >= Size /\ x < 2 * Size => x % Size = x - Size
<1> USE SizeFacts
<1>1. ASSUME NEW x \in Nat PROVE x % Size \in Nat /\ x % Size < Size
  OBVIOUS
<1>2. ASSUME NEW x \in Nat, x < Size PROVE x % Size = x
  BY <1>2
<1>3. ASSUME NEW x \in Nat, x >= Size, x < 2 * Size PROVE x % Size = x - Size
  BY <1>3
<1> QED BY <1>1, <1>2, <1>3

(* The same in one formula.                                                *)
LEMMA WrapOnce ==
  ASSUME NEW x \in Nat, x < 2 * Size
  PROVE  x % Size = IF x < Size THEN x ELSE x - Size
<1>1. Size \in Nat
  BY SizeFacts
<1> QED BY <1>1, Wrap

(* How far a place is from another, going up and around.                   *)
LEMMA Distance ==
  ASSUME NEW a \in Addresses, NEW b \in Addresses
  PROVE  /\ ByteOf(a, b) = IF a >= b THEN a - b ELSE a - b + Size
         /\ ByteOf(a, b) \in Nat /\ ByteOf(a, b) < Size
<1>1. a \in Nat /\ b \in Nat /\ Size \in Nat /\ a < Size /\ b < Size
  BY SizeFacts
<1> DEFINE x == a - b + Size
<1>2. x \in Nat /\ x < 2 * Size
  BY <1>1
<1>3. x % Size = IF x < Size THEN x ELSE x - Size
  <2> HIDE DEF x
  <2> QED BY <1>1, <1>2, Wrap
<1>4. ByteOf(a, b) = IF x < Size THEN x ELSE x - Size
  BY <1>3 DEF ByteOf
<1> QED BY <1>1, <1>4

(* A record holds the header and the frame, padded to an even length.      *)
LEMMA RecordFacts ==
  ASSUME NEW c \in Nat
  PROVE  Record(c) \in Nat /\ Record(c) >= HeaderLength + c /\ Record(c) % 2 = 0
BY DEF Record, HeaderLength

(* A place so many bytes on.                                               *)
LEMMA Onward ==
  ASSUME NEW s \in Addresses, NEW n \in Nat, n < Size
  PROVE  /\ (s + n) % Size = IF s + n < Size THEN s + n ELSE s + n - Size
         /\ (s + n) % Size \in Addresses
<1>1. s \in Nat /\ Size \in Nat /\ s < Size
  BY SizeFacts
<1> DEFINE x == s + n
<1>2. x \in Nat /\ x < 2 * Size
  BY <1>1
<1> HIDE DEF x
<1>3. x % Size = IF x < Size THEN x ELSE x - Size
  BY <1>1, <1>2, Wrap
<1>4. x % Size \in Addresses
  BY <1>2, Wrap, SizeFacts
<1> QED BY <1>1, <1>3, <1>4 DEF x

(* A place so many bytes on, as seen from another.                         *)
LEMMA OnwardFrom ==
  ASSUME NEW from \in Addresses, NEW s \in Addresses, NEW n \in Nat, ByteOf(s, from) + n < Size
  PROVE  ByteOf((s + n) % Size, from) = ByteOf(s, from) + n
<1>1. /\ s \in Nat /\ from \in Nat /\ Size \in Nat /\ s < Size /\ from < Size
      /\ ByteOf(s, from) \in Nat /\ n < Size
      /\ ByteOf(s, from) = IF s >= from THEN s - from ELSE s - from + Size
  BY SizeFacts, Distance
<1> DEFINE a == (s + n) % Size
<1>2. a \in Addresses /\ a \in Nat /\ a < Size /\ a = IF s + n < Size THEN s + n ELSE s + n - Size
  BY <1>1, Onward, SizeFacts
<1> HIDE DEF a
<1>3. ByteOf(a, from) = IF a >= from THEN a - from ELSE a - from + Size
  BY <1>2, Distance
<1>4. ByteOf(a, from) = ByteOf(s, from) + n
  BY <1>1, <1>2, <1>3
<1> QED BY <1>4 DEF a

(* The same place seen from further on.                                    *)
LEMMA FurtherOn ==
  ASSUME NEW from \in Addresses, NEW w \in Addresses, NEW a \in Addresses
  PROVE  ByteOf(a, w) = IF ByteOf(a, from) >= ByteOf(w, from) THEN ByteOf(a, from) - ByteOf(w, from)
                        ELSE ByteOf(a, from) - ByteOf(w, from) + Size
<1>1. /\ a \in Nat /\ from \in Nat /\ w \in Nat /\ Size \in Nat
      /\ a < Size /\ from < Size /\ w < Size
  BY SizeFacts
<1>2. /\ ByteOf(a, w) = IF a >= w THEN a - w ELSE a - w + Size
      /\ ByteOf(a, from) = IF a >= from THEN a - from ELSE a - from + Size
      /\ ByteOf(w, from) = IF w >= from THEN w - from ELSE w - from + Size
  BY Distance
<1> QED BY <1>1, <1>2

(* Steps of an even length stay on even places.                            *)
LEMMA WrapEven ==
  ASSUME NEW s \in Addresses, NEW n \in Nat, n < Size, s % 2 = 0, n % 2 = 0
  PROVE  ((s + n) % Size) % 2 = 0
<1>1. s \in Nat /\ Size \in Nat /\ Size % 2 = 0
  BY SizeFacts, RxAssumption
<1> DEFINE a == (s + n) % Size
<1>2. a = IF s + n < Size THEN s + n ELSE s + n - Size
  BY Onward
<1> HIDE DEF a
<1>3. a % 2 = 0
  BY <1>1, <1>2
<1> QED BY <1>3 DEF a
-----------------------------------------------------------------------------
(* A frame that the chip finds room for ends before what is still needed   *)
(* begins: it never takes the last byte of the ring.                       *)
LEMMA Room ==
  ASSUME ERXWRPT \in Addresses, oldest \in Addresses, Even, ReadPointer,
         NEW n \in Nat, n <= Free
  PROVE  ByteOf(ERXWRPT, oldest) + n < Size
<1> DEFINE w == ERXWRPT
           p == oldest
           r == ERXRDPT
<1>1. /\ w \in Nat /\ p \in Nat /\ Size \in Nat /\ Stop = Size - 1 /\ w < Size /\ p < Size
      /\ w % 2 = 0 /\ p % 2 = 0 /\ Size % 2 = 0
  BY SizeFacts, RxAssumption DEF Even
<1>2. (p + Stop) % Size = IF p + Stop < Size THEN p + Stop ELSE p + Stop - Size
  <2>1. Stop \in Nat /\ Stop < Size
    BY SizeFacts
  <2> QED BY <2>1, Onward
<1>3. (r = IF p = 0 THEN Size - 1 ELSE p - 1) \/ (r = 0 /\ p = 0)
  BY <1>1, <1>2 DEF ReadPointer
<1>4. ByteOf(w, p) = IF w >= p THEN w - p ELSE w - p + Size
  BY Distance
<1>5. /\ w > r => n <= Size - 1 - (w - r)
      /\ w = r => n <= Size - 1
      /\ w < r => n <= r - w - 1
  <2>1. Free = IF w > r THEN Stop - (w - r) ELSE IF w = r THEN Stop ELSE r - w - 1
    BY <1>1, <1>3 DEF Free
  <2> QED BY <1>1, <1>3, <2>1
<1> HIDE DEF w, p, r
<1>6. ByteOf(w, p) + n < Size
  BY <1>1, <1>3, <1>4, <1>5
<1> QED BY <1>6 DEF w, p

(* Each frame starts somewhere in the ring, and so does the free space.    *)
LEMMA Starts ==
  ASSUME NEW ks, NEW from, NEW w, Linked(ks, from, w), NEW i \in 1 .. Len(ks) + 1
  PROVE  StartIn(ks, from, i) \in Addresses
<1>1. CASE i = 1
  BY <1>1 DEF Linked, StartIn
<1>2. CASE i # 1
  <2>1. i - 1 \in 1 .. Len(ks) /\ ks \in Seq(Stored)
    BY <1>2 DEF Linked
  <2>2. ks[i - 1] \in Stored
    BY <2>1
  <2> QED BY <1>2, <2>2 DEF StartIn, Stored
<1> QED BY <1>1, <1>2

(* From a place to itself is no way.                                       *)
LEMMA NoDistance == \A a \in Addresses : ByteOf(a, a) = 0
<1> TAKE a \in Addresses
<1>1. a \in Nat /\ a >= a /\ a - a = 0
  BY SizeFacts
<1> QED BY <1>1, Distance

(* A frame that was stored, and the length of its record.                  *)
LEMMA StoredRecord ==
  ASSUME NEW f \in Stored
  PROVE  /\ f.count \in Counts /\ f.count \in Nat /\ Record(f.count) \in Nat
         /\ Record(f.count) >= 10 /\ Record(f.count) >= HeaderLength + f.count
         /\ Record(f.count) % 2 = 0 /\ f # NoFrame
<1>1. f.count \in Counts /\ f.count \in Nat /\ f.count >= 4
  BY RxAssumption DEF Stored, CrcLength
<1>2. f # NoFrame
  BY <1>1 DEF NoFrame
<1>3. /\ Record(f.count) \in Nat /\ Record(f.count) >= HeaderLength + f.count
      /\ Record(f.count) % 2 = 0
  BY <1>1, RecordFacts
<1>4. Record(f.count) >= 10
  <2> DEFINE n == Record(f.count)
  <2>1. n \in Nat /\ n >= 6 + f.count
    BY <1>3 DEF HeaderLength
  <2> HIDE DEF n
  <2>2. n >= 10
    BY <1>1, <2>1
  <2> QED BY <2>2 DEF n
<1> QED BY <1>1, <1>2, <1>3, <1>4

(* The chip writes a frame behind the others.                              *)
LEMMA Arrival ==
  ASSUME NEW ks, NEW from, NEW w, NEW m, Laid(ks, from, w, m), NEW f \in Stored,
         ByteOf(w, from) + Record(f.count) < Size, f.next = (w + Record(f.count)) % Size,
         NEW m2, \A a \in Addresses : m2[a] = IF ByteOf(a, w) < Record(f.count)
                                              THEN [frame |-> f, off |-> ByteOf(a, w)] ELSE m[a]
  PROVE  Laid(Append(ks, f), from, f.next, m2)
<1> DEFINE all == Append(ks, f)
           n == Record(f.count)
           d == ByteOf(w, from)
<1>1. /\ ks \in Seq(Stored) /\ from \in Addresses /\ w \in Addresses
      /\ w = StartIn(ks, from, Len(ks) + 1)
  BY DEF Laid, Linked
<1>2. /\ all \in Seq(Stored) /\ Len(all) = Len(ks) + 1 /\ Len(ks) \in Nat
      /\ all[Len(ks) + 1] = f /\ \A i \in 1 .. Len(ks) : all[i] = ks[i]
  BY <1>1
<1> HIDE DEF all
<1>3. \A i \in 1 .. Len(ks) + 1 : StartIn(all, from, i) = StartIn(ks, from, i)
  BY <1>2 DEF StartIn
<1>4. n \in Nat /\ n < Size /\ d \in Nat /\ Size \in Nat
  BY <1>1, StoredRecord, Distance, SizeFacts
<1>5. f.next \in Addresses /\ ByteOf(f.next, from) = d + n
  <2>1. (w + n) % Size \in Addresses
    BY <1>1, <1>4, Onward
  <2>2. ByteOf((w + n) % Size, from) = d + n
    BY <1>1, <1>4, OnwardFrom
  <2> QED BY <2>1, <2>2
<1>6. Linked(all, from, f.next)
  <2>1. StartIn(all, from, Len(all) + 1) = f.next
    BY <1>2 DEF StartIn
  <2>2. \A i \in 1 .. Len(ks) : all[i].next = (StartIn(all, from, i) + Record(all[i].count)) % Size
    BY <1>2, <1>3 DEF Laid, Linked
  <2>3. all[Len(ks) + 1].next = (StartIn(all, from, Len(ks) + 1) + Record(f.count)) % Size
    BY <1>1, <1>2, <1>3
  <2> QED BY <1>1, <1>2, <1>5, <2>1, <2>2, <2>3 DEF Linked
<1>7. /\ \A i \in 1 .. Len(ks) : EndOf(all, from, i) = EndOf(ks, from, i)
      /\ EndOf(all, from, Len(ks) + 1) = d + n
  BY <1>1, <1>2, <1>3 DEF EndOf
<1>8. \A i \in 1 .. Len(ks) : EndOf(ks, from, i) \in Nat /\ EndOf(ks, from, i) <= d
  <2> TAKE i \in 1 .. Len(ks)
  <2>1. StartIn(ks, from, i) \in Addresses /\ Record(ks[i].count) \in Nat
    BY <1>1, Starts, StoredRecord DEF Laid
  <2> QED BY <1>1, <2>1, Distance DEF EndOf, Laid, Separate
<1>9. Separate(all, from, f.next)
  <2>1. ASSUME NEW i \in 1 .. Len(ks), NEW j \in i + 1 .. Len(all)
        PROVE  EndOf(all, from, i) <= ByteOf(StartIn(all, from, j), from)
    <3>1. CASE j \in 1 .. Len(ks)
      BY <1>3, <1>7, <2>1, <3>1 DEF Laid, Separate
    <3>2. CASE j = Len(ks) + 1
      BY <1>1, <1>3, <1>7, <1>8, <3>2
    <3> QED BY <1>2, <3>1, <3>2
  <2>2. \A i \in 1 .. Len(all) : EndOf(all, from, i) <= d + n
    BY <1>2, <1>4, <1>7, <1>8
  <2>3. \A j \in Len(ks) + 2 .. Len(all) : FALSE
    BY <1>2
  <2> QED BY <1>2, <1>5, <2>1, <2>2, <2>3 DEF Separate
<1>10. ASSUME NEW i \in 1 .. Len(ks), NEW k \in 0 .. Record(ks[i].count) - 1
       PROVE  m2[(StartIn(ks, from, i) + k) % Size] = [frame |-> ks[i], off |-> k]
  <2> DEFINE s == StartIn(ks, from, i)
             a == (s + k) % Size
  <2>1. s \in Addresses /\ Record(ks[i].count) \in Nat /\ EndOf(ks, from, i) <= d
    BY <1>1, <1>8, Starts, StoredRecord DEF Laid
  <2>2. ByteOf(s, from) \in Nat /\ ByteOf(s, from) + k < d /\ k \in Nat
    BY <1>1, <1>4, <2>1, Distance DEF EndOf
  <2> HIDE DEF s
  <2>3. a \in Addresses /\ ByteOf(a, from) = ByteOf(s, from) + k
    BY <1>1, <1>4, <2>1, <2>2, Onward, OnwardFrom
  <2> HIDE DEF a
  <2>4. ByteOf(a, w) = ByteOf(a, from) - d + Size
    <3>1. ~(ByteOf(a, from) >= d)
      BY <1>4, <2>2, <2>3
    <3> QED BY <1>1, <2>3, <3>1, FurtherOn
  <2>5. ~(ByteOf(a, w) < n)
    BY <1>4, <2>2, <2>3, <2>4
  <2>6. m2[a] = m[a]
    BY <2>3, <2>5
  <2> QED BY <2>6 DEF a, s, Laid, Holds
<1>11. ASSUME NEW k \in 0 .. n - 1 PROVE m2[(w + k) % Size] = [frame |-> f, off |-> k]
  <2>1. k \in Nat /\ k < n /\ k < Size /\ ByteOf(w, w) = 0
    BY <1>1, <1>4, NoDistance
  <2>2. (w + k) % Size \in Addresses
    BY <1>1, <2>1, Onward
  <2>3. ByteOf((w + k) % Size, w) = ByteOf(w, w) + k
    BY <1>1, <1>4, <2>1, OnwardFrom
  <2>4. ByteOf((w + k) % Size, w) = k
    BY <2>1, <2>3
  <2> QED BY <2>1, <2>2, <2>4
<1>12. Holds(all, from, m2)
  BY <1>1, <1>2, <1>3, <1>10, <1>11 DEF Holds
<1> QED BY <1>6, <1>9, <1>12 DEF Laid, all

(* The oldest frame is given back.                                         *)
LEMMA GivenBack ==
  ASSUME NEW ks, NEW from, NEW w, NEW m, Laid(ks, from, w, m), ks # << >>
  PROVE  Laid(Tail(ks), ks[1].next, w, m)
<1> DEFINE rest == Tail(ks)
           p == ks[1].next
           n == Record(ks[1].count)
<1>1. /\ ks \in Seq(Stored) /\ from \in Addresses /\ w \in Addresses
      /\ w = StartIn(ks, from, Len(ks) + 1)
  BY DEF Laid, Linked
<1>2. /\ rest \in Seq(Stored) /\ Len(ks) \in Nat \ {0} /\ Len(rest) = Len(ks) - 1
      /\ \A i \in 1 .. Len(rest) : rest[i] = ks[i + 1] /\ i + 1 \in 2 .. Len(ks)
  BY <1>1
<1> HIDE DEF rest
<1>3. p \in Addresses /\ n \in Nat /\ Size \in Nat
  <2>1. ks[1] \in Stored
    BY <1>1, <1>2
  <2> QED BY <2>1, StoredRecord, SizeFacts DEF Stored
<1>4. \A i \in 1 .. Len(rest) + 1 : StartIn(rest, p, i) = StartIn(ks, from, i + 1)
  BY <1>2 DEF StartIn
<1>5. ByteOf(p, from) = n /\ n <= ByteOf(w, from)
  <2>1. StartIn(ks, from, 1) = from /\ ByteOf(from, from) = 0
    BY <1>1, NoDistance DEF StartIn
  <2>2. p = (from + n) % Size /\ EndOf(ks, from, 1) = n /\ n <= ByteOf(w, from)
    BY <1>2, <1>3, <2>1 DEF Laid, Linked, Separate, EndOf
  <2>3. n < Size /\ ByteOf(w, from) \in Nat
    BY <1>1, <1>3, <2>2, Distance
  <2>4. ByteOf((from + n) % Size, from) = ByteOf(from, from) + n
    BY <1>1, <1>3, <2>1, <2>3, OnwardFrom
  <2> QED BY <1>3, <2>1, <2>2, <2>4
<1>6. Linked(rest, p, w)
  <2>1. w = StartIn(rest, p, Len(rest) + 1)
    BY <1>1, <1>2, <1>4
  <2>2. \A i \in 1 .. Len(rest) :
          rest[i].next = (StartIn(rest, p, i) + Record(rest[i].count)) % Size
    BY <1>2, <1>4 DEF Laid, Linked
  <2> QED BY <1>1, <1>2, <1>3, <2>1, <2>2 DEF Linked
<1>7. \A i \in 2 .. Len(ks) : /\ n <= ByteOf(StartIn(ks, from, i), from)
                             /\ StartIn(ks, from, i) \in Addresses
                             /\ Record(ks[i].count) \in Nat
  <2> TAKE i \in 2 .. Len(ks)
  <2>1. EndOf(ks, from, 1) = n
    BY <1>1, <1>3, NoDistance DEF EndOf, StartIn
  <2>2. 1 \in 1 .. Len(ks) /\ i \in 1 + 1 .. Len(ks) /\ i \in 1 .. Len(ks) + 1 /\ ks[i] \in Stored
    BY <1>1, <1>2
  <2>3. EndOf(ks, from, 1) <= ByteOf(StartIn(ks, from, i), from)
    BY <2>2 DEF Laid, Separate
  <2> QED BY <2>1, <2>2, <2>3, Starts, StoredRecord DEF Laid
<1>8. /\ ByteOf(w, p) = ByteOf(w, from) - n
      /\ \A i \in 2 .. Len(ks) :
           /\ ByteOf(StartIn(ks, from, i), p) = ByteOf(StartIn(ks, from, i), from) - n
           /\ ByteOf(StartIn(ks, from, i), from) \in Nat
  BY <1>1, <1>3, <1>5, <1>7, FurtherOn, Distance
<1>9. /\ ByteOf(w, from) \in Nat
      /\ \A i \in 1 .. Len(rest) : EndOf(rest, p, i) = EndOf(ks, from, i + 1) - n
      /\ \A i \in 2 .. Len(ks) : EndOf(ks, from, i) \in Nat
  <2>1. ASSUME NEW i \in 1 .. Len(rest) PROVE EndOf(rest, p, i) = EndOf(ks, from, i + 1) - n
    BY <1>2, <1>3, <1>4, <1>7, <1>8 DEF EndOf
  <2>2. ASSUME NEW i \in 2 .. Len(ks) PROVE EndOf(ks, from, i) \in Nat
    BY <1>7, <1>8 DEF EndOf
  <2> QED BY <1>1, <2>1, <2>2, Distance
<1>10. Separate(rest, p, w)
  <2>1. ASSUME NEW i \in 1 .. Len(rest) PROVE EndOf(rest, p, i) <= ByteOf(w, p)
    <3>1. i + 1 \in 2 .. Len(ks) /\ EndOf(ks, from, i + 1) <= ByteOf(w, from)
      BY <1>2 DEF Laid, Separate
    <3> QED BY <1>3, <1>8, <1>9, <3>1
  <2>2. ASSUME NEW i \in 1 .. Len(rest), NEW j \in i + 1 .. Len(rest)
        PROVE  EndOf(rest, p, i) <= ByteOf(StartIn(rest, p, j), p)
    <3>1. i + 1 \in 2 .. Len(ks) /\ j + 1 \in (i + 1) + 1 .. Len(ks) /\ j + 1 \in 2 .. Len(ks)
      BY <1>2
    <3>2. EndOf(ks, from, i + 1) <= ByteOf(StartIn(ks, from, j + 1), from)
      BY <3>1 DEF Laid, Separate
    <3>3. StartIn(rest, p, j) = StartIn(ks, from, j + 1)
      BY <1>2, <1>4, <2>2
    <3> QED BY <1>3, <1>8, <1>9, <3>1, <3>2, <3>3
  <2> QED BY <2>1, <2>2 DEF Separate
<1>11. Holds(rest, p, m)
  BY <1>2, <1>4 DEF Laid, Holds
<1> QED BY <1>6, <1>10, <1>11 DEF Laid, rest
-----------------------------------------------------------------------------
(* The packet being read in front of the frames to come.                   *)
LEMMA InFront ==
  ASSUME NEW S, NEW e \in S, NEW s \in Seq(S)
  PROVE  /\ <<e>> \o s \in Seq(S) /\ <<e>> \o s # << >> /\ (<<e>> \o s)[1] = e
         /\ Tail(<<e>> \o s) = s
         /\ \A f \in S : <<e>> \o Append(s, f) = Append(<<e>> \o s, f)
<1> DEFINE t == <<e>> \o s
<1>1. <<e>> \in Seq(S) /\ Len(<<e>>) = 1 /\ <<e>>[1] = e /\ Len(s) \in Nat
  OBVIOUS
<1>2. /\ t \in Seq(S) /\ Len(t) = 1 + Len(s)
      /\ \A i \in 1 .. 1 + Len(s) : t[i] = IF i <= 1 THEN <<e>>[i] ELSE s[i - 1]
  BY <1>1, ConcatProperties
<1> HIDE DEF t
<1>3. t # << >> /\ t[1] = e
  BY <1>1, <1>2
<1>4. Tail(t) = s
  <2>1. /\ Tail(t) \in Seq(S) /\ Len(Tail(t)) = Len(s)
        /\ \A i \in 1 .. Len(s) : Tail(t)[i] = t[i + 1]
    BY <1>1, <1>2, <1>3, HeadTailProperties
  <2>2. \A i \in 1 .. Len(s) : Tail(t)[i] = s[i]
    BY <1>1, <1>2, <2>1
  <2> QED BY <2>1, <2>2, SeqEqual
<1>5. ASSUME NEW f \in S PROVE <<e>> \o Append(s, f) = Append(t, f)
  <2>1. <<e>> \o (s \o <<f>>) = t \o <<f>>
    BY <1>1, ConcatAssociative DEF t
  <2> QED BY <1>2, <2>1, AppendIsConcat
<1> QED BY <1>2, <1>3, <1>4, <1>5 DEF t

(* A sequence is its head in front of its tail.                            *)
LEMMA HeadInFront ==
  ASSUME NEW S, NEW s \in Seq(S), s # << >>
  PROVE  <<Head(s)>> \o Tail(s) = s
<1> DEFINE t == <<Head(s)>> \o Tail(s)
<1>1. /\ Head(s) \in S /\ Tail(s) \in Seq(S) /\ Len(Tail(s)) = Len(s) - 1
      /\ \A i \in 1 .. Len(Tail(s)) : Tail(s)[i] = s[i + 1]
      /\ Len(s) \in Nat \ {0} /\ Head(s) = s[1]
  BY HeadTailProperties
<1>2. <<Head(s)>> \in Seq(S) /\ Len(<<Head(s)>>) = 1 /\ <<Head(s)>>[1] = Head(s)
  BY <1>1
<1>3. /\ t \in Seq(S) /\ Len(t) = 1 + Len(Tail(s))
      /\ \A i \in 1 .. 1 + Len(Tail(s)) : t[i] = IF i <= 1 THEN <<Head(s)>>[i] ELSE Tail(s)[i - 1]
  BY <1>1, <1>2, ConcatProperties
<1> HIDE DEF t
<1>4. Len(t) = Len(s) /\ \A i \in 1 .. Len(s) : t[i] = s[i]
  BY <1>1, <1>2, <1>3
<1>5. t = s
  BY <1>3, <1>4, SeqEqual
<1> QED BY <1>5 DEF t

-----------------------------------------------------------------------------
(* What is known of the frames while they are kept.                        *)
LEMMA KeptFacts ==
  ASSUME RingInv
  PROVE  /\ fifo \in Seq(Stored) /\ kept \in Seq(Stored) /\ oldest \in Addresses
         /\ current # NoFrame => current \in Stored
<1>1. current # NoFrame => current \in Stored
  BY DEF RingInv, TypeOK, Frames, Stored
<1>2. kept \in Seq(Stored) /\ oldest \in Addresses
  BY DEF RingInv, Laid, Linked
<1>3. fifo \in Seq(Stored)
  <2>1. CASE pc = "idle" /\ current # NoFrame
    <3> DEFINE fs == Frames
    <3>1. fifo \in Seq(fs) /\ current \in fs
      BY DEF RingInv, TypeOK
    <3> HIDE DEF fs
    <3>2. kept = <<current>> \o fifo
      BY <2>1 DEF kept
    <3>3. Tail(kept) = fifo /\ kept # << >>
      BY <3>1, <3>2, InFront
    <3> QED BY <1>2, <3>3, HeadTailProperties
  <2>2. CASE ~(pc = "idle" /\ current # NoFrame)
    BY <1>2, <2>2 DEF kept
  <2> QED BY <2>1, <2>2
<1> QED BY <1>1, <1>2, <1>3

(* What packetReceive copies is within the frame and within the buffer.    *)
LEMMA CopiedLength ==
  ASSUME NEW f \in Stored
  PROVE  /\ DataLength(f) \in Nat /\ DataLength(f) <= f.count - CrcLength
         /\ DataLength(f) < BufferSize
<1> DEFINE len == Uint16(f.count - CrcLength)
<1>1. /\ f.count \in Nat /\ f.count - CrcLength \in Nat /\ BufferSize \in Nat \ {0}
      /\ f.ok \in BOOLEAN
  <2>1. f.count \in Counts /\ f.ok \in BOOLEAN
    BY DEF Stored
  <2>2. f.count \in Nat /\ f.count >= 4 /\ BufferSize \in Nat \ {0}
    BY <2>1, RxAssumption DEF CrcLength
  <2> QED BY <2>1, <2>2 DEF CrcLength
<1>2. len \in Nat /\ len <= f.count - CrcLength
  BY <1>1 DEF Uint16
<1>3. CASE ~f.ok
  <2>1. DataLength(f) = 0
    BY <1>1, <1>2, <1>3 DEF DataLength
  <2> QED BY <1>1, <2>1
<1>4. CASE f.ok /\ len > BufferSize - 1
  <2>1. DataLength(f) = BufferSize - 1
    BY <1>4 DEF DataLength
  <2> HIDE DEF len
  <2> QED BY <1>1, <1>2, <1>4, <2>1
<1>5. CASE f.ok /\ ~(len > BufferSize - 1)
  <2>1. DataLength(f) = len
    BY <1>5 DEF DataLength
  <2> HIDE DEF len
  <2> QED BY <1>1, <1>2, <1>5, <2>1
<1> QED BY <1>1, <1>3, <1>4, <1>5

(* The header that packetReceive reads, and the bytes it copies.           *)
LEMMA HeaderRead ==
  ASSUME RingInv, pc = "released", fifo # << >>
  PROVE  /\ HeadersAt(gNextPacketPtr) = {Head(fifo)} /\ Head(fifo) \in Stored
         /\ ReadBuf(gNextPacketPtr + HeaderLength, DataLength(Head(fifo))) =
              [i \in 1 .. DataLength(Head(fifo)) |->
                 [frame |-> Head(fifo), off |-> HeaderLength + i - 1]]
<1> DEFINE f == Head(fifo)
           g == gNextPacketPtr
           n == Record(f.count)
<1>1. /\ kept = fifo /\ oldest = g /\ g \in Addresses /\ fifo \in Seq(Stored)
      /\ 1 \in 1 .. Len(fifo) /\ f = fifo[1]
  <2>1. kept = fifo /\ oldest = g
    BY DEF RingInv, Turns, kept, oldest
  <2>2. fifo \in Seq(Stored) /\ g \in Addresses
    BY <2>1, KeptFacts
  <2> QED BY <2>1, <2>2
<1>2. /\ f \in Stored /\ n \in Nat /\ n >= 10 /\ n >= HeaderLength + f.count /\ f.count \in Nat
      /\ f.count >= 4 /\ f # NoFrame
  BY <1>1, StoredRecord, RxAssumption DEF CrcLength
<1>3. \A k \in 0 .. n - 1 : mem[(g + k) % Size] = [frame |-> f, off |-> k]
  BY <1>1 DEF RingInv, Laid, Holds, StartIn
<1> HIDE DEF f
<1>4. mem[g] = [frame |-> f, off |-> 0]
  <2>0. g \in Nat /\ g < Size
    BY <1>1, SizeFacts
  <2>1. g + 0 = g /\ g % Size = g
    BY <2>0, Wrap
  <2> QED BY <1>2, <1>3, <2>1
<1>5. HeadersAt(g) = {f}
  BY <1>2, <1>4 DEF HeadersAt
<1>6. DataLength(f) \in Nat /\ DataLength(f) <= f.count - CrcLength /\ DataLength(f) < BufferSize
  BY <1>2, CopiedLength
<1>7. ASSUME NEW i \in 1 .. DataLength(f)
      PROVE  mem[(g + HeaderLength + i - 1) % Size] = [frame |-> f, off |-> HeaderLength + i - 1]
  <2>1. HeaderLength + i - 1 \in 0 .. n - 1
    BY <1>2, <1>6 DEF HeaderLength, CrcLength
  <2>2. g + (HeaderLength + i - 1) = g + HeaderLength + i - 1
    BY <1>1, <1>6, SizeFacts DEF HeaderLength
  <2> QED BY <1>3, <2>1, <2>2
<1>8. ReadBuf(g + HeaderLength, DataLength(f)) =
        [i \in 1 .. DataLength(f) |-> [frame |-> f, off |-> HeaderLength + i - 1]]
  BY <1>7 DEF ReadBuf
<1> QED BY <1>2, <1>5, <1>8 DEF f
-----------------------------------------------------------------------------
(* An empty ring.                                                          *)
LEMMA InvInit == Init => RingInv
<1> SUFFICES ASSUME Init PROVE RingInv
  OBVIOUS
<1>1. /\ kept = << >> /\ oldest = 0 /\ ERXWRPT = 0 /\ ERXRDPT = 0
      /\ ~unreleasedPacket /\ current = NoFrame /\ pc = "idle"
  BY DEF Init, kept, oldest
<1>2. 0 \in Addresses /\ 0 \in Ids /\ Len(<< >>) = 0 /\ 0 < BufferSize
  BY SizeFacts, RxAssumption DEF Ids
<1>3. TypeOK
  <2>1. NoFrame \in Frames /\ [frame |-> NoFrame, off |-> 0] \in Cells
    BY DEF Frames, Cells
  <2>2. Blank \in [Addresses -> Cells]
    BY <2>1 DEF Blank
  <2> QED BY <1>2, <2>1, <2>2 DEF Init, TypeOK
<1>4. Laid(<< >>, 0, 0, mem)
  BY <1>2 DEF Laid, Linked, Separate, Holds, StartIn
<1>5. Turns /\ BufferFilled /\ Even /\ ReadPointer
  BY <1>1 DEF Turns, BufferFilled, Even, ReadPointer
<1> QED BY <1>1, <1>3, <1>4, <1>5 DEF RingInv

(* A frame arrives: the chip's pointers never let it reach what is kept.   *)
LEMMA ArrivalStep ==
  ASSUME RingInv, NEW c \in Counts, NEW ok \in BOOLEAN, FrameArrives(c, ok)
  PROVE  RingInv'
<1> DEFINE f == [id |-> arrivals, count |-> c, ok |-> ok, next |-> (ERXWRPT + Record(c)) % Size]
<1>1. /\ UNCHANGED <<ERXRDPT, rxen, driver>> /\ Record(c) <= Free
      /\ fifo' = Append(fifo, f) /\ ERXWRPT' = f.next /\ arrivals' = (arrivals + 1) % NumIds
      /\ mem' = [a \in Addresses |-> IF ByteOf(a, ERXWRPT) < Record(c)
                                     THEN [frame |-> f, off |-> ByteOf(a, ERXWRPT)] ELSE mem[a]]
  BY DEF FrameArrives, Fits
<1>2. c \in Nat /\ Record(c) \in Nat /\ Record(c) % 2 = 0
  BY RxAssumption, RecordFacts
<1>3. /\ fifo \in Seq(Stored) /\ kept \in Seq(Stored) /\ oldest \in Addresses
      /\ ERXWRPT \in Addresses
  BY KeptFacts DEF RingInv, TypeOK
<1>4. ByteOf(ERXWRPT, oldest) + Record(c) < Size /\ Record(c) < Size
  <2>1. ByteOf(ERXWRPT, oldest) + Record(c) < Size
    BY <1>1, <1>2, <1>3, Room DEF RingInv
  <2>2. ByteOf(ERXWRPT, oldest) \in Nat /\ Size \in Nat
    BY <1>3, Distance, SizeFacts
  <2> QED BY <1>2, <2>1, <2>2
<1>5. f \in Stored /\ f \in Frames /\ f.count = c /\ f.next = (ERXWRPT + Record(c)) % Size
      /\ f.next \in Addresses
  <2>1. (ERXWRPT + Record(c)) % Size \in Addresses
    BY <1>2, <1>3, <1>4, Onward
  <2>2. arrivals \in Ids
    BY DEF RingInv, TypeOK
  <2> QED BY <2>1, <2>2 DEF Stored, Frames
<1> HIDE DEF f
<1>6. \A a \in Addresses : mem'[a] = IF ByteOf(a, ERXWRPT) < Record(f.count)
                                     THEN [frame |-> f, off |-> ByteOf(a, ERXWRPT)] ELSE mem[a]
  BY <1>1, <1>5
<1>7. /\ kept' = Append(kept, f) /\ oldest' = oldest
      /\ UNCHANGED <<gNextPacketPtr, unreleasedPacket, pc, buffer, current, currentStart>>
  <2>1. UNCHANGED <<gNextPacketPtr, unreleasedPacket, pc, buffer, current, currentStart>>
    BY <1>1 DEF driver
  <2>2. kept' = Append(kept, f)
    <3>1. CASE pc = "idle" /\ current # NoFrame
      <4>0. current \in Stored
        BY <3>1, KeptFacts
      <4>1. <<current>> \o Append(fifo, f) = Append(<<current>> \o fifo, f)
        BY <1>3, <1>5, <4>0, InFront
      <4> QED BY <1>1, <2>1, <3>1, <4>1 DEF kept
    <3>2. CASE ~(pc = "idle" /\ current # NoFrame)
      BY <1>1, <2>1, <3>2 DEF kept
    <3> QED BY <3>1, <3>2
  <2> QED BY <2>1, <2>2 DEF oldest
<1>8. Laid(Append(kept, f), oldest, f.next, mem')
  <2>1. Laid(kept, oldest, ERXWRPT, mem)
    BY DEF RingInv
  <2> QED BY <1>4, <1>5, <1>6, <2>1, Arrival
<1>9. TypeOK'
  <2>1. \A a \in Addresses : ByteOf(a, ERXWRPT) \in Nat
    BY <1>3, Distance
  <2>2. mem' \in [Addresses -> Cells]
    BY <1>1, <1>5, <2>1 DEF RingInv, TypeOK, Cells
  <2>3. fifo' \in Seq(Frames)
    BY <1>1, <1>5 DEF RingInv, TypeOK
  <2>4. arrivals' \in Ids
    BY <1>1, RxAssumption DEF RingInv, TypeOK, Ids
  <2> QED BY <1>1, <1>5, <1>7, <2>2, <2>3, <2>4 DEF RingInv, TypeOK
<1>10. Turns'
  <2>1. pc = "copied" => fifo' # << >> /\ Head(fifo') = Head(fifo)
    <3>1. Len(fifo) \in Nat /\ (pc = "copied" => Len(fifo) > 0)
      BY <1>3 DEF RingInv, Turns
    <3> QED BY <1>1, <1>3, <1>5, <3>1, AppendProperties
  <2> QED BY <1>7, <2>1 DEF RingInv, Turns
<1>11. BufferFilled' /\ ReadPointer'
  BY <1>1, <1>7 DEF RingInv, BufferFilled, ReadPointer
<1>12. Even'
  BY <1>1, <1>2, <1>3, <1>4, <1>5, <1>7, WrapEven DEF RingInv, Even
<1> QED BY <1>1, <1>7, <1>8, <1>9, <1>10, <1>11, <1>12 DEF RingInv
(* The frame read last is given back: the next one becomes the oldest.     *)
LEMMA ReleaseStep == ASSUME RingInv, PacketReceive PROVE RingInv'
<1>1. /\ pc = "idle" /\ pc' = "released" /\ current' = NoFrame
      /\ unreleasedPacket' = FALSE
      /\ ERXRDPT' = IF current # NoFrame THEN ReleasePoint ELSE ERXRDPT
      /\ UNCHANGED <<chip, rxen, gNextPacketPtr, buffer, currentStart>>
  BY DEF PacketReceive, RingInv, Turns
<1>2. /\ fifo \in Seq(Stored) /\ kept \in Seq(Stored) /\ oldest \in Addresses
      /\ kept' = fifo /\ oldest' = gNextPacketPtr /\ gNextPacketPtr \in Addresses
  BY <1>1, KeptFacts DEF chip, kept, oldest, RingInv, TypeOK
<1>3. Laid(fifo, gNextPacketPtr, ERXWRPT, mem) /\ gNextPacketPtr % 2 = 0
  <2>1. CASE current = NoFrame
    BY <2>1 DEF RingInv, kept, oldest, Even
  <2>2. CASE current # NoFrame
    <3>1. /\ kept = <<current>> \o fifo /\ oldest = currentStart /\ gNextPacketPtr = current.next
          /\ current \in Stored
      BY <1>1, <2>2, KeptFacts DEF kept, oldest, RingInv, Turns
    <3>2. kept # << >> /\ kept[1] = current /\ Tail(kept) = fifo
      BY <1>2, <3>1, InFront
    <3>3. Laid(fifo, gNextPacketPtr, ERXWRPT, mem)
      BY <3>1, <3>2, GivenBack DEF RingInv
    <3>4. current.next = (currentStart + Record(current.count)) % Size /\ 1 \in 1 .. Len(kept)
      BY <1>2, <3>1, <3>2 DEF RingInv, Laid, Linked, StartIn
    <3>5. /\ Record(current.count) < Size /\ Record(current.count) \in Nat
          /\ Record(current.count) % 2 = 0
      <4>1. Record(current.count) \in Nat /\ Record(current.count) % 2 = 0
        BY <3>1, StoredRecord
      <4>2. /\ ByteOf(currentStart, currentStart) = 0 /\ ByteOf(ERXWRPT, currentStart) < Size
            /\ ByteOf(ERXWRPT, currentStart) \in Nat /\ Size \in Nat
        BY <1>2, <3>1, NoDistance, Distance, SizeFacts DEF RingInv, TypeOK
      <4>3. ByteOf(currentStart, currentStart) + Record(current.count)
              <= ByteOf(ERXWRPT, currentStart)
        BY <3>1, <3>2, <3>4 DEF RingInv, Laid, Separate, EndOf, StartIn
      <4> QED BY <4>1, <4>2, <4>3
    <3>6. gNextPacketPtr % 2 = 0
      BY <1>2, <3>1, <3>4, <3>5, WrapEven DEF RingInv, Even
    <3> QED BY <3>3, <3>6
  <2> QED BY <2>1, <2>2
<1>4. ReadPointer'
  <2>1. CASE current = NoFrame
    BY <1>1, <1>2, <2>1 DEF RingInv, ReadPointer, oldest
  <2>2. CASE current # NoFrame
    <3>1. /\ gNextPacketPtr \in Nat /\ gNextPacketPtr < Size
          /\ Stop \in Nat /\ Stop < Size /\ Size = Stop + 1
      BY <1>2, SizeFacts
    <3>2. (gNextPacketPtr + Stop) % Size =
            IF gNextPacketPtr + Stop < Size THEN gNextPacketPtr + Stop
            ELSE gNextPacketPtr + Stop - Size
      BY <1>2, <3>1, Onward
    <3>3. ReleasePoint = (gNextPacketPtr + Stop) % Size
      BY <3>1, <3>2 DEF ReleasePoint
    <3> QED BY <1>1, <1>2, <2>2, <3>3 DEF ReadPointer
  <2> QED BY <2>1, <2>2
<1>5. TypeOK'
  <2>1. ERXRDPT' \in Addresses
    <3>1. Stop \in Addresses /\ (gNextPacketPtr # 0 => gNextPacketPtr - 1 \in Addresses)
      BY <1>2, SizeFacts
    <3> QED BY <1>1, <3>1 DEF ReleasePoint, RingInv, TypeOK
  <2>2. NoFrame \in Frames
    BY DEF Frames
  <2>3. pc' \in {"idle", "released", "copied"} /\ unreleasedPacket' \in BOOLEAN
    BY <1>1
  <2>4. current' \in Frames /\ currentStart' \in Addresses
    BY <1>1, <2>2 DEF RingInv, TypeOK
  <2>5. buffer' \in Seq(Cells) /\ Len(buffer') < BufferSize
    BY <1>1 DEF RingInv, TypeOK
  <2>6. /\ mem' \in [Addresses -> Cells] /\ fifo' \in Seq(Frames) /\ ERXWRPT' \in Addresses
        /\ rxen' \in BOOLEAN /\ arrivals' \in Ids /\ gNextPacketPtr' \in Addresses
    BY <1>1 DEF RingInv, TypeOK, chip
  <2> QED BY <2>1, <2>3, <2>4, <2>5, <2>6 DEF TypeOK
<1>6. Turns' /\ BufferFilled' /\ Even'
  BY <1>1, <1>2, <1>3 DEF Turns, BufferFilled, Even, RingInv, chip
<1> QED BY <1>1, <1>2, <1>3, <1>4, <1>5, <1>6 DEF RingInv, chip

(* A frame is copied: it stays the oldest one.                             *)
LEMMA CopyStep == ASSUME RingInv, CopyPacket PROVE RingInv'
<1> DEFINE f == Head(fifo)
<1>1. /\ pc = "released" /\ fifo # << >> /\ pc' = "copied" /\ unreleasedPacket' = TRUE
      /\ current' = f /\ currentStart' = gNextPacketPtr /\ UNCHANGED <<chip, ERXRDPT, rxen>>
      /\ current = NoFrame
  BY DEF CopyPacket, RingInv, Turns
<1>2. /\ gNextPacketPtr' = f.next /\ f \in Stored
      /\ buffer' = [i \in 1 .. DataLength(f) |-> [frame |-> f, off |-> HeaderLength + i - 1]]
  BY <1>1, HeaderRead DEF CopyPacket
<1>3. f # NoFrame /\ f \in Frames /\ f.next \in Addresses
  BY <1>2, StoredRecord DEF Stored, Frames
<1>4. kept' = kept /\ oldest' = oldest
  BY <1>1, <1>3 DEF kept, oldest, chip
<1>5. buffer' \in Seq(Cells) /\ Len(buffer') < BufferSize
  <2>1. DataLength(f) \in Nat /\ DataLength(f) < BufferSize
    BY <1>2, CopiedLength
  <2>2. \A i \in 1 .. DataLength(f) : [frame |-> f, off |-> HeaderLength + i - 1] \in Cells
    BY <1>3, <2>1 DEF Cells, HeaderLength
  <2> HIDE DEF f
  <2> QED BY <1>2, <2>1, <2>2
<1>6. TypeOK'
  BY <1>1, <1>2, <1>3, <1>5 DEF RingInv, TypeOK, chip
<1>7. Turns'
  BY <1>1, <1>2, <1>3 DEF Turns, chip
<1>8. BufferFilled' /\ Even' /\ ReadPointer'
  BY <1>1, <1>2, <1>4 DEF RingInv, BufferFilled, Even, ReadPointer, chip
<1> QED BY <1>1, <1>4, <1>6, <1>7, <1>8 DEF RingInv, chip

(* The chip counts the frame off: the sketch has it still.                 *)
LEMMA CountStep == ASSUME RingInv, CountOff PROVE RingInv'
<1>1. /\ pc = "copied" /\ pc' = "idle" /\ fifo' = Tail(fifo) /\ fifo # << >> /\ current = Head(fifo)
      /\ UNCHANGED <<mem, ERXWRPT, arrivals, ERXRDPT, rxen, gNextPacketPtr, unreleasedPacket,
                     buffer, current, currentStart>>
  BY DEF CountOff, RingInv, Turns
<1>2. fifo \in Seq(Stored) /\ Head(fifo) \in Stored /\ current # NoFrame
  BY <1>1, KeptFacts, HeadTailProperties, StoredRecord
<1>3. kept' = kept /\ oldest' = oldest
  BY <1>1, <1>2, HeadInFront DEF kept, oldest
<1>4. TypeOK'
  <2>1. Tail(fifo) \in Seq(Frames)
    <3> DEFINE fs == Frames
    <3>1. fifo \in Seq(fs)
      BY DEF RingInv, TypeOK
    <3> HIDE DEF fs
    <3>2. Tail(fifo) \in Seq(fs)
      BY <1>1, <3>1, HeadTailProperties
    <3> QED BY <3>2 DEF fs
  <2> QED BY <1>1, <2>1 DEF RingInv, TypeOK
<1>5. Turns' /\ BufferFilled' /\ Even' /\ ReadPointer'
  BY <1>1, <1>2, <1>3 DEF RingInv, Turns, BufferFilled, Even, ReadPointer
<1> QED BY <1>1, <1>3, <1>4, <1>5 DEF RingInv

(* Every step of the chip, of packetReceive and of the sketch.             *)
LEMMA InvStep == RingInv /\ [Next]_vars => RingInv'
<1> SUFFICES ASSUME RingInv, [Next]_vars PROVE RingInv'
  OBVIOUS
(* Nothing that matters here changes but pc, and that between idle and     *)
(* released with no packet in hand.                                        *)
<1>1. ASSUME UNCHANGED <<chip, ERXRDPT, gNextPacketPtr, unreleasedPacket, current, currentStart>>,
             rxen' \in BOOLEAN,
             \/ pc' = pc /\ buffer' = buffer
             \/ pc' = "idle" /\ current = NoFrame /\ buffer' = << >>
      PROVE  RingInv'
  <2>1. kept' = kept /\ oldest' = oldest
    BY <1>1 DEF kept, oldest, chip, RingInv, Turns
  <2>2. TypeOK'
    <3>1. << >> \in Seq(Cells) /\ Len(<< >>) = 0 /\ 0 < BufferSize
      BY RxAssumption
    <3> QED BY <1>1, <3>1 DEF chip, RingInv, TypeOK
  <2>3. Turns' /\ BufferFilled' /\ Even' /\ ReadPointer'
    BY <1>1, <2>1 DEF chip, RingInv, Turns, BufferFilled, Even, ReadPointer
  <2> QED BY <1>1, <2>1, <2>2, <2>3 DEF chip, RingInv
<1>2. CASE NothingReceived
  BY <1>1, <1>2 DEF NothingReceived, RingInv, TypeOK, Turns
<1>3. CASE PowerDown \/ PowerUp
  BY <1>1, <1>3 DEF PowerDown, PowerUp, driver
<1>4. CASE UNCHANGED vars
  BY <1>1, <1>4 DEF vars, driver, RingInv, TypeOK
<1> QED BY <1>2, <1>3, <1>4, ArrivalStep, ReleaseStep, CopyStep, CountStep DEF Next

-----------------------------------------------------------------------------
(* Every reachable state of the ring is well typed: no pointer leaves it   *)
(* and no packet overflows the sketch's buffer.                            *)
THEOREM TypeCorrect == Spec => []TypeOK
<1>1. RingInv => TypeOK
  BY DEF RingInv
<1> QED BY <1>1, InvInit, InvStep, PTL DEF Spec

(* The packet in hand lies whole where packetReceive found it.             *)
LEMMA InHand ==
  ASSUME RingInv, current # NoFrame
  PROVE  /\ current \in Stored /\ currentStart \in Addresses
         /\ Record(current.count) \in Nat /\ Record(current.count) < Size
         /\ gNextPacketPtr = (currentStart + Record(current.count)) % Size
         /\ \A k \in 0 .. Record(current.count) - 1 :
              mem[(currentStart + k) % Size] = [frame |-> current, off |-> k]
<1>1. /\ kept \in Seq(Stored) /\ fifo \in Seq(Stored) /\ current \in Stored
      /\ oldest = currentStart /\ currentStart \in Addresses
  BY KeptFacts DEF oldest
<1>2. kept # << >> /\ kept[1] = current
  <2>1. CASE pc = "idle"
    <3>1. kept = <<current>> \o fifo
      BY <2>1 DEF kept
    <3> QED BY <1>1, <3>1, InFront
  <2>2. CASE pc # "idle"
    <3>1. kept = fifo /\ fifo # << >> /\ current = Head(fifo)
      BY <2>2 DEF kept, RingInv, Turns, TypeOK
    <3> QED BY <1>1, <3>1
  <2> QED BY <2>1, <2>2
<1>3. 1 \in 1 .. Len(kept) /\ StartIn(kept, oldest, 1) = currentStart
  BY <1>1, <1>2 DEF StartIn
<1>4. current.next = (currentStart + Record(current.count)) % Size /\ gNextPacketPtr = current.next
  BY <1>2, <1>3 DEF RingInv, Laid, Linked, Turns
<1>5. \A k \in 0 .. Record(current.count) - 1 :
        mem[(currentStart + k) % Size] = [frame |-> current, off |-> k]
  BY <1>2, <1>3 DEF RingInv, Laid, Holds
<1>6. Record(current.count) \in Nat /\ Record(current.count) < Size
  <2>1. Record(current.count) \in Nat
    BY <1>1, StoredRecord
  <2>2. /\ ByteOf(currentStart, currentStart) = 0 /\ ByteOf(ERXWRPT, currentStart) < Size
        /\ ByteOf(ERXWRPT, currentStart) \in Nat /\ Size \in Nat
    BY <1>1, NoDistance, Distance, SizeFacts DEF RingInv, TypeOK
  <2>3. ByteOf(currentStart, currentStart) + Record(current.count) <= ByteOf(ERXWRPT, currentStart)
    BY <1>1, <1>2, <1>3 DEF RingInv, Laid, Separate, EndOf
  <2> QED BY <2>1, <2>2, <2>3
<1> QED BY <1>1, <1>4, <1>5, <1>6

(* packetReceive hands out every frame whole and in order, for every size  *)
(* of the ring and of the buffer, whenever frames arrive.                  *)
THEOREM FramesIntact == Spec => []ReceivedIntact
<1>1. ASSUME RingInv, pc = "copied"
      PROVE  /\ currentStart = (gNextPacketPtr + Size - Record(current.count)) % Size
             /\ current # NoFrame
  <2> DEFINE n == Record(current.count)
             s == currentStart
             g == gNextPacketPtr
  <2>1. current # NoFrame
    BY <1>1, KeptFacts, HeadTailProperties, StoredRecord DEF RingInv, Turns
  <2>2. s \in Addresses /\ n \in Nat /\ n < Size /\ g = (s + n) % Size /\ n >= 10
    BY <1>1, <2>1, InHand, StoredRecord
  <2>3. g = IF s + n < Size THEN s + n ELSE s + n - Size
    BY <2>2, Onward
  <2> HIDE DEF n, s, g
  <2>4. s \in Nat /\ Size \in Nat /\ s < Size
    BY <2>2, SizeFacts
  <2> DEFINE x == g + Size - n
  <2>5. x \in Nat /\ x < 2 * Size /\ s = IF x < Size THEN x ELSE x - Size
    BY <2>2, <2>3, <2>4
  <2> HIDE DEF x
  <2>6. x % Size = s
    BY <2>4, <2>5, Wrap
  <2> QED BY <2>1, <2>6 DEF x, n, s, g
<1>2. RingInv => ReceivedIntact
  BY <1>1 DEF RingInv, Turns, BufferFilled, ReceivedIntact
<1> QED BY <1>2, InvInit, InvStep, PTL DEF Spec

(* Until packetReceive is called again every byte of the packet stays in   *)
(* the ring where readPacketSlice looks for it.                            *)
THEOREM PacketStays == Spec => []CurrentPacketKept
<1>1. ASSUME RingInv, current # NoFrame, NEW k \in 0 .. HeaderLength + current.count - 1
      PROVE  mem[(currentStart + k) % Size] = [frame |-> current, off |-> k]
  <2>1. /\ current.count \in Nat /\ Record(current.count) >= HeaderLength + current.count
        /\ Record(current.count) \in Nat
    BY <1>1, InHand, StoredRecord
  <2>2. k \in 0 .. Record(current.count) - 1
    BY <1>1, <2>1 DEF HeaderLength
  <2> QED BY <1>1, <2>2, InHand
<1>2. RingInv => CurrentPacketKept
  BY <1>1 DEF CurrentPacketKept
<1> QED BY <1>2, InvInit, InvStep, PTL DEF Spec

(* readPacketSlice reads from the packet in hand, and as much of it as was *)
(* asked for, once packetReceive has moved ERXRDPT for the first time.     *)
THEOREM SlicesAreOfCurrent == Spec => []SliceIsOfCurrentOnceReleased
<1>1. ASSUME RingInv, ERXRDPT # 0, current # NoFrame,
             NEW maxlength \in 0 .. 3, NEW packetOffset \in 0 .. 3
      PROVE  Slices(maxlength, packetOffset) = {SliceOfCurrent(maxlength, packetOffset)}
  <2> DEFINE s == currentStart
             r == ERXRDPT
             n == Record(current.count)
             len == Least(current.count - CrcLength - packetOffset, maxlength)
  <2>1. /\ s \in Addresses /\ n \in Nat /\ n < Size /\ n >= 10 /\ current.count \in Nat
        /\ n >= HeaderLength + current.count
        /\ \A k \in 0 .. n - 1 : mem[(s + k) % Size] = [frame |-> current, off |-> k]
    BY <1>1, InHand, StoredRecord
  <2>2. s \in Nat /\ Size \in Nat /\ s < Size /\ Stop \in Nat /\ Size = Stop + 1 /\ Stop < Size
    BY <2>1, SizeFacts
  <2>3. r = IF s = 0 THEN Size - 1 ELSE s - 1
    <3>1. r = (s + Stop) % Size
      BY <1>1 DEF RingInv, ReadPointer, oldest
    <3>2. (s + Stop) % Size = IF s + Stop < Size THEN s + Stop ELSE s + Stop - Size
      BY <2>1, <2>2, Onward
    <3> QED BY <2>2, <3>1, <3>2
  <2> HIDE DEF s, r, n, len
  (* A step from ERXRDPT is one step less from the start of the packet.    *)
  <2>4. ASSUME NEW k \in Nat, k < n PROVE (r + 1 + k) % Size = (s + k) % Size
    <3>0. k < Size
      BY <2>1, <2>2, <2>4
    <3>1. (s + k) % Size = IF s + k < Size THEN s + k ELSE s + k - Size
      BY <2>1, <3>0, Onward
    <3> DEFINE x == r + 1 + k
    <3>2. x \in Nat /\ x < 2 * Size /\ (x = s + k \/ x = s + k + Size)
      BY <2>1, <2>2, <2>3, <2>4
    <3> HIDE DEF x
    <3>3. x % Size = IF x < Size THEN x ELSE x - Size
      BY <3>2, WrapOnce
    <3> QED BY <2>2, <3>1, <3>2, <3>3 DEF x
  <2>5. ASSUME NEW k \in Nat, NEW j \in Nat, k + j < n
        PROVE  (((s + k) % Size) + j) % Size = (s + k + j) % Size
    <3> DEFINE a == (s + k) % Size
    <3>0. k < Size /\ k + j < Size /\ k + j \in Nat
      BY <2>1, <2>2, <2>5
    <3>1. a = IF s + k < Size THEN s + k ELSE s + k - Size
      BY <2>1, <3>0, Onward
    <3>2. (s + (k + j)) % Size = IF s + (k + j) < Size THEN s + (k + j) ELSE s + (k + j) - Size
      BY <2>1, <3>0, Onward
    <3>3. s + (k + j) = s + k + j
      BY <2>2, <2>5
    <3> HIDE DEF a
    <3> DEFINE x == a + j
    <3>4. x \in Nat /\ x < 2 * Size /\ (x = s + k + j \/ x = s + k + j - Size)
      BY <2>1, <2>2, <2>5, <3>1
    <3> HIDE DEF x
    <3>5. x % Size = IF x < Size THEN x ELSE x - Size
      BY <3>4, WrapOnce
    <3>6. x % Size = (s + k + j) % Size
      BY <2>1, <2>2, <2>5, <3>2, <3>3, <3>4, <3>5
    <3> QED BY <3>6 DEF x, a
  <2>6. LengthsAt((r + 3) % Size) = {current.count}
    <3>1. (r + 3) % Size = (s + 2) % Size
      <4>1. r + 1 + 2 = r + 3
        BY <2>2, <2>3
      <4>2. (r + 1 + 2) % Size = (s + 2) % Size
        BY <2>1, <2>4
      <4> QED BY <4>1, <4>2
    <3>2. mem[(s + 2) % Size] = [frame |-> current, off |-> 2]
      BY <2>1
    <3> QED BY <3>1, <3>2 DEF LengthsAt
  <2>7. Slices(maxlength, packetOffset) = {ReadBuf((r + 7 + packetOffset) % Size, len)}
    BY <2>6 DEF Slices, r, len
  <2>8. (r + 7 + packetOffset) % Size = (s + (HeaderLength + packetOffset)) % Size
    <3>1. HeaderLength + packetOffset \in Nat /\ HeaderLength + packetOffset < n
      BY <2>1 DEF HeaderLength
    <3>2. r + 1 + (HeaderLength + packetOffset) = r + 7 + packetOffset
      BY <2>2, <2>3 DEF HeaderLength
    <3> QED BY <2>4, <3>1, <3>2
  <2>9. len \in Int /\ len <= current.count - CrcLength - packetOffset
    BY <2>1 DEF len, Least, CrcLength
  <2>10. ASSUME NEW i \in 1 .. len
         PROVE  mem[(((r + 7 + packetOffset) % Size) + i - 1) % Size] =
                  [frame |-> current, off |-> HeaderLength + packetOffset + i - 1]
    <3> DEFINE k == HeaderLength + packetOffset
               j == i - 1
    <3>1. k \in Nat /\ j \in Nat /\ k + j < n
      BY <2>1, <2>9 DEF HeaderLength, CrcLength
    <3>2. (((s + k) % Size) + j) % Size = (s + k + j) % Size
      BY <2>5, <3>1
    <3>3. k + j = HeaderLength + packetOffset + i - 1 /\ s + (k + j) = s + k + j
      BY <2>2, <2>9, <3>1 DEF HeaderLength
    <3>4. mem[(s + (k + j)) % Size] = [frame |-> current, off |-> k + j]
      BY <2>1, <3>1
    <3>5. (s + k) % Size \in Int /\ ((s + k) % Size) + i - 1 = ((s + k) % Size) + j
      <4>1. s + k \in Nat
        BY <2>2, <3>1
      <4>2. (s + k) % Size \in Nat
        BY <4>1, Wrap
      <4> HIDE DEF k
      <4> QED BY <2>9, <4>2
    <3> QED BY <2>8, <3>2, <3>3, <3>4, <3>5
  <2>11. ReadBuf((r + 7 + packetOffset) % Size, len) =
           [i \in 1 .. len |-> [frame |-> current, off |-> HeaderLength + packetOffset + i - 1]]
    BY <2>10 DEF ReadBuf
  <2> QED BY <2>7, <2>11 DEF SliceOfCurrent, len
<1>2. RingInv => SliceIsOfCurrentOnceReleased
  BY <1>1 DEF SliceIsOfCurrentOnceReleased, SliceIsOfCurrent
<1> QED BY <1>2, InvInit, InvStep, PTL DEF Spec
=============================================================================
