------------------------------- MODULE RxRing -------------------------------
(***************************************************************************)
(* The receive ring of enc28j60.cpp: the chip writes frames into it at any *)
(* time, packetReceive copies them out one by one, and the space of a      *)
(* frame is given back only at the next call, so that the sketch can read  *)
(* more of it with readPacketSlice.                                        *)
(*                                                                         *)
(* The chip runs in parallel with the program: a frame may arrive between  *)
(* any two register accesses of packetReceive that matter to it.  What the *)
(* chip does is external (the ENC28J60 data sheet, sections 3.2 and 7.2).  *)
(* Memory is modelled cell by cell; a cell holds a byte of a frame, known  *)
(* by the frame and its place in it.                                       *)
(***************************************************************************)
EXTENDS Integers, Sequences

CONSTANTS
  Stop,        \* RXSTOP_INIT; RXSTART_INIT is 0
  Counts,      \* byteCount of the frames that arrive, CRC included
  BufferSize,  \* bufferSize: the size of the sketch's buffer
  NumIds       \* frames are numbered modulo NumIds

Size == Stop + 1
CrcLength == 4
HeaderLength == 6

ASSUME RxAssumption ==
  /\ Stop \in Nat /\ Size % 2 = 0
  /\ Counts \subseteq Nat /\ \A c \in Counts : c >= CrcLength
  /\ BufferSize \in Nat \ {0} /\ NumIds \in Nat \ {0}

VARIABLES
  mem,               \* the chip's memory from RXSTART_INIT to RXSTOP_INIT
  ERXWRPT, ERXRDPT,  \* where the chip writes next, and how far it may go
  fifo,              \* the frames stored and not counted off; EPKTCNT is its length
  rxen,              \* ECON1_RXEN
  arrivals,          \* frames stored so far, modulo NumIds
  gNextPacketPtr, unreleasedPacket,
  pc,                \* where packetReceive is: "idle", "released" or "copied"
  buffer,            \* the cells copied into the sketch's buffer
  current,           \* the frame packetReceive returned, as the chip stored it;
                     \* NoFrame from the next call on
  currentStart       \* and where

chip == <<mem, ERXWRPT, fifo, arrivals>>
driver == <<gNextPacketPtr, unreleasedPacket, pc, buffer, current, currentStart>>
vars == <<chip, ERXRDPT, rxen, driver>>

Addresses == 0 .. Stop
Ids == 0 .. NumIds - 1
NoFrame == [id |-> 0, count |-> 0, ok |-> FALSE, next |-> 0]
Frames ==
  [id : Ids, count : Counts, ok : BOOLEAN, next : Addresses] \union {NoFrame}
Cells == [frame : Frames, off : Nat]

TypeOK ==
  /\ mem \in [Addresses -> Cells] /\ fifo \in Seq(Frames)
  /\ ERXWRPT \in Addresses /\ ERXRDPT \in Addresses
  /\ rxen \in BOOLEAN /\ arrivals \in Ids
  /\ gNextPacketPtr \in Addresses /\ unreleasedPacket \in BOOLEAN
  /\ pc \in {"idle", "released", "copied"}
  /\ buffer \in Seq(Cells) /\ Len(buffer) < BufferSize
  /\ current \in Frames /\ currentStart \in Addresses

Blank == [a \in Addresses |-> [frame |-> NoFrame, off |-> 0]]

Init ==
  /\ mem = Blank /\ fifo = << >> /\ arrivals = 0
  /\ ERXWRPT = 0 /\ ERXRDPT = 0 /\ rxen = TRUE
  /\ gNextPacketPtr = 0 /\ unreleasedPacket = FALSE /\ pc = "idle"
  /\ buffer = << >> /\ current = NoFrame /\ currentStart = 0

-----------------------------------------------------------------------------
(* External: the chip.  It stores a record of the header, the frame and    *)
(* its CRC, padded to an even length, when there is room between ERXWRPT   *)
(* and ERXRDPT, and drops the frame otherwise.                             *)
Record(count) == LET n == HeaderLength + count IN n + (n % 2)

Free ==
  CASE ERXWRPT > ERXRDPT -> Stop - (ERXWRPT - ERXRDPT)
    [] ERXWRPT = ERXRDPT -> Stop
    [] OTHER -> ERXRDPT - ERXWRPT - 1
Fits(count) == Record(count) <= Free

ByteOf(a, start) == (a - start + Size) % Size

FrameArrives(count, ok) ==
  LET f == [id |-> arrivals, count |-> count, ok |-> ok,
            next |-> (ERXWRPT + Record(count)) % Size]
  IN /\ rxen /\ Fits(count)
     /\ mem' = [a \in Addresses |->
                  IF ByteOf(a, ERXWRPT) < Record(count)
                  THEN [frame |-> f, off |-> ByteOf(a, ERXWRPT)] ELSE mem[a]]
     /\ fifo' = Append(fifo, f) /\ ERXWRPT' = f.next
     /\ arrivals' = (arrivals + 1) % NumIds
     /\ UNCHANGED <<ERXRDPT, rxen, driver>>

(* Bytes read one after the other: ERDPT wraps at the end of the ring.     *)
ReadBuf(start, n) == [i \in 1 .. n |-> mem[(start + i - 1) % Size]]

-----------------------------------------------------------------------------
(* packetReceive, first half: give back the frame of the previous call.    *)
ReleasePointShort == IF gNextPacketPtr = 0 THEN Stop ELSE gNextPacketPtr - 2
ReleasePoint == IF gNextPacketPtr = 0 THEN Stop ELSE gNextPacketPtr - 1

PacketReceiveReleasesAhead ==
  /\ pc = "idle" /\ pc' = "released"
  /\ ERXRDPT' = IF fifo = << >> THEN ERXRDPT
                ELSE (mem[gNextPacketPtr].frame.next + Stop) % Size
  /\ unreleasedPacket' = FALSE /\ current' = NoFrame
  /\ UNCHANGED <<chip, rxen, gNextPacketPtr, buffer, currentStart>>
PacketReceive ==
  /\ pc = "idle" /\ pc' = "released"
  /\ ERXRDPT' = IF unreleasedPacket THEN ReleasePoint ELSE ERXRDPT
  /\ unreleasedPacket' = FALSE /\ current' = NoFrame
  /\ UNCHANGED <<chip, rxen, gNextPacketPtr, buffer, currentStart>>

NothingReceived ==
  /\ pc = "released" /\ fifo = << >>
  /\ pc' = "idle" /\ buffer' = << >>
  /\ UNCHANGED <<chip, ERXRDPT, rxen, gNextPacketPtr, unreleasedPacket, current,
                 currentStart>>

(* Second half: the header, then as much of the frame as the buffer holds. *)
(* Where no header starts, one reads as any of Garbage.                    *)
Garbage == [id : {0}, count : Counts \union {0}, ok : BOOLEAN, next : Addresses]
HeadersAt(a) == IF mem[a].off = 0 /\ mem[a].frame # NoFrame
                THEN {mem[a].frame} ELSE Garbage

Uint16(n) == n % 65536
DataLengthUnchecked(header) ==
  IF header.ok THEN Uint16(header.count - CrcLength) ELSE 0
DataLength(header) ==
  LET len == Uint16(header.count - CrcLength)
  IN CASE ~header.ok -> 0
       [] header.ok /\ len > BufferSize - 1 -> BufferSize - 1
       [] OTHER -> len

CopyPacketEager ==
  /\ pc = "released" /\ fifo # << >> /\ pc' = "copied"
  /\ \E header \in HeadersAt(gNextPacketPtr) :
       /\ gNextPacketPtr' = header.next
       /\ buffer' = ReadBuf(gNextPacketPtr + HeaderLength, DataLength(header))
  /\ unreleasedPacket' = TRUE
  /\ current' = Head(fifo) /\ currentStart' = gNextPacketPtr
  /\ ERXRDPT' = (Head(fifo).next + Stop) % Size
  /\ UNCHANGED <<chip, rxen>>
CopyPacketNeverReleased ==
  /\ pc = "released" /\ fifo # << >> /\ pc' = "copied"
  /\ \E header \in HeadersAt(gNextPacketPtr) :
       /\ gNextPacketPtr' = header.next
       /\ buffer' = ReadBuf(gNextPacketPtr + HeaderLength, DataLength(header))
  /\ unreleasedPacket' = FALSE
  /\ current' = Head(fifo) /\ currentStart' = gNextPacketPtr
  /\ UNCHANGED <<chip, ERXRDPT, rxen>>
CopyPacket ==
  /\ pc = "released" /\ fifo # << >> /\ pc' = "copied"
  /\ \E header \in HeadersAt(gNextPacketPtr) :
       /\ gNextPacketPtr' = header.next
       /\ buffer' = ReadBuf(gNextPacketPtr + HeaderLength, DataLength(header))
  /\ unreleasedPacket' = TRUE
  /\ current' = Head(fifo) /\ currentStart' = gNextPacketPtr
  /\ UNCHANGED <<chip, ERXRDPT, rxen>>

(* ECON2_PKTDEC: the chip counts the frame off.                            *)
CountOff ==
  /\ pc = "copied" /\ pc' = "idle" /\ fifo' = Tail(fifo)
  /\ UNCHANGED <<mem, ERXWRPT, arrivals, ERXRDPT, rxen, gNextPacketPtr,
                 unreleasedPacket, buffer, current, currentStart>>

PowerDown == pc = "idle" /\ rxen /\ rxen' = FALSE /\ UNCHANGED <<chip, ERXRDPT, driver>>
PowerUp == pc = "idle" /\ ~rxen /\ rxen' = TRUE /\ UNCHANGED <<chip, ERXRDPT, driver>>

Next ==
  \/ \E c \in Counts, ok \in BOOLEAN : FrameArrives(c, ok)
  \/ PacketReceive \/ NothingReceived \/ CopyPacket \/ CountOff
  \/ PowerDown \/ PowerUp

Spec == Init /\ [][Next]_vars

(* The sketch calls packetReceive in its loop and wakes the chip up again; *)
(* on the network there is always one more frame.                          *)
Fairness ==
  /\ WF_vars(PacketReceive) /\ WF_vars(NothingReceived) /\ WF_vars(CopyPacket)
  /\ WF_vars(CountOff) /\ SF_vars(PowerUp)
  /\ \A c \in Counts : SF_vars(\E ok \in BOOLEAN : FrameArrives(c, ok))
FairSpec == Spec /\ Fairness

-----------------------------------------------------------------------------
(* readPacketSlice works from ERXRDPT alone.  The result is a set: two     *)
(* cells that are not the length field of a header read as any number.     *)
LengthsAt(a) ==
  IF mem[a].off = 2 THEN {mem[a].frame.count} ELSE 0 .. Size

Least(m, n) == IF m < n THEN m ELSE n
Slices(maxlength, packetOffset) ==
  LET left == {Least(n - CrcLength - packetOffset, maxlength) :
                 n \in LengthsAt((ERXRDPT + 3) % Size)}
  IN {ReadBuf((ERXRDPT + 7 + packetOffset) % Size, n) : n \in left}

(* What the documentation of readPacketSlice (enc28j60.h) promises.        *)
SliceOfCurrent(maxlength, packetOffset) ==
  [i \in 1 .. Least(current.count - CrcLength - packetOffset, maxlength) |->
     [frame |-> current, off |-> HeaderLength + packetOffset + i - 1]]

-----------------------------------------------------------------------------
(* packetReceive returns the frames in the order the chip stored them,     *)
(* each whole up to the size of the buffer and none of its bytes           *)
(* overwritten, however the arrivals fall between its steps.               *)
ReceivedIntact ==
  pc = "copied" =>
    /\ currentStart = (gNextPacketPtr + Size - Record(current.count)) % Size
    /\ gNextPacketPtr = current.next
    /\ buffer = [i \in 1 .. DataLength(current) |->
                   [frame |-> current, off |-> HeaderLength + i - 1]]

(* Until the next call every byte of the frame stays where it is, so that  *)
(* readPacketSlice can still get at what the buffer was too small for.     *)
CurrentPacketKept ==
  current # NoFrame =>
    \A k \in 0 .. HeaderLength + current.count - 1 :
      mem[(currentStart + k) % Size] = [frame |-> current, off |-> k]

(* readPacketSlice copies from the current packet (enc28j60.h).            *)
SliceIsOfCurrent ==
  current # NoFrame =>
    \A maxlength \in 0 .. 3, packetOffset \in 0 .. 3 :
      Slices(maxlength, packetOffset) = {SliceOfCurrent(maxlength, packetOffset)}

(* The same once the ring has been released for the first time, when       *)
(* ERXRDPT has left RXSTART_INIT.                                          *)
SliceIsOfCurrentOnceReleased == ERXRDPT # 0 => SliceIsOfCurrent

(* The ring never wedges: frames keep coming through.                      *)
FramesKeepComing == \A i \in Ids : []<>(current.id = i /\ current # NoFrame)

=============================================================================
