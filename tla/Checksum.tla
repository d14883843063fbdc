------------------------------ MODULE Checksum ------------------------------
(***************************************************************************)
(* The Internet checksum as tcpip.cpp computes it, and the patch it        *)
(* applies to the checksum of an echo request instead of computing that of *)
(* the reply anew.                                                         *)
(***************************************************************************)
EXTENDS Integers, Sequences
LOCAL INSTANCE SequencesExt

Byte == 0 .. 255
WordOf(hi, lo) == 256 * hi + lo

(* fill_checksum: the 16-bit words of the bytes, a last odd byte in the    *)
(* high half, added up from the sum the protocol starts with.              *)
WordAt(bytes, i) == WordOf(bytes[i], IF i < Len(bytes) THEN bytes[i + 1] ELSE 0)
Sum(bytes, start) ==
  FoldLeft(LAMBDA sum, i : sum + WordAt(bytes, 2 * i - 1), start,
           [i \in 1 .. (Len(bytes) + 1) \div 2 |-> i])
(* The carries are added back in until none is left: twice is enough.      *)
Carried(sum) == (sum % 65536) + (sum \div 65536)
FillChecksum(bytes, start) == 65535 - Carried(Carried(Sum(bytes, start)))

(* Addition of checksums: a carry out of the high byte goes into the low.  *)
OnesAdd(a, b) == IF a + b > 65535 THEN a + b - 65535 ELSE a + b

(* make_echo_reply_from_request: the type changes from 8 to 0, so the      *)
(* checksum grows by 8 in its high byte.                                   *)
EchoReplyChecksum(hi, lo) ==
  WordOf((hi + 8) % 256, IF hi > 255 - 8 THEN (lo + 1) % 256 ELSE lo)
=============================================================================
