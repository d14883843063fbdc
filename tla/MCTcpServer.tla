---------------------------- MODULE MCTcpServer ----------------------------
(* Two clients whose texts need every kind of encoding.  The text helpers  *)
(* and the checksum are also checked on their own, on all small inputs.    *)
EXTENDS TcpServer, TLC
Ck == INSTANCE Checksum

CONSTANTS c1, c2
TypedIn == c1 :> <<97, PlusSign, Space>> @@ c2 :> <<Ampersand>>

(* What a browser encodes and findKeyVal cuts out, urlDecode restores.     *)
Characters == {Space, Percent, Ampersand, PlusSign, EqualSign, 48, 107, 90, 250}
ShortTexts == UNION {[1 .. n -> Characters] : n \in 0 .. 3}
ASSUME TextsSurvive ==
  \A v \in ShortTexts :
    /\ FindKeyVal(Form(v), Key, 11) = UrlEncode(v)
    /\ UrlDecode(UrlEncode(v)) = v

(* parseIp reads what makeNetStr writes.                                   *)
ASSUME AddressesSurvive ==
  \A ip \in [1 .. 4 -> {0, 9, 10, 100, 255}] :
    ParseIp(MakeNetStr(ip, Dot, 10)) = [bytes |-> ip, res |-> TRUE]

(* A packet with its checksum in it adds up to all ones.                   *)
ASSUME ChecksumCompletes ==
  \A bytes \in UNION {[1 .. n -> {0, 1, 254, 255}] : n \in 1 .. 5} :
    LET sum == Ck!Sum(bytes, 0) + Ck!FillChecksum(bytes, 0)
    IN  Ck!Carried(Ck!Carried(sum)) = 65535
=============================================================================
