----------------------------- MODULE MCTcpClient -----------------------------
(* Instances of TcpClient for TLC: what the sketch does and how its server *)
(* behaves.                                                                *)
EXTENDS TcpClient

Setting(kinds, when, reqs) ==
  [kinds |-> kinds, when |-> when, reqs |-> reqs, persist |-> FALSE,
   parts |-> 1, short |-> {}, repeats |-> TRUE, refuses |-> FALSE]

(* browseUrl at any time, even before the last reply.                      *)
Www == [Setting({"www"}, "any", 2) EXCEPT !.refuses = TRUE]

(* tcpSend, once tcpReply has delivered the last reply.                    *)
PatientStash == Setting({"stash"}, "patient", 2)

(* A reply in three segments on a connection that persists, the second of  *)
(* which has 12 bytes or fewer.                                            *)
PersistentPage ==
  [Setting({"www"}, "any", 1) EXCEPT !.persist = TRUE, !.parts = 3,
                                     !.short = {2}, !.refuses = TRUE]

ClientSettings == {Www, PatientStash, PersistentPage}

(* EtherCard.h: up to 7 concurrent requests.                               *)
ConcurrentSettings == {[Setting({"stash"}, "any", 2) EXCEPT !.repeats = FALSE]}
=============================================================================
