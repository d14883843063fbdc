----------------------------- MODULE MCEnc28j60 -----------------------------
(* The driver as it is built by default, with each of the two options of   *)
(* packetSend, and with a sketch that mixes the modes of the filter.       *)
EXTENDS Enc28j60

Build(options) ==
  [o \in {"pipelining", "retry", "mixes"} |-> o \in options]
Builds ==
  {Build({}), Build({"pipelining"}), Build({"retry"}), Build({"pipelining", "retry"}),
   Build({"mixes"})}
=============================================================================
