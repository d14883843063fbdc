------------------------------ MODULE MCRxRing ------------------------------
(* Instances of RxRing for TLC.                                            *)
EXTENDS RxRing
=============================================================================
