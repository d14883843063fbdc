---------------------------- MODULE MCUdpServer ----------------------------
(* Instances of UdpServer for TLC.                                         *)
EXTENDS UdpServer
CONSTANTS p1, p2
=============================================================================
