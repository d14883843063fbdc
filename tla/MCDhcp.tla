------------------------------- MODULE MCDhcp -------------------------------
(* Two boards that only use DHCP, or one board with any sketch.            *)
EXTENDS Dhcp
CONSTANTS b1, b2, a1
Networks == {[does |-> "plain", boards |-> {b1, b2}]} \union
            [does : SketchTypes, boards : {{b1}}]
=============================================================================
