------------------------------ MODULE MCStash ------------------------------
(* Instances of Stash for TLC.                                             *)
EXTENDS Stash, TLC
CONSTANTS s1, s2, s3

(* What is printed to each: s3 gets a text that fills its blocks exactly.  *)
Texts == (s1 :> <<11, 12>>) @@ (s2 :> <<21>>) @@ (s3 :> <<31, 32, 33, 34, 35, 36, 37>>)

(* Two posts written and sent in turn; one long text that is read back.    *)
TwoPosts == [objs |-> {s1, s2}, reads |-> {}]
ReadBack == [objs |-> {s3}, reads |-> {s3}]
StashSketches == {TwoPosts, ReadBack}
HurriedSketches == {[objs |-> {s1, s2}, reads |-> {s1}]}

(* The formats of messages, on all combinations of three pieces: a letter, *)
(* a dollar sign that stands for nothing, a number, a text and a stash.    *)
F == INSTANCE Formats
Pieces ==
  {[fmt |-> <<120>>, args |-> << >>], [fmt |-> <<36, 36>>, args |-> <<7>>],
   [fmt |-> <<36, 68>>, args |-> <<40960>>], [fmt |-> <<36, 70>>, args |-> << <<102, 36, 68>> >>],
   [fmt |-> <<36, 72>>, args |-> << <<115, 116>> >>]}
Messages ==
  {[fmt |-> a.fmt \o b.fmt \o c.fmt, args |-> a.args \o b.args \o c.args] :
      a \in Pieces, b \in Pieces, c \in Pieces}

(* prepare announces as many bytes as extract delivers, and segments that  *)
(* are extracted one after another make up the message.                    *)
ASSUME LengthAnnounced ==
  \A m \in Messages :
    LET len == F!PreparedLength(m.fmt, m.args)
        whole == F!Extract(m.fmt, m.args, 0, len)
    IN  /\ Len(whole) = len
        /\ \A cut \in 0 .. len :
             whole = F!Extract(m.fmt, m.args, 0, cut) \o F!Extract(m.fmt, m.args, cut, len - cut)

(* emit_p writes the decimal of a number and both digits of a byte.        *)
ASSUME NumbersEmitted ==
  F!EmitP(<<36, 68, 120, 36, 76, 36, 72, 36, 36>>, <<40960, 0 - 3, 164>>)
    = <<52, 48, 57, 54, 48, 120, 45, 51, 65, 52, 36>>
=============================================================================
