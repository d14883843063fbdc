----------------------------- MODULE TextStore -----------------------------
(***************************************************************************)
(* What Stash (stash.h) promises a sketch: a number of texts, each written *)
(* letter by letter and read back from its start, and one message prepared *)
(* from a text, which is sent exactly as it was when it was prepared.      *)
(***************************************************************************)
EXTENDS Naturals, Sequences

CONSTANTS Objs, Letters, Nothing

VARIABLES
  stage,     \* how far the sketch is with each stash
  text,      \* what it has written
  pos,       \* how many letters it has read back
  got,       \* what get returned last
  prepared,  \* the stash of the prepared message, or Nothing
  sent       \* the message the datafill callback wrote last

tvars == <<stage, text, pos, got, prepared, sent>>

Init ==
  /\ stage = [o \in Objs |-> "none"] /\ text = [o \in Objs |-> << >>]
  /\ pos = [o \in Objs |-> 0] /\ got = 0
  /\ prepared = Nothing /\ sent = << >>

Create(o) ==
  /\ stage[o] = "none" /\ stage' = [stage EXCEPT ![o] = "writing"]
  /\ UNCHANGED <<text, pos, got, prepared, sent>>
Put(o) ==
  /\ stage[o] = "writing" /\ Len(text[o]) < Len(Letters[o])
  /\ text' = [text EXCEPT ![o] = Append(@, Letters[o][Len(@) + 1])]
  /\ UNCHANGED <<stage, pos, got, prepared, sent>>
Save(o) ==
  /\ stage[o] = "writing" /\ stage' = [stage EXCEPT ![o] = "saved"]
  /\ UNCHANGED <<text, pos, got, prepared, sent>>
Get(o) ==
  /\ stage[o] \in {"saved", "prepared"}
  /\ IF pos[o] < Len(text[o])
     THEN got' = text[o][pos[o] + 1] /\ pos' = [pos EXCEPT ![o] = @ + 1]
     ELSE got' = 0 /\ UNCHANGED pos
  /\ UNCHANGED <<stage, text, prepared, sent>>
Open(o) ==
  /\ stage[o] \in {"saved", "prepared"} /\ pos' = [pos EXCEPT ![o] = 0]
  /\ UNCHANGED <<stage, text, got, prepared, sent>>
Prepare(o) ==
  /\ stage[o] = "saved" /\ prepared = Nothing
  /\ stage' = [stage EXCEPT ![o] = "prepared"] /\ prepared' = o
  /\ UNCHANGED <<text, pos, got, sent>>
Forget(o) ==
  /\ stage' = [stage EXCEPT ![o] = "none"]
  /\ text' = [text EXCEPT ![o] = << >>] /\ pos' = [pos EXCEPT ![o] = 0]
Fill ==
  /\ prepared # Nothing /\ sent' = text[prepared] /\ prepared' = Nothing
  /\ Forget(prepared) /\ UNCHANGED got
Release(o) ==
  /\ stage[o] = "saved" /\ Forget(o) /\ UNCHANGED <<got, prepared, sent>>

Next ==
  \/ Fill
  \/ \E o \in Objs : \/ Create(o) \/ Put(o) \/ Save(o) \/ Get(o) \/ Open(o)
                     \/ Prepare(o) \/ Release(o)
Spec == Init /\ [][Next]_tvars
=============================================================================
