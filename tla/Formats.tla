------------------------------ MODULE Formats ------------------------------
(***************************************************************************)
(* The formats of Stash::prepare, length and extract (stash.cpp) and of    *)
(* BufferFiller::emit_p (bufferfiller.cpp).  An argument is a number, or   *)
(* the text it points to; a stash (H) is shown by its text.                *)
(***************************************************************************)
EXTENDS WebUtil, Integers
LOCAL INSTANCE SequencesExt

Dollar == 36
DLetter == 68  ELetter == 69  FLetter == 70  HLetter == 72  LLetter == 76  SLetter == 83
TextLetters == {SLetter, FLetter, ELetter}

Wtoa(value) == Itoa(value % 65536, 10)

(* A text as far as its terminating zero.                                  *)
Terminated(text) ==
  LET shown[i \in Nat] == IF CharAt(text, i) = 0 THEN << >> ELSE <<text[i]>> \o shown[i + 1]
  IN  shown[1]

(* A format is read as a sequence of items: characters, and letters after  *)
(* a dollar sign with the number of their argument, 0 for those that use   *)
(* up none.                                                                *)
Items(fmt, taking) ==
  LET read[p \in Nat, k \in Nat] ==
        LET letter == CharAt(fmt, p + 1) IN
        CASE p > Len(fmt) -> << >>
          [] p <= Len(fmt) /\ fmt[p] # Dollar ->
               <<[is |-> "char", c |-> fmt[p], arg |-> 0]>> \o read[p + 1, k]
          [] OTHER ->
               IF letter \in taking
               THEN <<[is |-> "letter", c |-> letter, arg |-> k]>> \o read[p + 2, k + 1]
               ELSE <<[is |-> "letter", c |-> letter, arg |-> 0]>> \o read[p + 2, k]
  IN  read[1, 1]
AnyLetter == 0 .. 255

-----------------------------------------------------------------------------
(* What prepare counts and what extract sends: a stash by its size, but    *)
(* only as far as a zero in it; nothing for a letter it does not know.     *)
Argument(letter, arg) ==
  CASE letter = DLetter -> Wtoa(arg)
    [] letter \in TextLetters -> Terminated(arg)
    [] OTHER -> << >>
Counted(letter, arg) == IF letter = HLetter THEN arg ELSE Argument(letter, arg)
Extracted(letter, arg) == IF letter = HLetter THEN Terminated(arg) ELSE Argument(letter, arg)

(* prepare starts with the length of the format, and for each argument     *)
(* adds its own and takes away that of its two letters.                    *)
PreparedLength(fmt, args) ==
  FoldLeft(LAMBDA length, item :
             IF item.is = "char" THEN length
             ELSE length + Len(Counted(item.c, args[item.arg])) - 2,
           Len(fmt), Items(fmt, AnyLetter))
Extract(fmt, args, offset, count) ==
  LET items == Items(fmt, AnyLetter)
      message == FlattenSeq([i \in DOMAIN items |->
                   IF items[i].is = "char" THEN <<items[i].c>>
                   ELSE Extracted(items[i].c, args[items[i].arg])])
      end == IF offset + count < Len(message) THEN offset + count ELSE Len(message)
  IN  SubSeq(message, offset + 1, end)

-----------------------------------------------------------------------------
(* emit_p: a letter it does not know stands for itself and takes no        *)
(* argument; $H is a byte in hexadecimal, in capitals.                     *)
Capital(c) == IF IsLower(c) THEN c - 32 ELSE c
Hex(n) == [i \in 1 .. 2 |-> Capital(Int2h(n % 256)[i])]
Ltoa(n) == IF n < 0 THEN <<45>> \o Itoa(0 - n, 10) ELSE Itoa(n, 10)
Emitted(item, args) ==
  IF item.arg = 0 THEN <<item.c>>
  ELSE CASE item.c = DLetter -> Wtoa(args[item.arg])
         [] item.c = LLetter -> Ltoa(args[item.arg])
         [] item.c = HLetter -> Hex(args[item.arg])
         [] OTHER -> Terminated(args[item.arg])
EmitP(fmt, args) ==
  LET items == Items(fmt, TextLetters \union {DLetter, LLetter, HLetter})
  IN  FlattenSeq([i \in DOMAIN items |-> Emitted(items[i], args)])
=============================================================================
