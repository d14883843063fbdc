------------------------------ MODULE WebUtil ------------------------------
(***************************************************************************)
(* The text helpers of webutil.cpp.  A text is a sequence of character     *)
(* codes without the terminating zero; the loops over it are functions of  *)
(* the position they have reached.                                         *)
(***************************************************************************)
EXTENDS Naturals, Sequences
LOCAL INSTANCE SequencesExt

Space == 32  Newline == 10  Percent == 37  Ampersand == 38  PlusSign == 43
Dot == 46  EqualSign == 61
IsDigit(c) == c \in 48 .. 57
IsUpper(c) == c \in 65 .. 90
IsLower(c) == c \in 97 .. 122

CharAt(text, i) == IF i \in 1 .. Len(text) THEN text[i] ELSE 0
Ends(c) == c \in {0, Space, Newline}

-----------------------------------------------------------------------------
(* findKeyVal: where the value starts, 0 if the key is not found.  After a *)
(* mismatch the key is compared again from the next character on; after    *)
(* the whole key the character behind it is passed over.  (A text that     *)
(* ends with the key has no character there: a request always goes on.)    *)
KeyFound(text, key) ==
  LET scan[i \in 1 .. Len(text) + 2, k \in 1 .. Len(key)] ==
        IF Ends(CharAt(text, i)) THEN 0
        ELSE CASE text[i] # key[k] -> scan[i + 1, 1]
               [] text[i] = key[k] /\ k < Len(key) -> scan[i + 1, k + 1]
               [] OTHER -> IF CharAt(text, i + 1) = EqualSign THEN i + 2 ELSE scan[i + 2, 1]
  IN  scan[1, 1]
ValueGoesOnAtAmpersand(c) == ~Ends(c)
ValueGoesOn(c) == ~Ends(c) /\ c # Ampersand
FindKeyVal(text, key, maxlen) ==
  LET start == KeyFound(text, key)
      copy[i \in Nat] ==
        IF ValueGoesOn(CharAt(text, i)) /\ i < start + maxlen - 1
        THEN <<text[i]>> \o copy[i + 1] ELSE << >>
  IN  IF start = 0 THEN << >> ELSE copy[start]

-----------------------------------------------------------------------------
H2int(c) ==
  CASE IsDigit(c) -> c - 48
    [] IsLower(c) -> c - 97 + 10
    [] IsUpper(c) -> c - 65 + 10
    [] OTHER -> 0
(* urlDecode, of a text whose escapes are whole: with half an escape at    *)
(* the end, as findKeyVal may cut it, the code reads on beyond the text.   *)
UrlDecode(text) ==
  LET decode[i \in Nat] ==
        IF i > Len(text) THEN << >>
        ELSE IF text[i] = Percent
        THEN <<(16 * H2int(CharAt(text, i + 1)) + H2int(CharAt(text, i + 2))) % 256>> \o decode[i + 3]
        ELSE <<IF text[i] = PlusSign THEN Space ELSE text[i]>> \o decode[i + 1]
  IN  decode[1]

HexDigit(n) == IF n > 9 THEN n - 10 + 97 ELSE n + 48
Int2h(c) == <<HexDigit((c \div 16) % 16), HexDigit(c % 16)>>
Encoded(c) ==
  IF c = Space THEN <<PlusSign>>
  ELSE IF IsDigit(c) \/ IsUpper(c) \/ IsLower(c) THEN <<c>>
  ELSE <<Percent>> \o Int2h(c)
UrlEncode(text) == FlattenSeq([i \in 1 .. Len(text) |-> Encoded(text[i])])

-----------------------------------------------------------------------------
(* itoa for a number of the given base, most significant digit first.      *)
Itoa(n, base) ==
  LET digits[k \in Nat] ==
        IF k < base THEN <<HexDigit(k)>> ELSE Append(digits[k \div base], HexDigit(k % base))
  IN  digits[n]
(* makeNetStr writes a separator after every number and drops the last.    *)
MakeNetStr(bytes, separator, base) ==
  Front(FlattenSeq([i \in 1 .. Len(bytes) |-> Append(Itoa(bytes[i], base), separator)]))

(* parseIp: atoi reads the digits at the start of the rest, then the rest  *)
(* goes on after the next dot, or where a character is no digit.  (atoi    *)
(* would read a sign or blanks first; parseIp rejects such a text anyway.) *)
DigitsEnd(text, i) == CHOOSE j \in i .. Len(text) + 1 :
  ~IsDigit(CharAt(text, j)) /\ \A k \in i .. j - 1 : IsDigit(text[k])
Atoi(text, i) ==
  FoldLeft(LAMBDA n, c : 10 * n + c - 48, 0, SubSeq(text, i, DigitsEnd(text, i) - 1))
ParseIp(text) ==
  LET starts[n \in 1 .. 4] ==   \* where str points in the n-th turn
        IF n = 1 THEN 1
        ELSE LET j == DigitsEnd(text, starts[n - 1])
             IN  IF CharAt(text, j) = Dot THEN j + 1 ELSE j
  IN  [bytes |-> [n \in 1 .. 4 |-> Atoi(text, starts[n]) % 256],
       res   |-> \A n \in 1 .. 4 : CharAt(text, DigitsEnd(text, starts[n])) \in {0, Dot}]
=============================================================================
