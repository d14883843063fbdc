--------------------------- MODULE Enc28j60Proofs ---------------------------
(***************************************************************************)
(* Proofs about Enc28j60: whatever the sketch calls, in all builds of      *)
(* packetSend and however the chip's units interleave, banks are right,    *)
(* transmissions get their time and the filter lets the board's own        *)
(* frames in.  A function of the driver is known by what holds of all its  *)
(* operations, and of each with the one after it.                          *)
(***************************************************************************)
EXTENDS Enc28j60, TLAPS

Hows == {"write", "read", "on", "off", "set", "clear", "reset", "bank", "fill", "get", "put"}
Bits ==
  {"BUSY", "MIIRD", "CLKRDY", "RXEN", "UCEN", "CRCEN", "PMEN", "BCEN", "MCEN", "MARXEN",
   "PADCFG0", "TXCRCEN", "FRMLNEN", "INTIE", "PKTIE", "BISTST", "TME", "DMAST", "CSUMEN",
   "PSEL", "RXBUSY", "TXRTS", "VRPS", "PWRSV", "TXRST", "TXERIF", "TXIF"}
AnyOp == [how : Hows, reg : Regs, bits : SUBSET Bits, selects : BOOLEAN]

(* What all operations of the driver have in common; those that never      *)
(* start a transmission, those that do not disturb one, and those that     *)
(* leave the power or the filter alone.                                    *)
Operations ==
  {o \in AnyOp :
     /\ o.how = "write" => o.selects
     /\ o.how = "reset" => o.reg = "ECON1" /\ ~o.selects
     /\ o.reg = "ERXFCON" => o.how \in {"write", "read"}
     /\ o.reg = "EIR" => o.how \notin {"write", "set"}}
NoStart ==
  {o \in Operations : o.reg = "ECON1" /\ o.how \in {"write", "set"} => "TXRTS" \notin o.bits}
Mild ==
  {o \in NoStart :
     /\ o.how \notin {"fill", "reset"}
     /\ o.reg = "ECON1" =>
          /\ o.how # "write"
          /\ o.how \in {"set", "clear"} => o.bits \intersect {"TXRST", "TXRTS"} = {}
     /\ o.reg = "ECON2" => o.how \notin {"write", "set", "clear"}}
Powered ==
  {o \in Operations : /\ o.how # "reset"
                      /\ o.reg = "ECON2" => o.how \notin {"write", "set", "clear"}}
Unfiltered == {o \in Operations : o.reg # "ERXFCON" /\ o.how # "reset"}

(* A raw access relies on the access before it for its bank; after a reset *)
(* of the chip the clock is waited for, and then bank 0 is selected.       *)
Banked(o) == o.reg \notin AllBanks
Relies(o) == ~o.selects /\ Banked(o)
AwaitClock == Raw("on", "ESTAT", {"CLKRDY"})
ToBank0(o) == o.selects /\ BankOf(o.reg) = 0
Follows(o, p) ==
  /\ Relies(p) => Banked(o) /\ BankOf(o.reg) = BankOf(p.reg)
  /\ o.how = "reset" => p = AwaitClock
  /\ o = AwaitClock => ToBank0(p)
Complete(o) == o.how # "reset" /\ o # AwaitClock
Chain(s) == \A k \in 1 .. Len(s) - 1 : Follows(s[k], s[k + 1])
Whole(s) == Chain(s) /\ (s # << >> => Complete(s[Len(s)]))
Fine(s) == Whole(s) /\ (s # << >> => ~Relies(s[1]))
Free == {o \in Operations : Complete(o) /\ ~Relies(o)}
Awaits == Op("off", "ECON1", {"TXRTS"})
Cancels == Raw("clear", "ECON1", {"TXRTS"})
ClearsFlags == Raw("clear", "EIR", {"TXERIF", "TXIF"})
Plain == Free \intersect Mild \intersect Powered \intersect Unfiltered

-----------------------------------------------------------------------------
(* The driver's registers and their banks.                                 *)
LEMMA BankIs ==
  /\ \A r \in AllBanks : r \in Regs /\ BankOf(r) = 0
  /\ \A b \in 1 .. 4 : \A r \in Banks[b] : r \in Regs /\ r \notin AllBanks /\ BankOf(r) = b - 1
  /\ \A r \in Regs : BankOf(r) \in 0 .. 3
<1>1. \A r \in AllBanks : r \in Regs /\ BankOf(r) = 0
  BY DEF Regs, BankOf
<1>2. ASSUME NEW b \in 1 .. 4, NEW r \in Banks[b]
      PROVE  r \in Regs /\ r \notin AllBanks /\ BankOf(r) = b - 1
  <2>1. r \notin AllBanks /\ \A c \in 1 .. 4 : r \in Banks[c] => c = b
    BY <1>2 DEF Banks, AllBanks
  <2>2. r \in Regs
    BY DEF Regs
  <2>3. (CHOOSE c \in 1 .. 4 : r \in Banks[c]) = b
    BY <2>1
  <2> QED BY <2>1, <2>2, <2>3 DEF BankOf
<1>3. ASSUME NEW r \in Regs PROVE BankOf(r) \in 0 .. 3
  <2>1. CASE r \in AllBanks
    BY <2>1, <1>1
  <2>2. ASSUME NEW b \in 1 .. 4, r \in Banks[b] PROVE BankOf(r) \in 0 .. 3
    BY <2>2, <1>2
  <2> QED BY <2>1, <2>2 DEF Regs
<1> QED BY <1>1, <1>2, <1>3

(* Most operations rely on nothing and disturb nothing.                    *)
LEMMA PlainOp ==
  ASSUME NEW how \in Hows \ {"reset", "fill"}, NEW bits \in SUBSET Bits,
         NEW r \in Regs \ {"ECON1", "ECON2", "ERXFCON", "EIR"}
  PROVE  /\ Op(how, r, bits) \in Plain
         /\ how # "write" /\ r \in AllBanks /\ Raw(how, r, bits) # AwaitClock =>
              Raw(how, r, bits) \in Plain
<1> DEFINE o == Op(how, r, bits)
           w == Raw(how, r, bits)
<1>1. /\ o \in AnyOp /\ o.how = how /\ o.reg = r /\ o.bits = bits /\ o.selects = TRUE
      /\ w \in AnyOp /\ w.how = how /\ w.reg = r /\ w.bits = bits /\ w.selects = FALSE
  BY DEF Op, Raw, AnyOp
<1>a. AwaitClock.selects = FALSE
  BY DEF AwaitClock, Raw
<1> HIDE DEF o, w
<1>2. o \in Operations /\ Complete(o) /\ ~Relies(o)
  BY <1>1, <1>a DEF Operations, Complete, Relies
<1>3. o \in Plain
  BY <1>1, <1>2 DEF Plain, Free, Mild, NoStart, Powered, Unfiltered
<1>4. ASSUME how # "write", r \in AllBanks, w # AwaitClock PROVE w \in Plain
  BY <1>1, <1>4 DEF Operations, Complete, Relies, Banked, Plain, Free, Mild, NoStart, Powered,
                    Unfiltered
<1> QED BY <1>3, <1>4 DEF o, w

(* Where every operation selects its own bank, nothing is relied on.       *)
LEMMA FreeIsFine ==
  ASSUME NEW s \in Seq(Free) PROVE Fine(s)
BY DEF Free, Fine, Whole, Chain, Follows, Complete

(* Two functions, one run after the other.                                 *)
LEMMA Appended ==
  ASSUME NEW S, NEW a \in Seq(S), NEW b \in Seq(S)
  PROVE  /\ a \o b \in Seq(S) /\ Len(a) \in Nat /\ Len(b) \in Nat
         /\ Len(a \o b) = Len(a) + Len(b)
         /\ \A k \in 1 .. Len(a) : (a \o b)[k] = a[k]
OBVIOUS

(* Chains joined where the second may follow the first.                    *)
LEMMA Joined ==
  ASSUME NEW S, NEW a \in Seq(S), NEW b \in Seq(S), Chain(a), Whole(b), a # << >>, b # << >>,
         Follows(a[Len(a)], b[1])
  PROVE  /\ Whole(a \o b) /\ a \o b \in Seq(S) /\ a \o b # << >> /\ (a \o b)[1] = a[1]
         /\ (a \o b)[Len(a \o b)] = b[Len(b)] /\ Len(a \o b) = Len(a) + Len(b)
         /\ \A k \in 1 .. Len(a) : (a \o b)[k] = a[k]
         /\ \A k \in 1 .. Len(b) : (a \o b)[Len(a) + k] = b[k]
<1> DEFINE s == a \o b
<1>1. /\ s \in Seq(S) /\ Len(s) = Len(a) + Len(b) /\ Len(a) \in Nat \ {0} /\ Len(b) \in Nat \ {0}
      /\ \A k \in 1 .. Len(s) : s[k] = IF k <= Len(a) THEN a[k] ELSE b[k - Len(a)]
  OBVIOUS
<1> HIDE DEF s
<1>2. /\ s # << >> /\ s[1] = a[1] /\ s[Len(s)] = b[Len(b)]
      /\ \A k \in 1 .. Len(a) : s[k] = a[k]
      /\ \A k \in 1 .. Len(b) : s[Len(a) + k] = b[k]
  <2>1. s # << >> /\ s[1] = a[1]
    BY <1>1
  <2>2. s[Len(s)] = b[Len(b)]
    BY <1>1
  <2>3. ASSUME NEW k \in 1 .. Len(b) PROVE s[Len(a) + k] = b[k]
    <3>1. /\ Len(a) + k \in 1 .. Len(s) /\ ~(Len(a) + k <= Len(a))
          /\ (Len(a) + k) - Len(a) = k
      BY <1>1
    <3> QED BY <1>1, <3>1
  <2> QED BY <1>1, <2>1, <2>2, <2>3
<1>3. ASSUME NEW k \in 1 .. Len(s) - 1 PROVE Follows(s[k], s[k + 1])
  <2>1. CASE k < Len(a)
    BY <1>1, <2>1 DEF Chain
  <2>2. CASE k = Len(a)
    BY <1>1, <2>2
  <2>3. CASE k > Len(a)
    <3>1. k - Len(a) \in 1 .. Len(b) - 1 /\ s[k] = b[k - Len(a)] /\ s[k + 1] = b[k - Len(a) + 1]
      BY <1>1, <2>3
    <3> QED BY <3>1 DEF Whole, Chain
  <2> QED BY <1>1, <2>1, <2>2, <2>3
<1>4. Whole(s)
  BY <1>2, <1>3 DEF Whole, Chain
<1> QED BY <1>1, <1>2, <1>4 DEF s

(* One operation less to do.                                               *)
LEMMA Shorter ==
  ASSUME NEW S, NEW s \in Seq(S), s # << >>
  PROVE  /\ Tail(s) \in Seq(S) /\ Head(s) = s[1] /\ Head(s) \in S
         /\ Len(s) \in Nat \ {0} /\ Len(Tail(s)) = Len(s) - 1
         /\ \A k \in 1 .. Len(Tail(s)) : Tail(s)[k] = s[k + 1]
         /\ Tail(s) # << >> => Head(Tail(s)) = s[2] /\ Tail(s)[Len(Tail(s))] = s[Len(s)]
         /\ Tail(s) = << >> => Len(s) = 1
         /\ Whole(s) => /\ Whole(Tail(s))
                        /\ IF Tail(s) = << >> THEN Complete(Head(s))
                           ELSE Follows(Head(s), Head(Tail(s)))
<1> DEFINE t == Tail(s)
<1>1. /\ t \in Seq(S) /\ Head(s) = s[1] /\ Head(s) \in S
      /\ Len(s) \in Nat \ {0} /\ Len(t) = Len(s) - 1
      /\ \A k \in 1 .. Len(t) : t[k] = s[k + 1]
  OBVIOUS
<1> HIDE DEF t
<1>2. /\ t # << >> => Head(t) = s[2] /\ t[Len(t)] = s[Len(s)]
      /\ t = << >> => Len(s) = 1
  BY <1>1
<1>3. ASSUME Whole(s) PROVE Whole(t)
  BY <1>1, <1>2, <1>3 DEF Whole, Chain
<1>4. ASSUME Whole(s)
      PROVE  IF t = << >> THEN Complete(Head(s)) ELSE Follows(Head(s), Head(t))
  BY <1>1, <1>2, <1>4 DEF Whole, Chain
<1> QED BY <1>1, <1>2, <1>3, <1>4 DEF t

-----------------------------------------------------------------------------
(* The parts of the driver's functions that disturb nothing.               *)
LEMMA PlainParts ==
  /\ WritePhy \in Seq(Plain) /\ WritePhy # << >>
  /\ ReadPhyByte \in Seq(Plain) /\ Copyout \in Seq(Plain) /\ Copyin \in Seq(Plain)
  /\ SetMemory \in Seq(Plain) /\ SetMemory # << >> /\ SetMemory[1] = Write("ERXST", {})
  /\ ReadTsv \in Seq(Plain)
<1>1. {"MIREGADR", "MIWR", "MISTAT", "MICMD", "MIRD", "EWRPT", "ERDPT", "ERXST", "ERXRDPT", "ERXND",
       "ETXST", "ETXND"} \subseteq Regs \ {"ECON1", "ECON2", "ERXFCON", "EIR"}
  BY DEF Regs, Banks
<1>2. {"write", "read", "off"} \subseteq Hows \ {"reset", "fill"}
      /\ {{}, {"BUSY"}, {"MIIRD"}} \subseteq SUBSET Bits
  BY DEF Hows, Bits
<1>3. ASSUME NEW r \in {"MIREGADR", "MIWR", "MISTAT", "MICMD", "MIRD", "EWRPT", "ERDPT", "ERXST",
                        "ERXRDPT", "ERXND", "ETXST", "ETXND"}
      PROVE  /\ Write(r, {}) \in Plain /\ Read(r) \in Plain /\ Write(r, {"MIIRD"}) \in Plain
             /\ Op("off", r, {"BUSY"}) \in Plain
  BY <1>1, <1>2, <1>3, PlainOp DEF Write, Read
<1>4. Memory("get") \in Plain /\ Memory("put") \in Plain
  <2> DEFINE m(how) == Memory(how)
  <2>1. \A how \in {"get", "put"} :
          /\ m(how).how = how /\ m(how).reg = "ECON1" /\ m(how).bits = {}
          /\ m(how).selects = FALSE /\ m(how) \in AnyOp
    BY DEF Memory, Raw, AnyOp, Hows, Regs, AllBanks
  <2>2. "ECON1" \in AllBanks /\ AwaitClock.reg = "ESTAT"
    BY DEF AllBanks, AwaitClock, Raw
  <2> HIDE DEF m
  <2>3. \A how \in {"get", "put"} : m(how) \in Operations /\ Complete(m(how)) /\ ~Relies(m(how))
    BY <2>1, <2>2 DEF Operations, Complete, Relies, Banked
  <2>4. \A how \in {"get", "put"} : m(how) \in Plain
    BY <2>1, <2>3 DEF Plain, Free, Mild, NoStart, Powered, Unfiltered
  <2> QED BY <2>4 DEF m
<1>5. WritePhy \in Seq(Plain) /\ WritePhy # << >>
  BY <1>3 DEF WritePhy
<1>6. ReadPhyByte \in Seq(Plain)
  BY <1>3 DEF ReadPhyByte
<1>7. Copyout \in Seq(Plain) /\ Copyin \in Seq(Plain)
  BY <1>3, <1>4 DEF Copyout, Copyin
<1>8. SetMemory \in Seq(Plain) /\ SetMemory # << >> /\ SetMemory[1] = Write("ERXST", {})
  BY <1>3 DEF SetMemory
<1>9. ReadTsv \in Seq(Plain)
  BY <1>3, <1>4 DEF ReadTsv
<1> QED BY <1>5, <1>6, <1>7, <1>8, <1>9

(* The operations on ECON1, ECON2 and the flags of the transmitter.        *)
LEMMA ControlOps ==
  /\ Raw("clear", "ECON2", {"PWRSV"}) \in Free \intersect NoStart \intersect Unfiltered
  /\ \A bits \in {{"VRPS"}, {"PWRSV"}} :
       Raw("set", "ECON2", bits) \in Free \intersect NoStart \intersect Unfiltered
  /\ Raw("set", "ECON1", {"RXEN"}) \in Plain /\ Raw("clear", "ECON1", {"RXEN"}) \in Plain
  /\ Awaits \in Plain /\ ClearsFlags \in Plain
  /\ Op("on", "ESTAT", {"CLKRDY"}) \in Plain /\ Op("off", "ESTAT", {"RXBUSY"}) \in Plain
  /\ \A how \in {"set", "clear"} :
       Raw(how, "ECON1", {"TXRST"}) \in
         Free \intersect NoStart \intersect Powered \intersect Unfiltered
  /\ Cancels \in Free \intersect NoStart \intersect Powered \intersect Unfiltered
  /\ Raw("set", "ECON1", {"TXRTS"}) \in Free \intersect Powered \intersect Unfiltered
  /\ Memory("fill") \in Free \intersect NoStart \intersect Powered \intersect Unfiltered
<1>1. /\ {"ECON1", "ECON2", "EIR", "ESTAT"} \subseteq AllBanks
      /\ {"ECON1", "ECON2", "EIR", "ESTAT"} \subseteq Regs
      /\ {"set", "clear", "on", "off", "fill"} \subseteq Hows
      /\ {"PWRSV", "VRPS", "RXEN", "TXRTS", "TXERIF", "TXIF", "CLKRDY", "RXBUSY", "TXRST"} \subseteq Bits
  BY DEF AllBanks, Regs, Hows, Bits
<1>2. ASSUME NEW how \in {"set", "clear", "on", "off", "fill"},
             NEW r \in {"ECON1", "ECON2", "EIR", "ESTAT"}, NEW bits \in SUBSET Bits,
             Raw(how, r, bits) # AwaitClock, r = "EIR" => how # "set"
      PROVE  /\ Raw(how, r, bits) \in Free \intersect Unfiltered
             /\ Op(how, r, bits) \in Free \intersect Unfiltered
             /\ ~(how = "set" /\ "TXRTS" \in bits) =>
                  Raw(how, r, bits) \in NoStart /\ Op(how, r, bits) \in NoStart
             /\ r # "ECON2" => Raw(how, r, bits) \in Powered /\ Op(how, r, bits) \in Powered
             /\ r # "ECON2" /\ how # "fill"
                  /\ (\/ how \in {"on", "off"} \/ r # "ECON1"
                      \/ bits \intersect {"TXRST", "TXRTS"} = {})
                  /\ ~(how = "set" /\ "TXRTS" \in bits) =>
                  Raw(how, r, bits) \in Plain /\ Op(how, r, bits) \in Plain
  <2> DEFINE o == Op(how, r, bits)
             w == Raw(how, r, bits)
  <2>1. /\ o \in AnyOp /\ o.how = how /\ o.reg = r /\ o.bits = bits /\ o.selects = TRUE
        /\ w \in AnyOp /\ w.how = how /\ w.reg = r /\ w.bits = bits /\ w.selects = FALSE
    BY <1>1 DEF Op, Raw, AnyOp
  <2>2. AwaitClock.selects = FALSE /\ w # AwaitClock
    BY <1>2 DEF AwaitClock, Raw
  <2> HIDE DEF o, w
  <2>3. o \in Operations /\ w \in Operations
    BY <1>1, <1>2, <2>1 DEF Operations
  <2>4. o \in Free /\ w \in Free /\ o \in Unfiltered /\ w \in Unfiltered
    BY <1>1, <2>1, <2>2, <2>3 DEF Free, Complete, Relies, Banked, Unfiltered
  <2>5. ASSUME ~(how = "set" /\ "TXRTS" \in bits) PROVE o \in NoStart /\ w \in NoStart
    BY <2>1, <2>3, <2>5 DEF NoStart
  <2>6. ASSUME r # "ECON2" PROVE o \in Powered /\ w \in Powered
    BY <2>1, <2>3, <2>6 DEF Powered
  <2>7. ASSUME r # "ECON2", how # "fill", ~(how = "set" /\ "TXRTS" \in bits),
               how \in {"on", "off"} \/ r # "ECON1" \/ bits \intersect {"TXRST", "TXRTS"} = {}
        PROVE  o \in Plain /\ w \in Plain
    BY <2>1, <2>4, <2>5, <2>6, <2>7 DEF Mild, Plain
  <2> QED BY <2>4, <2>5, <2>6, <2>7 DEF o, w
<1>3. \A how \in {"set", "clear", "on", "off", "fill"}, r \in {"ECON1", "ECON2", "EIR"},
         bits \in SUBSET Bits :
        Raw(how, r, bits) # AwaitClock
  BY DEF Raw, AwaitClock
<1>4. Raw("off", "ESTAT", {"RXBUSY"}) # AwaitClock
  BY DEF Raw, AwaitClock
<1>5. Op("on", "ESTAT", {"CLKRDY"}) \in Plain
  <2>1. "ESTAT" \in Regs \ {"ECON1", "ECON2", "ERXFCON", "EIR"} /\ "on" \in Hows \ {"reset", "fill"}
        /\ {"CLKRDY"} \in SUBSET Bits
    BY <1>1
  <2> QED BY <2>1, PlainOp
<1>6. Op("off", "ESTAT", {"RXBUSY"}) \in Plain
  BY <1>1, <1>2, <1>4
<1>7. /\ Raw("clear", "ECON2", {"PWRSV"}) \in Free \intersect NoStart \intersect Unfiltered
      /\ \A bits \in {{"VRPS"}, {"PWRSV"}} :
           Raw("set", "ECON2", bits) \in Free \intersect NoStart \intersect Unfiltered
  BY <1>1, <1>2, <1>3
<1>8. /\ Raw("set", "ECON1", {"RXEN"}) \in Plain /\ Raw("clear", "ECON1", {"RXEN"}) \in Plain
      /\ Awaits \in Plain /\ ClearsFlags \in Plain
  BY <1>1, <1>2, <1>3 DEF Awaits, ClearsFlags
<1>9. /\ \A how \in {"set", "clear"} :
           Raw(how, "ECON1", {"TXRST"}) \in
         Free \intersect NoStart \intersect Powered \intersect Unfiltered
      /\ Cancels \in Free \intersect NoStart \intersect Powered \intersect Unfiltered
  BY <1>1, <1>2, <1>3 DEF Cancels
<1>10. /\ Raw("set", "ECON1", {"TXRTS"}) \in Free \intersect Powered \intersect Unfiltered
       /\ Memory("fill") \in Free \intersect NoStart \intersect Powered \intersect Unfiltered
  BY <1>1, <1>2, <1>3 DEF Memory
<1> QED BY <1>5, <1>6, <1>7, <1>8, <1>9, <1>10

(* powerUp, powerDown, the filter's functions and the parts of packetSend. *)
LEMMA PowerParts ==
  /\ PowerUp \in Seq(Free \intersect NoStart \intersect Unfiltered)
  /\ PowerDown \in Seq(Free \intersect NoStart \intersect Unfiltered) /\ Len(PowerDown) = 5
  /\ PowerDown[3] = Awaits /\ \A j \in 1 .. 3 : PowerDown[j] \in Mild
<1>1. \A o \in Plain : o \in Free \intersect NoStart \intersect Unfiltered /\ o \in Mild
  BY DEF Plain, Mild
<1>2. PowerUp \in Seq(Free \intersect NoStart \intersect Unfiltered)
  BY <1>1, ControlOps DEF PowerUp
<1>3. PowerDown \in Seq(Free \intersect NoStart \intersect Unfiltered)
  BY <1>1, ControlOps DEF PowerDown, Awaits
<1>4. /\ Len(PowerDown) = 5 /\ PowerDown[1] = Raw("clear", "ECON1", {"RXEN"})
      /\ PowerDown[2] = Op("off", "ESTAT", {"RXBUSY"}) /\ PowerDown[3] = Awaits
  BY DEF PowerDown, Awaits
<1>5. PowerDown[1] \in Mild /\ PowerDown[2] \in Mild /\ PowerDown[3] \in Mild
  BY <1>1, <1>4, ControlOps
<1> QED BY <1>2, <1>3, <1>4, <1>5

(* enableBroadcast and its like, and disablePromiscuous.                   *)
LEMMA FilterParts ==
  ASSUME NEW bits \in SUBSET Bits
  PROVE  /\ <<Read("ERXFCON"), Write("ERXFCON", bits)>> \in Seq(Free \intersect Mild)
         /\ <<Write("ERXFCON", bits)>> \in Seq(Free \intersect Mild)
         /\ Write("ERXFCON", bits).reg = "ERXFCON" /\ Write("ERXFCON", bits).how = "write"
         /\ Write("ERXFCON", bits).bits = bits
<1> DEFINE o == Read("ERXFCON")
           w == Write("ERXFCON", bits)
<1>1. /\ o \in AnyOp /\ o.how = "read" /\ o.reg = "ERXFCON" /\ o.selects = TRUE
      /\ w \in AnyOp /\ w.how = "write" /\ w.reg = "ERXFCON" /\ w.bits = bits /\ w.selects = TRUE
      /\ AwaitClock.selects = FALSE
  BY DEF AnyOp, Read, Write, Op, Hows, Regs, Banks, AwaitClock, Raw
<1> HIDE DEF o, w
<1>2. o \in Free /\ w \in Free /\ o \in Mild /\ w \in Mild
  BY <1>1 DEF Operations, Free, Complete, Relies, Mild, NoStart
<1>3. <<o, w>> \in Seq(Free \intersect Mild) /\ <<w>> \in Seq(Free \intersect Mild)
  BY <1>2
<1> QED BY <1>1, <1>3 DEF o, w

(* A transmission's start: TXRTS set last, the flags cleared before.       *)
LEMMA StartParts ==
  ASSUME NEW again \in BOOLEAN
  PROVE  /\ Start(again) \in Seq(Free \intersect Powered \intersect Unfiltered)
         /\ Start(again) # << >>
         /\ \A k \in 1 .. Len(Start(again)) - 1 : Start(again)[k] \in NoStart
         /\ \E k \in 1 .. Len(Start(again)) - 1 : Start(again)[k] = ClearsFlags
<1> DEFINE S == Free \intersect NoStart \intersect Powered \intersect Unfiltered
           T == Free \intersect Powered \intersect Unfiltered
           go == Raw("set", "ECON1", {"TXRTS"})
           set == Raw("set", "ECON1", {"TXRST"})
           clear == Raw("clear", "ECON1", {"TXRST"})
           e == Write("EWRPT", {})
           n == Write("ETXND", {})
           f == Memory("fill")
<1>1. set \in S /\ clear \in S /\ ClearsFlags \in S /\ f \in S /\ go \in T /\ S \subseteq T
  BY ControlOps DEF Plain, Mild
<1>2. e \in S /\ n \in S
  <2>1. {"EWRPT", "ETXND"} \subseteq Regs \ {"ECON1", "ECON2", "ERXFCON", "EIR"}
        /\ "write" \in Hows \ {"reset", "fill"} /\ {} \in SUBSET Bits
    BY DEF Regs, Banks, Hows
  <2>2. e \in Plain /\ n \in Plain
    BY <2>1, PlainOp DEF Write
  <2> QED BY <2>2 DEF Plain, Mild
<1> DEFINE h == <<set, clear, ClearsFlags>>
           m == IF again THEN << >> ELSE <<e, n, f>>
<1>3. Start(again) = (h \o m) \o <<go>>
  BY DEF Start, ClearsFlags
<1> HIDE DEF S, T, go, set, clear, e, n, f
<1>4. h \in Seq(S) /\ Len(h) = 3 /\ h[3] = ClearsFlags /\ m \in Seq(S) /\ <<go>> \in Seq(T)
      /\ Len(<<go>>) = 1
  BY <1>1, <1>2
<1> HIDE DEF h, m
<1>5. h \o m \in Seq(S) /\ Len(h \o m) \in Nat /\ Len(h \o m) >= 3 /\ (h \o m)[3] = ClearsFlags
  <2>1. /\ h \o m \in Seq(S) /\ Len(m) \in Nat /\ Len(h \o m) = Len(h) + Len(m)
        /\ \A k \in 1 .. Len(h) : (h \o m)[k] = h[k]
    BY <1>4, Appended
  <2> QED BY <1>4, <2>1
<1> DEFINE a == h \o m
<1> HIDE DEF a
<1>6. a \in Seq(S) /\ a \in Seq(T)
  BY <1>1, <1>5 DEF a
<1>7. /\ Start(again) \in Seq(T) /\ Len(Start(again)) = Len(a) + 1
      /\ \A k \in 1 .. Len(a) : Start(again)[k] = a[k]
  BY <1>3, <1>4, <1>6 DEF a
<1>8. Len(a) \in Nat /\ Len(a) >= 3 /\ a[3] = ClearsFlags
  BY <1>5 DEF a
<1>9. Start(again) # << >> /\ Len(Start(again)) - 1 = Len(a)
  BY <1>7, <1>8
<1>10. \A k \in 1 .. Len(a) : a[k] \in NoStart
  BY <1>6 DEF S
<1>11. 3 \in 1 .. Len(a)
  BY <1>8
<1> QED BY <1>7, <1>8, <1>9, <1>10, <1>11 DEF T

(* The end of an attempt: TXRTS is cleared first.                          *)
LEMMA CancelParts ==
  ASSUME NEW s \in {ReadTsv, << >>}
  PROVE  LET c == <<Cancels>> \o s IN
         /\ c \in Seq(Free \intersect NoStart \intersect Powered \intersect Unfiltered)
         /\ c # << >> /\ Head(c) = Cancels
<1> DEFINE S == Free \intersect NoStart \intersect Powered \intersect Unfiltered
<1>1. Plain \subseteq S /\ Cancels \in S /\ ReadTsv \in Seq(Plain)
  BY PlainParts, ControlOps DEF Plain, Mild
<1>2. s \in Seq(S)
  <2>1. << >> \in Seq(S) /\ ReadTsv \in Seq(S)
    BY <1>1
  <2> QED BY <2>1
<1> HIDE DEF S
<1>3. <<Cancels>> \o s \in Seq(S) /\ <<Cancels>> \o s # << >> /\ Head(<<Cancels>> \o s) = Cancels
  BY <1>1, <1>2
<1> QED BY <1>3 DEF S

(* A reset of the chip, and what relies on it.                             *)
LEMMA ResetPart ==
  /\ SoftReset \in Seq(NoStart) /\ Len(SoftReset) = 2 /\ Chain(SoftReset) /\ SoftReset # << >>
  /\ SoftReset[1].how = "reset" /\ ~Relies(SoftReset[1]) /\ SoftReset[2] = AwaitClock
<1> DEFINE o == Raw("reset", "ECON1", {})
           w == AwaitClock
<1>1. /\ o \in AnyOp /\ o.how = "reset" /\ o.reg = "ECON1" /\ o.bits = {} /\ o.selects = FALSE
      /\ w \in AnyOp /\ w.how = "on" /\ w.reg = "ESTAT" /\ w.selects = FALSE
      /\ "ECON1" \in AllBanks /\ "ESTAT" \in AllBanks
  BY DEF AnyOp, Raw, Hows, Regs, AllBanks, Bits, AwaitClock
<1>2. SoftReset = <<o, w>>
  BY DEF SoftReset, AwaitClock
<1>3. w = AwaitClock
  OBVIOUS
<1> HIDE DEF o, w
<1>4. o \in NoStart /\ w \in NoStart /\ ~Relies(o) /\ ~Relies(w) /\ o # w
  BY <1>1 DEF NoStart, Operations, Relies, Banked
<1>5. Follows(o, w)
  BY <1>1, <1>3, <1>4 DEF Follows
<1>6. /\ SoftReset \in Seq(NoStart) /\ Len(SoftReset) = 2 /\ SoftReset[1] = o /\ SoftReset[2] = w
      /\ SoftReset # << >>
  BY <1>2, <1>4
<1>7. Chain(SoftReset)
  BY <1>5, <1>6 DEF Chain
<1> QED BY <1>1, <1>3, <1>4, <1>6, <1>7

(* The MAC's registers: the filter first, and one raw access to MACON3.    *)
LEMMA MacPart ==
  /\ SetMac \in Seq(NoStart) /\ Len(SetMac) = 9 /\ SetMac # << >> /\ Fine(SetMac)
  /\ SetMac[1] = Write("ERXFCON", Filter) /\ \A k \in 2 .. 9 : SetMac[k] \in Unfiltered
<1> DEFINE a == Write("ERXFCON", Filter)
           w == Write("MACON1", {"MARXEN"})
           o == Raw("set", "MACON3", {"PADCFG0", "TXCRCEN", "FRMLNEN"})
           e(r) == Write(r, {})
<1>1. /\ o \in AnyOp /\ o.how = "set" /\ o.reg = "MACON3" /\ o.selects = FALSE
      /\ w \in AnyOp /\ w.how = "write" /\ w.reg = "MACON1" /\ w.selects = TRUE
      /\ AwaitClock.reg = "ESTAT"
  BY DEF AnyOp, Raw, Op, Write, Hows, Regs, Banks, Bits, AwaitClock
<1>2. /\ "MACON1" \notin AllBanks /\ "MACON3" \notin AllBanks
      /\ BankOf("MACON1") = 2 /\ BankOf("MACON3") = 2
  <2>1. "MACON1" \in Banks[3] /\ "MACON3" \in Banks[3]
    BY DEF Banks
  <2> QED BY <2>1, BankIs
<1>3. \A r \in {"EPMM", "EPMCS", "MAIPG", "MABBIPG", "MAMXFL", "MAADR"} : e(r) \in Plain
  <2>1. {"EPMM", "EPMCS", "MAIPG", "MABBIPG", "MAMXFL", "MAADR"}
          \subseteq Regs \ {"ECON1", "ECON2", "ERXFCON", "EIR"}
        /\ "write" \in Hows \ {"reset", "fill"} /\ {} \in SUBSET Bits
    BY DEF Regs, Banks, Hows
  <2> QED BY <2>1, PlainOp DEF Write
<1>4. a \in Free /\ a \in NoStart
  <2>1. Filter \in SUBSET Bits
    BY DEF Filter, Bits
  <2>2. <<a>> \in Seq(Free \intersect Mild)
    BY <2>1, FilterParts
  <2>3. a \in Free \intersect Mild
    BY <2>2
  <2> QED BY <2>3 DEF Mild
<1>5. SetMac = <<a, e("EPMM"), e("EPMCS"), w, o, e("MAIPG"), e("MABBIPG"), e("MAMXFL"), e("MAADR")>>
  BY DEF SetMac
<1> HIDE DEF a, w, o, e
<1>6. w \in Free /\ w \in NoStart /\ o \in NoStart /\ w \in Unfiltered /\ o \in Unfiltered /\ Complete(o)
  BY <1>1 DEF Operations, Free, NoStart, Unfiltered, Complete, Relies
<1>7. /\ Len(SetMac) = 9 /\ SetMac[1] = a /\ SetMac[2] = e("EPMM") /\ SetMac[3] = e("EPMCS")
      /\ SetMac[4] = w /\ SetMac[5] = o /\ SetMac[6] = e("MAIPG") /\ SetMac[7] = e("MABBIPG")
      /\ SetMac[8] = e("MAMXFL") /\ SetMac[9] = e("MAADR")
  BY <1>5
<1>8. SetMac \in Seq(NoStart) /\ SetMac # << >>
  BY <1>3, <1>4, <1>5, <1>6 DEF Plain, Mild
<1>9. \A k \in 1 .. 9 : k # 5 => SetMac[k] \in Free
  BY <1>3, <1>4, <1>6, <1>7 DEF Plain
<1>10. \A k \in 2 .. 9 : SetMac[k] \in Unfiltered
  BY <1>3, <1>6, <1>7 DEF Plain
<1>11. Follows(w, o)
  BY <1>1, <1>2, <1>6 DEF Follows, Banked, Free, Complete
<1>12. \A k \in 1 .. 8 : Follows(SetMac[k], SetMac[k + 1])
  <2> SUFFICES ASSUME NEW k \in 1 .. 8 PROVE Follows(SetMac[k], SetMac[k + 1])
    OBVIOUS
  <2>1. CASE k = 4
    BY <1>7, <1>11, <2>1
  <2>2. CASE k # 4
    <3>1. SetMac[k + 1] \in Free /\ Complete(SetMac[k])
      BY <1>6, <1>7, <1>9, <2>2 DEF Free
    <3> QED BY <3>1 DEF Follows, Free, Complete
  <2> QED BY <2>1, <2>2
<1>13. Fine(SetMac)
  BY <1>7, <1>9, <1>12 DEF Fine, Whole, Chain, Free
<1>14. a = Write("ERXFCON", Filter)
  BY DEF a
<1> QED BY <1>7, <1>8, <1>10, <1>13, <1>14

(* The last part of initialize.                                            *)
LEMMA ReceivingPart ==
  StartReceiving \in Seq(Plain) /\ StartReceiving # << >>
<1>1. Raw("set", "ECON1", {"RXEN"}) \in Plain
  BY ControlOps
<1>2. Read("EREVID") \in Plain /\ Raw("set", "EIE", {"INTIE", "PKTIE"}) \in Plain
  <2>1. /\ {"EREVID", "EIE"} \subseteq Regs \ {"ECON1", "ECON2", "ERXFCON", "EIR"} /\ "EIE" \in AllBanks
        /\ {"read", "set"} \subseteq Hows \ {"reset", "fill"}
        /\ {} \in SUBSET Bits /\ {"INTIE", "PKTIE"} \in SUBSET Bits
    BY DEF Regs, Banks, AllBanks, Hows, Bits
  <2>2. Raw("set", "EIE", {"INTIE", "PKTIE"}) # AwaitClock
    BY DEF Raw, AwaitClock
  <2> QED BY <2>1, <2>2, PlainOp DEF Read
<1>3. Op("bank", "ECON1", {}) \in Plain
  <2> DEFINE o == Op("bank", "ECON1", {})
  <2>1. /\ o \in AnyOp /\ o.how = "bank" /\ o.reg = "ECON1" /\ o.bits = {} /\ o.selects = TRUE
        /\ AwaitClock.selects = FALSE
    BY DEF AnyOp, Op, Hows, Regs, AllBanks, AwaitClock, Raw
  <2> HIDE DEF o
  <2>2. o \in Plain
    BY <2>1 DEF Plain, Operations, Free, Complete, Relies, Mild, NoStart, Powered, Unfiltered
  <2> QED BY <2>2 DEF o
<1> QED BY <1>1, <1>2, <1>3 DEF StartReceiving

(* A filter that is written last in one of two functions is written last.  *)
SetsLast(s, bits) ==
  \E k \in 1 .. Len(s) :
    s[k] = Write("ERXFCON", bits) /\ \A j \in k + 1 .. Len(s) : s[j] \in Unfiltered
(* It is written last in the two joined, too.                              *)
LEMMA SetsLastJoined ==
  ASSUME NEW S, NEW a \in Seq(S), NEW b \in Seq(S), NEW bits,
         SetsLast(b, bits) \/ (SetsLast(a, bits) /\ b \in Seq(Unfiltered))
  PROVE  SetsLast(a \o b, bits)
<1> DEFINE s == a \o b
<1>1. /\ Len(s) = Len(a) + Len(b) /\ Len(a) \in Nat /\ Len(b) \in Nat
      /\ \A k \in 1 .. Len(s) : s[k] = IF k <= Len(a) THEN a[k] ELSE b[k - Len(a)]
  OBVIOUS
<1> HIDE DEF s
<1>2. CASE SetsLast(b, bits)
  <2>1. PICK k \in 1 .. Len(b) : /\ b[k] = Write("ERXFCON", bits)
                                 /\ \A j \in k + 1 .. Len(b) : b[j] \in Unfiltered
    BY <1>2 DEF SetsLast
  <2>2. Len(a) + k \in 1 .. Len(s) /\ s[Len(a) + k] = b[k]
    <3>1. Len(a) + k \in 1 .. Len(s) /\ ~(Len(a) + k <= Len(a)) /\ (Len(a) + k) - Len(a) = k
      BY <1>1, <2>1
    <3> QED BY <1>1, <3>1
  <2>3. ASSUME NEW j \in Len(a) + k + 1 .. Len(s) PROVE s[j] \in Unfiltered
    <3>1. j \in 1 .. Len(s) /\ ~(j <= Len(a)) /\ j - Len(a) \in k + 1 .. Len(b)
      BY <1>1, <2>1
    <3> QED BY <1>1, <2>1, <3>1
  <2> QED BY <2>1, <2>2, <2>3 DEF SetsLast, s
<1>3. CASE SetsLast(a, bits) /\ b \in Seq(Unfiltered)
  <2>1. PICK k \in 1 .. Len(a) : /\ a[k] = Write("ERXFCON", bits)
                                 /\ \A j \in k + 1 .. Len(a) : a[j] \in Unfiltered
    BY <1>3 DEF SetsLast
  <2>2. k \in 1 .. Len(s) /\ s[k] = a[k]
    BY <1>1, <2>1
  <2>3. ASSUME NEW j \in k + 1 .. Len(s) PROVE s[j] \in Unfiltered
    <3>1. CASE j <= Len(a)
      BY <1>1, <2>1, <3>1
    <3>2. CASE ~(j <= Len(a))
      <4>1. j \in 1 .. Len(s) /\ j - Len(a) \in 1 .. Len(b)
        BY <1>1, <2>1, <3>2
      <4> QED BY <1>1, <1>3, <3>2, <4>1
    <3> QED BY <3>1, <3>2
  <2> QED BY <2>1, <2>2, <2>3 DEF SetsLast, s
<1> QED BY <1>2, <1>3

(* A part that relies on nothing may come after any complete one.          *)
LEMMA FreeFollows ==
  ASSUME NEW S, NEW a \in Seq(S), Whole(a), a # << >>, NEW p \in Free
  PROVE  Follows(a[Len(a)], p)
BY DEF Whole, Follows, Complete, Free

(* initialize, from the reset on: it sets the filter last but one part.    *)
LEMMA InitializeParts ==
  /\ Initialize \in Seq(NoStart) /\ Initialize # << >> /\ Fine(Initialize)
  /\ Initialize[1].how = "reset" /\ SetsLast(Initialize, Filter)
<1> DEFINE a == SoftReset \o SetMemory
           b == a \o WritePhy
           c == b \o SetMac
           d == c \o WritePhy
<1>1. Plain \subseteq NoStart /\ Plain \subseteq Free /\ Plain \subseteq Unfiltered
  BY DEF Plain, Mild
<1>2. /\ WritePhy \in Seq(NoStart) /\ WritePhy \in Seq(Unfiltered) /\ Whole(WritePhy)
      /\ WritePhy # << >> /\ WritePhy[1] \in Free
  BY <1>1, PlainParts, FreeIsFine DEF Fine
<1>3. /\ SetMemory \in Seq(NoStart) /\ Whole(SetMemory) /\ SetMemory # << >>
      /\ SetMemory[1] = Write("ERXST", {}) /\ SetMemory[1] \in Free
  BY <1>1, PlainParts, FreeIsFine DEF Fine
<1>4. /\ StartReceiving \in Seq(NoStart) /\ StartReceiving \in Seq(Unfiltered)
      /\ Whole(StartReceiving) /\ StartReceiving # << >> /\ StartReceiving[1] \in Free
  BY <1>1, ReceivingPart, FreeIsFine DEF Fine
<1>5. /\ SetMac \in Seq(NoStart) /\ Whole(SetMac) /\ SetMac # << >> /\ ~Relies(SetMac[1])
      /\ SetMac[1] \in NoStart /\ SetMac[1].selects
  <2>1. /\ SetMac \in Seq(NoStart) /\ Len(SetMac) = 9 /\ SetMac # << >> /\ Fine(SetMac)
        /\ SetMac[1] = Write("ERXFCON", Filter)
    BY MacPart
  <2>2. Write("ERXFCON", Filter).selects
    BY DEF Write, Op
  <2>3. SetMac[1] \in NoStart
    BY <2>1
  <2> QED BY <2>1, <2>2, <2>3 DEF Fine
<1>6. SetsLast(SetMac, Filter)
  <2>1. 1 \in 1 .. Len(SetMac) /\ SetMac[1] = Write("ERXFCON", Filter)
        /\ \A j \in 1 + 1 .. Len(SetMac) : SetMac[j] \in Unfiltered
    BY MacPart
  <2> QED BY <2>1 DEF SetsLast
<1>7. Follows(SoftReset[Len(SoftReset)], SetMemory[1])
  <2>1. SoftReset[Len(SoftReset)] = AwaitClock
    BY ResetPart
  <2>2. AwaitClock.how = "on" /\ Write("ERXST", {}).selects /\ Write("ERXST", {}).reg = "ERXST"
    BY DEF AwaitClock, Raw, Write, Op
  <2>3. BankOf("ERXST") = 0
    <3>1. "ERXST" \in Banks[1]
      BY DEF Banks
    <3> QED BY <3>1, BankIs
  <2> QED BY <1>3, <2>1, <2>2, <2>3 DEF Follows, Relies, ToBank0
<1>8. /\ Whole(a) /\ a \in Seq(NoStart) /\ a # << >> /\ a[1] = SoftReset[1]
  <2>1. SoftReset \in Seq(NoStart) /\ Chain(SoftReset) /\ SoftReset # << >>
    BY ResetPart
  <2> QED BY <1>3, <1>7, <2>1, Joined
<1> HIDE DEF a
<1>9. /\ Whole(b) /\ b \in Seq(NoStart) /\ b # << >> /\ b[1] = a[1]
  <2>1. Follows(a[Len(a)], WritePhy[1]) /\ Chain(a)
    BY <1>2, <1>8, FreeFollows DEF Whole
  <2> QED BY <1>2, <1>8, <2>1, Joined
<1> HIDE DEF b
<1>10. /\ Whole(c) /\ c \in Seq(NoStart) /\ c # << >> /\ c[1] = b[1] /\ SetsLast(c, Filter)
  <2>1. Follows(b[Len(b)], SetMac[1]) /\ Chain(b)
    BY <1>5, <1>9 DEF Whole, Follows, Complete
  <2> QED BY <1>5, <1>6, <1>9, <2>1, Joined, SetsLastJoined
<1> HIDE DEF c
<1>11. /\ Whole(d) /\ d \in Seq(NoStart) /\ d # << >> /\ d[1] = c[1] /\ SetsLast(d, Filter)
  <2>1. Follows(c[Len(c)], WritePhy[1]) /\ Chain(c)
    BY <1>2, <1>10, FreeFollows DEF Whole
  <2> QED BY <1>2, <1>10, <2>1, Joined, SetsLastJoined
<1> HIDE DEF d
<1> DEFINE e == d \o StartReceiving
<1>12. /\ Whole(e) /\ e \in Seq(NoStart) /\ e # << >> /\ e[1] = d[1] /\ SetsLast(e, Filter)
  <2>1. Follows(d[Len(d)], StartReceiving[1]) /\ Chain(d)
    BY <1>4, <1>11, FreeFollows DEF Whole
  <2> QED BY <1>4, <1>11, <2>1, Joined, SetsLastJoined
<1>13. Initialize = e
  BY DEF Initialize, a, b, c, d
<1>14. e[1] = SoftReset[1]
  BY <1>8, <1>9, <1>10, <1>11, <1>12
<1> HIDE DEF e
<1> QED BY <1>12, <1>13, <1>14, ResetPart DEF Fine

(* The two tests of doBIST.  The second starts with an access that relies  *)
(* on the bank of the last access of the first.                            *)
EndsInBank3(s) == Banked(s[Len(s)]) /\ BankOf(s[Len(s)].reg) = 3
(* Each test is whole; the first ends in the bank the second begins in.    *)
LEMMA BistParts ==
  /\ BistAddressFill \in Seq(NoStart) /\ BistAddressFill # << >> /\ Fine(BistAddressFill)
  /\ BistAddressFill[1].how = "reset" /\ EndsInBank3(BistAddressFill)
  /\ BistRandomFill \in Seq(NoStart) /\ BistRandomFill # << >> /\ Whole(BistRandomFill)
  /\ BankOf(BistRandomFill[1].reg) = 3
<1> DEFINE rest == BistChecksum
           clear == Raw("clear", "EBSTCON", {"TME"})
           off == Raw("off", "EBSTCON", {"BISTST"})
           dma == Raw("set", "ECON1", {"DMAST", "CSUMEN"})
           done == Raw("off", "ECON1", {"DMAST"})
           sums == Op("bank", "EDMACS", {})
           address == Write("EBSTCON", {"TME", "BISTST"})
           random == Write("EBSTCON", {"TME", "PSEL", "BISTST"})
           control == Write("ECON1", {})
           select == Op("bank", "EBSTCON", {})
           get(r) == Read(r)
           e(r) == Write(r, {})
<1>1. /\ "EBSTCON" \in Regs /\ "EBSTCON" \notin AllBanks /\ BankOf("EBSTCON") = 3
      /\ "EBSTCS" \in Regs /\ "EBSTCS" \notin AllBanks /\ BankOf("EBSTCS") = 3
      /\ "ECON1" \in AllBanks /\ "ECON1" \in Regs /\ BankOf("ECON1") = 0
  <2>1. "EBSTCON" \in Banks[4] /\ "EBSTCS" \in Banks[4] /\ "ECON1" \in AllBanks
    BY DEF Banks, AllBanks
  <2> QED BY <2>1, BankIs
<1>2. /\ clear \in AnyOp /\ clear.how = "clear" /\ clear.reg = "EBSTCON" /\ clear.selects = FALSE
      /\ off \in AnyOp /\ off.how = "off" /\ off.reg = "EBSTCON" /\ off.selects = FALSE
      /\ AwaitClock.reg = "ESTAT" /\ AwaitClock.selects = FALSE
  BY <1>1 DEF AnyOp, Raw, Hows, Bits, AwaitClock
<1>3. /\ dma \in AnyOp /\ dma.how = "set" /\ dma.reg = "ECON1" /\ dma.bits = {"DMAST", "CSUMEN"}
      /\ dma.selects = FALSE
      /\ done \in AnyOp /\ done.how = "off" /\ done.reg = "ECON1" /\ done.selects = FALSE
      /\ control \in AnyOp /\ control.how = "write" /\ control.reg = "ECON1" /\ control.bits = {}
      /\ control.selects = TRUE
  BY <1>1 DEF AnyOp, Raw, Write, Op, Hows, Bits
<1>4. /\ sums \in Plain /\ address \in Plain /\ random \in Plain /\ select \in Plain
      /\ \A r \in {"EDMAST", "EDMAND", "ERXND", "EBSTSD"} : e(r) \in Plain
      /\ \A r \in {"EDMACS", "EBSTCS"} : get(r) \in Plain
  <2>1. /\ {"EDMAST", "EDMAND", "ERXND", "EBSTSD", "EDMACS", "EBSTCS", "EBSTCON"}
              \subseteq Regs \ {"ECON1", "ECON2", "ERXFCON", "EIR"}
        /\ {"write", "read", "bank"} \subseteq Hows \ {"reset", "fill"}
        /\ {{}, {"TME", "BISTST"}, {"TME", "PSEL", "BISTST"}} \subseteq SUBSET Bits
    BY DEF Regs, Banks, Hows, Bits
  <2> QED BY <2>1, PlainOp DEF Read, Write
<1>5. /\ address.reg = "EBSTCON" /\ random.reg = "EBSTCON" /\ get("EBSTCS").reg = "EBSTCS"
  BY DEF Read, Write, Op
<1>6. rest = <<off, clear, dma, sums, done, get("EDMACS"), get("EBSTCS")>>
  BY DEF BistChecksum
<1>7. StartAddressFill = <<control, e("EDMAST"), e("EDMAND"), e("ERXND"), select, address>>
  BY DEF StartAddressFill
<1>8. StartRandomFill = <<clear, e("EBSTSD"), random>>
  BY DEF StartRandomFill
<1> HIDE DEF rest, clear, off, dma, done, sums, address, random, control, select, get, e
<1>9. /\ clear \in NoStart /\ off \in NoStart /\ dma \in NoStart /\ done \in NoStart /\ control \in NoStart
      /\ dma \in Free /\ done \in Free /\ control \in Free /\ Complete(clear) /\ Complete(off)
  BY <1>1, <1>2, <1>3 DEF Operations, NoStart, Free, Complete, Relies, Banked
<1>10. Plain \subseteq NoStart /\ Plain \subseteq Free
  BY DEF Plain, Mild
<1>11. ASSUME NEW o \in {off, clear, address, random}, NEW p \in {off, clear}, Complete(o)
       PROVE  Follows(o, p)
  BY <1>1, <1>2, <1>5, <1>11 DEF Follows, Banked, Complete
<1>12. /\ rest \in Seq(NoStart) /\ rest # << >> /\ rest[1] = off /\ Whole(rest) /\ EndsInBank3(rest)
  <2>1. rest \in Seq(NoStart) /\ rest # << >> /\ Len(rest) = 7
    BY <1>4, <1>6, <1>9, <1>10
  <2>2. /\ rest[1] = off /\ rest[2] = clear /\ rest[3] = dma /\ rest[4] = sums /\ rest[5] = done
        /\ rest[6] = get("EDMACS") /\ rest[7] = get("EBSTCS")
    BY <1>6
  <2>3. \A k \in 3 .. 7 : rest[k] \in Free
    BY <1>4, <1>9, <1>10, <2>2
  <2>4. \A k \in 1 .. 7 : Complete(rest[k])
    BY <1>9, <2>2, <2>3 DEF Free
  <2>5. \A k \in 1 .. 6 : Follows(rest[k], rest[k + 1])
    <3>1. Follows(rest[1], rest[2])
      BY <1>9, <1>11, <2>2
    <3>2. ASSUME NEW k \in 2 .. 6 PROVE Follows(rest[k], rest[k + 1])
      <4>1. Complete(rest[k]) /\ rest[k + 1] \in Free
        BY <2>3, <2>4
      <4> QED BY <4>1 DEF Follows, Free, Complete
    <3> QED BY <3>1, <3>2
  <2>6. Whole(rest)
    BY <2>1, <2>4, <2>5 DEF Whole, Chain
  <2> QED BY <1>1, <1>5, <2>1, <2>2, <2>6 DEF EndsInBank3, Banked
<1>13. /\ StartAddressFill \in Seq(NoStart) /\ StartAddressFill # << >> /\ Whole(StartAddressFill)
       /\ StartAddressFill[1] = control /\ StartAddressFill[Len(StartAddressFill)] = address
  <2>1. StartAddressFill \in Seq(Free)
    BY <1>4, <1>7, <1>9, <1>10
  <2>2. /\ StartAddressFill \in Seq(NoStart) /\ StartAddressFill # << >> /\ Len(StartAddressFill) = 6
        /\ StartAddressFill[1] = control /\ StartAddressFill[6] = address
    BY <1>4, <1>7, <1>9, <1>10
  <2> QED BY <2>1, <2>2, FreeIsFine DEF Fine
<1>14. /\ StartRandomFill \in Seq(NoStart) /\ StartRandomFill # << >> /\ Whole(StartRandomFill)
       /\ StartRandomFill[1] = clear /\ StartRandomFill[Len(StartRandomFill)] = random
  <2>1. /\ StartRandomFill \in Seq(NoStart) /\ StartRandomFill # << >> /\ Len(StartRandomFill) = 3
        /\ StartRandomFill[1] = clear /\ StartRandomFill[2] = e("EBSTSD") /\ StartRandomFill[3] = random
    BY <1>4, <1>8, <1>9, <1>10
  <2>2. \A k \in 2 .. 3 : StartRandomFill[k] \in Free
    BY <1>4, <1>10, <2>1
  <2>3. Complete(StartRandomFill[1]) /\ Complete(StartRandomFill[2]) /\ Complete(StartRandomFill[3])
    BY <1>9, <2>1, <2>2 DEF Free
  <2>4. \A k \in 1 .. 2 : Follows(StartRandomFill[k], StartRandomFill[k + 1])
    BY <2>2, <2>3 DEF Follows, Free, Complete
  <2> QED BY <2>1, <2>3, <2>4 DEF Whole, Chain
<1>15. Complete(address) /\ Complete(random)
  BY <1>4, <1>10 DEF Free
<1>16. /\ Whole(StartRandomFill \o rest) /\ StartRandomFill \o rest \in Seq(NoStart)
       /\ StartRandomFill \o rest # << >> /\ (StartRandomFill \o rest)[1] = clear
  <2>1. Follows(random, off)
    BY <1>11, <1>15
  <2> QED BY <1>12, <1>14, <2>1, Joined DEF Whole
<1> DEFINE a == SoftReset \o StartAddressFill
<1>17. Whole(a) /\ a \in Seq(NoStart) /\ a # << >> /\ a[1] = SoftReset[1] /\ a[Len(a)] = address
  <2>1. SoftReset[Len(SoftReset)] = AwaitClock /\ AwaitClock.how = "on"
    BY ResetPart DEF AwaitClock, Raw
  <2>2. Follows(AwaitClock, control)
    BY <1>1, <1>3, <1>9, <2>1 DEF Follows, ToBank0, Free
  <2>3. SoftReset \in Seq(NoStart) /\ Chain(SoftReset) /\ SoftReset # << >>
    BY ResetPart
  <2> QED BY <1>13, <2>1, <2>2, <2>3, Joined
<1> HIDE DEF a
<1>18. /\ Whole(a \o rest) /\ a \o rest \in Seq(NoStart) /\ a \o rest # << >>
       /\ (a \o rest)[1] = SoftReset[1] /\ EndsInBank3(a \o rest)
  <2>1. Follows(address, off)
    BY <1>11, <1>15
  <2> QED BY <1>12, <1>17, <2>1, Joined DEF Whole, EndsInBank3
<1>19. BistAddressFill = a \o rest /\ BistRandomFill = StartRandomFill \o rest
  BY DEF BistAddressFill, BistRandomFill, a, rest
<1> QED BY <1>1, <1>2, <1>16, <1>18, <1>19, ResetPart DEF Fine

-----------------------------------------------------------------------------
Names ==
  {"none", "initialize", "bist", "bist2", "straight", "powerDown", "start", "wait", "look", "cancel"}
TypeInv ==
  /\ variant \in Variants /\ call \in Names /\ todo \in Seq(Operations)
  /\ begun \in BOOLEAN /\ broadcast_enabled \in BOOLEAN /\ promiscuous_enabled \in BOOLEAN
  /\ Enc28j60Bank \in 0 .. 3 /\ bank \in 0 .. 3
  /\ retry \in Nat /\ count \in Nat /\ given \in Nat
  /\ regs \in [Regs -> SUBSET Bits]
  /\ call \in {"none", "wait", "look"} => todo = << >>

(* The driver's copy of the bank is the chip's, but for a reset that is    *)
(* not over yet: then bank 0 is selected, and will be again.               *)
InStep ==
  \/ Enc28j60Bank = bank
  \/ bank = 0 /\ todo # << >> /\ (Head(todo) = AwaitClock \/ ToBank0(Head(todo)))
Served == todo # << >> /\ Relies(Head(todo)) => bank = BankOf(Head(todo).reg)
BistLast ==
  call = "bist" =>
    IF todo = << >> THEN bank = 3
    ELSE Banked(todo[Len(todo)]) /\ BankOf(todo[Len(todo)].reg) = 3
BankInv == TypeInv /\ Whole(todo) /\ InStep /\ Served /\ BistLast

(* The filter is as it should be, or the operations under way make it so.  *)
Heard(bits) ==
  \/ bits = {"CRCEN"}
  \/ /\ {"UCEN", "CRCEN", "PMEN"} \subseteq bits
     /\ broadcast_enabled => "BCEN" \in bits
WillSetFilter == \E bits \in SUBSET Bits : Heard(bits) /\ SetsLast(todo, bits)
HearsOrWill == WillSetFilter \/ (todo \in Seq(Unfiltered) /\ Heard(regs["ERXFCON"]))
FilterInv ==
  /\ TypeInv
  /\ call \in {"bist", "bist2"} => ~begun
  /\ ~variant.mixes /\ (begun \/ call = "initialize") => HearsOrWill

-----------------------------------------------------------------------------
(* A frame is on its way out (On).  Between calls it is so with pipelining *)
(* only; straight functions leave it alone, powerDown waits for its end    *)
(* first, and initialize and doBIST begin with a reset.  packetSend starts *)
(* it last, once its flags are clear, and has had Patience when it stops   *)
(* it; all this time the chip is awake.                                    *)
On == "TXRTS" \in regs["ECON1"]
Between ==
  /\ call \in {"none", "straight", "powerDown", "bist", "bist2", "initialize"} /\ On =>
       variant.pipelining
  /\ call \in {"straight", "powerDown", "bist", "bist2", "initialize", "cancel"} =>
       todo \in Seq(NoStart)
Undisturbed ==
  /\ call = "straight" /\ On => todo \in Seq(Mild)
  /\ call = "powerDown" /\ On =>
       \E k \in 1 .. Len(todo) : todo[k] = Awaits /\ \A j \in 1 .. k : todo[j] \in Mild
  /\ call \in {"bist", "initialize"} /\ On => todo # << >> /\ Head(todo).how = "reset"
  /\ call = "bist2" => ~On
Starting ==
  call = "start" /\ todo # << >> =>
    /\ ~On /\ \A k \in 1 .. Len(todo) - 1 : todo[k] \in NoStart
    /\ regs["EIR"] = {} \/ \E k \in 1 .. Len(todo) - 1 : todo[k] = ClearsFlags
Looked ==
  /\ call = "look" /\ On => count = Patience
  /\ call = "wait" => count < Patience
  /\ call = "cancel" /\ On => count = Patience /\ todo # << >> /\ Head(todo) = Cancels
FlagsRight == regs["EIR"] \subseteq {"TXERIF", "TXIF"} /\ (On => regs["EIR"] = {})
Awake ==
  /\ Asleep => ~On
  /\ call \in {"start", "wait", "look", "cancel"} => ~Asleep /\ todo \in Seq(Powered)
SendInv == TypeInv /\ FlagsRight /\ Awake /\ Between /\ Undisturbed /\ Starting /\ Looked

-----------------------------------------------------------------------------
(* Steps of four kinds: an operation, a turn of the program (a call, or    *)
(* the next part of a function whose operations are done), the end of a    *)
(* transmission, and the work of the other units of the chip.              *)
Turn ==
  \/ Started \/ Poll \/ Look \/ RetryAfterLateCollision \/ GiveUp
  \/ InitializeReturns \/ Returns \/ BistGoesOn \/ Calls
Unit == Works \/ ClockStarts \/ ReceiveBegins \/ ClockStops

(* There are no other steps.                                               *)
LEMMA Kinds == Next => Operate \/ Turn \/ TransmissionEnds \/ Unit
BY DEF Next, Driver, Turn, Unit

(* What a unit of the chip leaves alone.                                   *)
LEMMA UnitIs ==
  ASSUME TypeInv, Unit
  PROVE  /\ UNCHANGED <<variant, call, todo, begun, Enc28j60Bank, sending, flags, bank, txmem>>
         /\ regs' \in [Regs -> SUBSET Bits] /\ On' = On
         /\ \A r \in {"ECON2", "EIR", "ERXFCON"} : regs'[r] = regs[r]
<1>1. {"ECON1", "ECON2", "EIR", "ERXFCON", "ESTAT", "MISTAT", "EBSTCON"} \subseteq Regs
      /\ {"RXBUSY", "CLKRDY"} \subseteq Bits /\ regs \in [Regs -> SUBSET Bits]
  BY DEF Regs, AllBanks, Banks, Bits, TypeInv
<1>2. \E r \in {"ESTAT", "MISTAT", "EBSTCON", "ECON1"}, bits \in SUBSET Bits :
        Chip(r, bits) /\ (r = "ECON1" => ("TXRTS" \in bits) = On)
  <2>1. CASE Works
    <3>1. PICK u \in Units : Finishes(u[1], u[2])
      BY <2>1 DEF Works
    <3>2. /\ u[1] \in {"ESTAT", "MISTAT", "EBSTCON", "ECON1"} /\ u[2] # "TXRTS"
      BY DEF Units
    <3>3. regs[u[1]] \ {u[2]} \in SUBSET Bits
      BY <1>1, <3>2
    <3>4. u[1] = "ECON1" => ("TXRTS" \in regs[u[1]] \ {u[2]}) = On
      BY <3>2 DEF On
    <3> QED BY <3>1, <3>2, <3>3, <3>4 DEF Finishes
  <2>2. CASE ClockStarts \/ ReceiveBegins
    <3>1. /\ regs["ESTAT"] \union {"CLKRDY"} \in SUBSET Bits
          /\ regs["ESTAT"] \union {"RXBUSY"} \in SUBSET Bits
      BY <1>1
    <3> QED BY <2>2, <3>1 DEF ClockStarts, ReceiveBegins
  <2>3. CASE ClockStops
    <3>1. regs["ESTAT"] \ {"CLKRDY"} \in SUBSET Bits
      BY <1>1
    <3> QED BY <2>3, <3>1 DEF ClockStops, Finishes
  <2> QED BY <2>1, <2>2, <2>3 DEF Unit
<1>3. PICK r \in {"ESTAT", "MISTAT", "EBSTCON", "ECON1"}, bits \in SUBSET Bits :
        Chip(r, bits) /\ (r = "ECON1" => ("TXRTS" \in bits) = On)
  BY <1>2
<1>4. regs' = [regs EXCEPT ![r] = bits]
      /\ UNCHANGED <<variant, call, todo, begun, Enc28j60Bank, sending, flags, bank, txmem>>
  BY <1>3 DEF Chip
<1>5. regs' \in [Regs -> SUBSET Bits] /\ \A q \in {"ECON2", "EIR", "ERXFCON"} : regs'[q] = regs[q]
  BY <1>1, <1>4
<1>6. On' = On
  BY <1>1, <1>3, <1>4 DEF On
<1> QED BY <1>4, <1>5, <1>6

(* What an operation does to the registers that matter here.               *)
LEMMA OperateIs ==
  ASSUME TypeInv, Operate
  PROVE  LET op == Head(todo) IN
         /\ todo # << >> /\ todo' = Tail(todo) /\ op \in Operations
         /\ UNCHANGED <<variant, call, begun, sending, flags>>
         /\ regs' \in [Regs -> SUBSET Bits]
         /\ \A r \in {"ECON1", "ECON2", "EIR", "ERXFCON"} :
              regs'[r] = IF op.how = "reset" THEN AfterReset[r]
                         ELSE IF op.reg = r THEN NewBits(op) ELSE regs[r]
         /\ op.reg = "ECON1" /\ op.how = "off" => op.bits \intersect regs["ECON1"] = {}
         /\ txmem' # txmem => op.how = "fill"
<1> DEFINE op == Head(todo)
<1>1. todo # << >> /\ todo \in Seq(Operations) /\ op \in Operations
  BY Shorter DEF TypeInv, Operate
<1>2. op \in AnyOp /\ op.reg \in Regs /\ op.bits \in SUBSET Bits
  BY <1>1 DEF Operations, AnyOp
<1>3. {"ECON1", "ECON2", "EIR", "ERXFCON", "MISTAT"} \subseteq Regs /\ "BUSY" \in Bits
      /\ regs \in [Regs -> SUBSET Bits]
  BY DEF Regs, AllBanks, Banks, Bits, TypeInv
<1>4. AfterReset \in [Regs -> SUBSET Bits]
  BY DEF AfterReset, Bits
<1> HIDE DEF op
<1>5. NewBits(op) \in SUBSET Bits
  BY <1>2, <1>3 DEF NewBits
<1>6. regs' = IF op.how = "reset" THEN AfterReset
              ELSE [regs EXCEPT ![op.reg] = NewBits(op),
                     !["MISTAT"] = IF op.how = "write" /\ (op.reg = "MIWR" \/ "MIIRD" \in op.bits)
                                   THEN {"BUSY"} ELSE @]
  BY DEF Operate, op
<1>7. regs' \in [Regs -> SUBSET Bits]
  BY <1>2, <1>3, <1>4, <1>5, <1>6
<1>8. \A r \in {"ECON1", "ECON2", "EIR", "ERXFCON"} :
        regs'[r] = IF op.how = "reset" THEN AfterReset[r]
                   ELSE IF op.reg = r THEN NewBits(op) ELSE regs[r]
  BY <1>2, <1>3, <1>6
<1>9. /\ todo' = Tail(todo) /\ UNCHANGED <<variant, call, begun, sending, flags>>
      /\ op.reg = "ECON1" /\ op.how = "off" => op.bits \intersect regs["ECON1"] = {}
      /\ txmem' # txmem => op.how = "fill"
  BY DEF Operate, op
<1> QED BY <1>1, <1>7, <1>8, <1>9 DEF op

(* What the turns of the program give it to do next.                       *)
Tasks ==
  {ReadPhyByte, Copyout, Copyin, PowerDown, PowerUp, << >>, Initialize, BistAddressFill}
  \union {Start(again) : again \in BOOLEAN}
  \union {<<Cancels>> \o s : s \in {ReadTsv, << >>}}
  \union {<<Read("ERXFCON"), Write("ERXFCON", bits)>> : bits \in SUBSET Bits}
  \union {<<Write("ERXFCON", bits)>> : bits \in SUBSET Bits}

(* They are whole, and all but the second test rely on no bank.            *)
LEMMA TasksFine ==
  /\ \A s \in Tasks : s \in Seq(Operations) /\ Fine(s)
  /\ BistRandomFill \in Seq(Operations) /\ Whole(BistRandomFill)
<1>1. ASSUME NEW S \in SUBSET Free, NEW s \in Seq(S) PROVE s \in Seq(Operations) /\ Fine(s)
  <2>1. s \in Seq(Free) /\ Free \subseteq Operations
    BY <1>1 DEF Free
  <2> QED BY <2>1, FreeIsFine
<1>2. \A s \in {ReadPhyByte, Copyout, Copyin} : s \in Seq(Operations) /\ Fine(s)
  <2>1. Plain \subseteq Free
    BY DEF Plain
  <2> QED BY <1>1, <2>1, PlainParts
<1>3. \A s \in {PowerDown, PowerUp} : s \in Seq(Operations) /\ Fine(s)
  <2>1. Free \intersect NoStart \intersect Unfiltered \subseteq Free
    OBVIOUS
  <2> QED BY <1>1, <2>1, PowerParts
<1>4. << >> \in Seq(Operations) /\ Fine(<< >>)
  <2>1. << >> \in Seq(Free)
    OBVIOUS
  <2> QED BY <1>1, <2>1
<1>5. \A s \in {Initialize, BistAddressFill} : s \in Seq(Operations) /\ Fine(s)
  <2>1. NoStart \subseteq Operations
    BY DEF NoStart
  <2> QED BY <2>1, InitializeParts, BistParts
<1>6. ASSUME NEW again \in BOOLEAN PROVE Start(again) \in Seq(Operations) /\ Fine(Start(again))
  <2>1. Free \intersect Powered \intersect Unfiltered \subseteq Free
    OBVIOUS
  <2> QED BY <1>1, <2>1, StartParts
<1>7. ASSUME NEW s \in {ReadTsv, << >>}
      PROVE  <<Cancels>> \o s \in Seq(Operations) /\ Fine(<<Cancels>> \o s)
  <2>1. Free \intersect NoStart \intersect Powered \intersect Unfiltered \subseteq Free
    OBVIOUS
  <2> QED BY <1>1, <2>1, CancelParts
<1>8. ASSUME NEW bits \in SUBSET Bits,
             NEW s \in {<<Read("ERXFCON"), Write("ERXFCON", bits)>>, <<Write("ERXFCON", bits)>>}
      PROVE  s \in Seq(Operations) /\ Fine(s)
  <2>1. Free \intersect Mild \subseteq Free
    OBVIOUS
  <2> QED BY <1>1, <2>1, FilterParts
<1>9. BistRandomFill \in Seq(Operations) /\ Whole(BistRandomFill)
  <2>1. NoStart \subseteq Operations
    BY DEF NoStart
  <2> QED BY <2>1, BistParts
<1> QED BY <1>2, <1>3, <1>4, <1>5, <1>6, <1>7, <1>8, <1>9 DEF Tasks

(* A turn comes when nothing is left to do.  It leaves the registers       *)
(* alone; only the second test of doBIST may rely on the bank.             *)
LEMMA TurnIs ==
  ASSUME TypeInv, Turn
  PROVE  /\ todo = << >> /\ TypeInv' /\ UNCHANGED <<variant, regs, txmem>>
         /\ todo' \in Tasks \/ (BistGoesOn /\ todo' = BistRandomFill)
         /\ UNCHANGED <<Enc28j60Bank, bank>> \/ (ReadEir /\ ~BistGoesOn)
         /\ call' = "bist" => todo' = BistAddressFill
<1> USE DEF TypeInv, Names, sending, flags, chip, Called
<1>0. DriverAssumption
  BY DriverAssumption
<1>1. << >> \in Tasks /\ Start(TRUE) \in Tasks /\ Start(FALSE) \in Tasks
  BY DEF Tasks
<1>2. \A s \in Tasks : s \in Seq(Operations)
  BY TasksFine
<1>3. BankOf("EIR") = 0 /\ Read("EIR").reg = "EIR"
  <2>1. "EIR" \in AllBanks
    BY DEF AllBanks
  <2> QED BY <2>1, BankIs DEF Read, Op
<1>4. ASSUME ReadEir
      PROVE  Enc28j60Bank' \in 0 .. 3 /\ bank' \in 0 .. 3 /\ UNCHANGED <<regs, txmem>>
  BY <1>3, <1>4 DEF ReadEir, Selected
<1>5. CASE Started \/ InitializeReturns \/ Returns
  <2> USE <1>5, <1>1
  <2>1. todo = << >> /\ todo' = << >> /\ call' # "bist"
    BY DEF Started, InitializeReturns, Returns, Wait
  <2>2. UNCHANGED <<variant, regs, txmem, Enc28j60Bank, bank>>
    BY DEF Started, InitializeReturns, Returns, Wait
  <2>3. call' \in {"none", "wait"} /\ begun' \in BOOLEAN
    BY DEF Started, InitializeReturns, Returns, Wait
  <2>4. count' \in Nat /\ UNCHANGED <<retry, given, flags>>
    BY DEF Started, InitializeReturns, Returns, Wait
  <2>5. todo' \in Seq(Operations)
    BY <1>2, <2>1
  <2>6. TypeInv'
    BY <2>1, <2>2, <2>3, <2>4, <2>5
  <2> QED BY <2>1, <2>2, <2>6 DEF BistGoesOn, ReadEir
<1>6. CASE Poll
  <2>1. todo = << >> /\ todo' = << >> /\ call' # "bist" /\ ReadEir /\ UNCHANGED variant
    BY <1>6 DEF Poll
  <2>2. /\ call' \in {"wait", "look"} /\ count' \in Nat
        /\ UNCHANGED <<begun, retry, given, flags>>
    BY <1>6 DEF Poll
  <2>4. TypeInv'
    BY <1>1, <1>2, <1>4, <2>1, <2>2
  <2>3. ~BistGoesOn
    BY <1>6 DEF Poll, BistGoesOn
  <2> QED BY <1>1, <1>4, <2>1, <2>3, <2>4
<1>7. CASE Look
  <2> USE <1>7
  <2> DEFINE c == <<Cancels>> \o (IF variant.retry THEN ReadTsv ELSE << >>)
  <2>4. /\ call = "look" /\ ReadEir
        /\ Done \/ (Called("cancel", c) /\ UNCHANGED <<variant, begun, sending, flags>>)
    BY DEF Look, Cancels
  <2> HIDE DEF c
  <2>1. /\ todo = << >> /\ call = "look" /\ ReadEir /\ UNCHANGED <<variant, begun, flags, given>>
        /\ call' \in {"start", "none", "cancel"} /\ retry' \in Nat /\ count' \in Nat
        /\ call' = "none" => todo' = << >>
    <3>1. todo = << >> /\ call = "look" /\ ReadEir /\ retry \in Nat /\ count \in Nat
      BY <2>4
    <3>2. CASE Done
      BY <3>1, <3>2 DEF Done
    <3>3. CASE Called("cancel", c) /\ UNCHANGED <<variant, begun, sending, flags>>
      BY <3>1, <3>3
    <3> QED BY <2>4, <3>2, <3>3
  <2>2. todo' \in Tasks
    <3>1. {<<Cancels>> \o s : s \in {ReadTsv, << >>}} \subseteq Tasks
      BY DEF Tasks
    <3>2. <<Cancels>> \o (IF variant.retry THEN ReadTsv ELSE << >>)
            \in {<<Cancels>> \o s : s \in {ReadTsv, << >>}}
      OBVIOUS
    <3> QED BY <1>1, <2>4, <3>1, <3>2 DEF Done, c
  <2>3. TypeInv'
    BY <1>2, <1>4, <2>1, <2>2
  <2> QED BY <1>4, <2>1, <2>2, <2>3 DEF BistGoesOn
<1>8. CASE RetryAfterLateCollision
  <2>1. /\ todo = << >> /\ call' = "start" /\ todo' = Start(TRUE) /\ ReadEir
        /\ UNCHANGED <<variant, begun, flags, given, count>> /\ retry' \in Nat /\ call = "cancel"
    BY <1>8 DEF RetryAfterLateCollision
  <2> QED BY <1>1, <1>2, <1>4, <2>1 DEF BistGoesOn
<1>9. CASE GiveUp
  <2>1. /\ todo = << >> /\ call = "cancel" /\ (ReadEir \/ UNCHANGED <<Enc28j60Bank, chip>>)
        /\ UNCHANGED <<variant, begun, flags, given>> /\ retry' \in Nat /\ count' \in Nat
        /\ (call' = "start" /\ todo' = Start(FALSE)) \/ (call' = "none" /\ todo' = << >>)
    BY <1>9 DEF GiveUp, Done
  <2>2. UNCHANGED <<regs, txmem>> /\ Enc28j60Bank' \in 0 .. 3 /\ bank' \in 0 .. 3
    <3>1. CASE UNCHANGED <<Enc28j60Bank, chip>>
      BY <3>1
    <3> QED BY <1>4, <2>1, <3>1
  <2>3. TypeInv'
    BY <1>1, <1>2, <2>1, <2>2
  <2>4. ~BistGoesOn /\ todo' \in Tasks /\ call' # "bist"
    BY <1>1, <2>1 DEF BistGoesOn
  <2> QED BY <2>1, <2>2, <2>3, <2>4
<1>10. CASE BistGoesOn
  <2>1. todo = << >> /\ call' = "bist2" /\ todo' = BistRandomFill
        /\ UNCHANGED <<variant, begun, Enc28j60Bank, sending, flags, chip>>
    BY <1>10 DEF BistGoesOn
  <2> QED BY <1>10, <2>1, TasksFine
<1>11. CASE Calls
  <2> USE <1>11
  <2> DEFINE Filters == {<<Read("ERXFCON"), Write("ERXFCON", bits)>> : bits \in SUBSET Bits}
                        \union {<<Write("ERXFCON", bits)>> : bits \in SUBSET Bits}
  <2>1. call = "none" /\ todo = << >> /\ UNCHANGED <<variant, Enc28j60Bank, chip>> /\ ~BistGoesOn
    BY DEF Calls, CallInitialize, CallDoBist, CallStraight, SwitchFilter, SwitchPromiscuous,
           PacketSend, Ready, BistGoesOn
  <2>2. CASE CallInitialize \/ CallDoBist \/ CallStraight
    <3>1. todo' \in Tasks /\ call' \in Names \ {"none", "wait", "look"}
          /\ (call' = "bist" => todo' = BistAddressFill)
      BY <2>2 DEF CallInitialize, CallDoBist, CallStraight, Tasks
    <3>2. TypeInv'
      BY <1>2, <2>1, <2>2, <3>1 DEF CallInitialize, CallDoBist, CallStraight
    <3> QED BY <2>1, <3>1, <3>2
  <2>3. CASE SwitchFilter \/ SwitchPromiscuous
    <3>1. "ERXFCON" \in Regs /\ Filter \in SUBSET Bits /\ regs["ERXFCON"] \in SUBSET Bits
      BY DEF Regs, Banks, Filter, Bits
    <3>2. \A bits \in SUBSET Bits : SetFilter(bits) => call' = "straight" /\ todo' \in Tasks
      BY DEF SetFilter, Tasks
    <3>3. CASE SwitchFilter
      <4>1. /\ BroadcastOn \in SUBSET Bits /\ regs["ERXFCON"] \ {"BCEN"} \in SUBSET Bits
            /\ regs["ERXFCON"] \union {"MCEN"} \in SUBSET Bits
            /\ regs["ERXFCON"] \ {"MCEN"} \in SUBSET Bits
        BY <3>1 DEF BroadcastOn, Bits
      <4>2. call' = "straight" /\ todo' \in Tasks /\ broadcast_enabled' \in BOOLEAN
        BY <1>1, <3>2, <3>3, <4>1 DEF SwitchFilter
      <4>3. TypeInv'
        BY <1>2, <2>1, <3>3, <4>2 DEF SwitchFilter
      <4> QED BY <2>1, <4>2, <4>3
    <3>4. CASE SwitchPromiscuous
      <4>1. Promiscuous \in SUBSET Bits
        BY <3>1 DEF Promiscuous
      <4>2. <<Write("ERXFCON", Filter)>> \in Tasks
        BY <3>1 DEF Tasks
      <4>3. call' = "straight" /\ todo' \in Tasks /\ promiscuous_enabled' \in BOOLEAN
        BY <1>1, <3>2, <3>4, <4>1, <4>2 DEF SwitchPromiscuous
      <4>4. TypeInv'
        BY <1>2, <2>1, <3>4, <4>3 DEF SwitchPromiscuous
      <4> QED BY <2>1, <4>3, <4>4
    <3> QED BY <2>3, <3>3, <3>4
  <2>4. CASE PacketSend
    <3>3. /\ UNCHANGED <<begun, flags>> /\ given' \in Nat /\ retry' = 0
      BY <2>4 DEF PacketSend
    <3>4. \/ call' = "wait" /\ todo' = << >> /\ count' = 0
          \/ call' = "start" /\ todo' = Start(FALSE) /\ count' = count
      BY <2>4 DEF PacketSend, Wait
    <3>1. /\ call' \in {"wait", "start"} /\ todo' \in Tasks /\ count' \in Nat
          /\ (call' = "wait" => todo' = << >>)
      <4>1. count \in Nat /\ 0 \in Nat
        OBVIOUS
      <4>2. CASE call' = "wait" /\ todo' = << >> /\ count' = 0
        BY <1>1, <4>1, <4>2
      <4>3. CASE call' = "start" /\ todo' = Start(FALSE) /\ count' = count
        BY <1>1, <4>1, <4>3
      <4> QED BY <3>4, <4>2, <4>3
    <3>2. TypeInv'
      BY <1>2, <2>1, <3>1, <3>3
    <3> QED BY <2>1, <3>1, <3>2
  <2> QED BY <2>1, <2>2, <2>3, <2>4 DEF Calls
<1> QED BY <1>5, <1>6, <1>7, <1>8, <1>9, <1>10, <1>11 DEF Turn

(* Types are kept.                                                         *)
LEMMA TypeStep == TypeInv /\ [Next]_vars => TypeInv'
<1> SUFFICES ASSUME TypeInv, [Next]_vars PROVE TypeInv'
  OBVIOUS
<1>1. CASE Operate
  <2> DEFINE op == Head(todo)
  <2>1. /\ todo # << >> /\ todo' = Tail(todo) /\ op \in Operations
        /\ UNCHANGED <<variant, call, begun, sending, flags>> /\ regs' \in [Regs -> SUBSET Bits]
    BY <1>1, OperateIs
  <2>2. BankOf(op.reg) \in 0 .. 3
    BY <2>1, BankIs DEF Operations, AnyOp
  <2>3. Enc28j60Bank' \in 0 .. 3 /\ bank' \in 0 .. 3
    BY <1>1, <2>2 DEF Operate, Selected, TypeInv
  <2>4. Tail(todo) \in Seq(Operations)
    BY <2>1, Shorter DEF TypeInv
  <2> QED BY <2>1, <2>3, <2>4 DEF TypeInv, sending, flags
<1>2. CASE Turn
  BY <1>2, TurnIs
<1>3. CASE TransmissionEnds
  <2>1. {"ECON1", "EIR"} \subseteq Regs /\ {"TXIF", "TXERIF"} \subseteq Bits
    BY DEF Regs, AllBanks, Bits
  <2>2. regs' \in [Regs -> SUBSET Bits]
    BY <1>3, <2>1 DEF TransmissionEnds, TypeInv
  <2> QED BY <1>3, <2>2 DEF TransmissionEnds, TypeInv, sending, flags
<1>4. CASE Unit
  BY <1>4, UnitIs DEF TypeInv, sending, flags
<1>5. CASE UNCHANGED vars
  BY <1>5 DEF vars, TypeInv, sending, flags, chip
<1> QED BY <1>1, <1>2, <1>3, <1>4, <1>5, Kinds

(* Types are right at first.                                               *)
LEMMA TypeInit == Init => TypeInv
<1> SUFFICES ASSUME Init PROVE TypeInv
  OBVIOUS
<1>1. regs \in [Regs -> SUBSET Bits]
  <2>1. AfterReset \in [Regs -> SUBSET Bits]
    BY DEF AfterReset, Bits
  <2> QED BY <2>1 DEF Init
<1>2. todo = << >> /\ todo \in Seq(Operations)
  BY TasksFine DEF Init, Tasks
<1>3. /\ call = "none" /\ begun = FALSE /\ Enc28j60Bank = 0 /\ bank = 0 /\ retry = 0 /\ count = 0
      /\ broadcast_enabled = FALSE /\ promiscuous_enabled = FALSE /\ given = 0
      /\ variant \in Variants
  BY DEF Init
<1>4. begun \in BOOLEAN /\ broadcast_enabled \in BOOLEAN /\ promiscuous_enabled \in BOOLEAN
  BY <1>3, Zenon
<1>5. /\ retry \in Nat /\ count \in Nat /\ given \in Nat /\ call \in Names
      /\ Enc28j60Bank \in 0 .. 3 /\ bank \in 0 .. 3
  BY <1>3 DEF Names
<1> QED BY <1>1, <1>2, <1>3, <1>4, <1>5 DEF TypeInv

-----------------------------------------------------------------------------
(* Banks.  An operation uses, or selects, the bank of its register; it     *)
(* leaves the two banks the same, or resets the chip.                      *)
LEMMA OperateBank ==
  ASSUME BankInv, Operate, NEW op, op = Head(todo)
  PROVE  /\ op.how = "reset" => bank' = 0
         /\ op.how # "reset" /\ op # AwaitClock =>
              Enc28j60Bank' = bank' /\ (Banked(op) => bank' = BankOf(op.reg))
         /\ op = AwaitClock => UNCHANGED <<Enc28j60Bank, bank>>
<1>1. /\ todo # << >> /\ op \in Operations
  BY OperateIs DEF BankInv
<1>2. /\ op.reg \in Regs /\ BankOf(op.reg) \in 0 .. 3 /\ op.selects \in BOOLEAN
      /\ (op.how = "write" => op.selects) /\ (op.how = "reset" => ~op.selects)
  BY <1>1, BankIs DEF Operations, AnyOp
<1>3. BankOf("ECON1") = 0
  <2>1. "ECON1" \in AllBanks
    BY DEF AllBanks
  <2> QED BY <2>1, BankIs
<1>4. /\ Enc28j60Bank' = (IF op.selects THEN BankOf(op.reg) ELSE Enc28j60Bank)
      /\ bank' = IF op.how = "reset" \/ (op.how = "write" /\ op.reg = "ECON1") THEN 0
                 ELSE IF op.selects /\ BankOf(op.reg) # Enc28j60Bank THEN BankOf(op.reg) ELSE bank
  BY DEF Operate, Selected
<1>5. AwaitClock.how = "on" /\ AwaitClock.selects = FALSE
  BY DEF AwaitClock, Raw
<1>6. CASE op.selects
  <2>1. op # AwaitClock /\ (Enc28j60Bank = bank \/ (bank = 0 /\ BankOf(op.reg) = 0))
    BY <1>1, <1>5, <1>6 DEF BankInv, InStep, ToBank0
  <2> QED BY <1>2, <1>3, <1>4, <1>5, <1>6, <2>1
<1>7. CASE ~op.selects
  <2>1. op # AwaitClock => Enc28j60Bank = bank \/ op.how = "reset"
    BY <1>1, <1>7 DEF BankInv, InStep, ToBank0
  <2>2. Banked(op) => bank = BankOf(op.reg)
    BY <1>1, <1>7 DEF BankInv, Served, Relies
  <2> QED BY <1>2, <1>4, <1>5, <1>7, <2>1, <2>2
<1> QED BY <1>2, <1>6, <1>7

(* Every step keeps the banks in step.                                     *)
LEMMA BankStep == BankInv /\ [Next]_vars => BankInv'
<1> SUFFICES ASSUME BankInv, [Next]_vars PROVE BankInv'
  OBVIOUS
<1>1. TypeInv /\ TypeInv'
  BY TypeStep DEF BankInv
<1>2. CASE Operate
  <2> DEFINE op == Head(todo)
             t == Tail(todo)
  <2>1. todo # << >> /\ todo' = t /\ op \in Operations /\ call' = call
    BY <1>1, <1>2, OperateIs
  <2>2. /\ Whole(t) /\ op = todo[1] /\ Len(todo) \in Nat \ {0}
        /\ (t # << >> => t[Len(t)] = todo[Len(todo)]) /\ (t = << >> => Len(todo) = 1)
        /\ IF t = << >> THEN Complete(op) ELSE Follows(op, Head(t))
    BY <2>1, Shorter DEF TypeInv, BankInv
  <2>3. /\ op.how = "reset" => bank' = 0
        /\ op.how # "reset" /\ op # AwaitClock =>
             Enc28j60Bank' = bank' /\ (Banked(op) => bank' = BankOf(op.reg))
        /\ op = AwaitClock => UNCHANGED <<Enc28j60Bank, bank>>
    BY <1>2, OperateBank
  <2>4. AwaitClock.how = "on" /\ AwaitClock.reg = "ESTAT" /\ "ESTAT" \in AllBanks
    BY DEF AwaitClock, Raw, AllBanks
  <2> HIDE DEF op, t
  <2>5. InStep'
    <3>1. CASE op.how = "reset"
      BY <2>1, <2>2, <2>3, <3>1 DEF InStep, Follows, Complete
    <3>2. CASE op = AwaitClock
      <4>1. t # << >> /\ ToBank0(Head(t)) /\ UNCHANGED <<Enc28j60Bank, bank>>
        BY <2>2, <2>3, <3>2 DEF Follows, Complete
      <4>2. Enc28j60Bank = bank \/ bank = 0
        BY DEF BankInv, InStep
      <4> QED BY <2>1, <4>1, <4>2 DEF InStep
    <3> QED BY <2>3, <3>1, <3>2 DEF InStep
  <2>6. Served'
    <3> SUFFICES ASSUME t # << >>, Relies(Head(t)) PROVE bank' = BankOf(Head(t).reg)
      BY <2>1 DEF Served
    <3>1. Banked(op) /\ BankOf(Head(t).reg) = BankOf(op.reg)
      BY <2>2 DEF Follows, Relies
    <3>2. op.how # "reset" /\ op # AwaitClock
      <4>1. ~Relies(AwaitClock) /\ \A p : ToBank0(p) => ~Relies(p)
        BY <2>4 DEF Relies, Banked, ToBank0
      <4> QED BY <2>2, <4>1 DEF Follows
    <3> QED BY <2>3, <3>1, <3>2
  <2>7. BistLast'
    <3> SUFFICES ASSUME call = "bist"
                 PROVE  IF t = << >> THEN bank' = 3
                        ELSE Banked(t[Len(t)]) /\ BankOf(t[Len(t)].reg) = 3
      BY <2>1 DEF BistLast
    <3>1. Banked(todo[Len(todo)]) /\ BankOf(todo[Len(todo)].reg) = 3
      BY <2>1 DEF BankInv, BistLast
    <3>2. CASE t = << >>
      <4>1. Complete(op) /\ Banked(op) /\ BankOf(op.reg) = 3
        BY <2>2, <3>1, <3>2
      <4> QED BY <2>3, <3>2, <4>1 DEF Complete
    <3> QED BY <2>2, <3>1, <3>2
  <2> QED BY <1>1, <2>1, <2>2, <2>5, <2>6, <2>7 DEF BankInv
<1>3. CASE Turn
  <2>1. /\ todo = << >> /\ (todo' \in Tasks \/ (BistGoesOn /\ todo' = BistRandomFill))
        /\ UNCHANGED <<Enc28j60Bank, bank>> \/ (ReadEir /\ ~BistGoesOn)
        /\ call' = "bist" => todo' = BistAddressFill
    BY <1>1, <1>3, TurnIs
  <2>2. Enc28j60Bank = bank
    BY <2>1 DEF BankInv, InStep
  <2>3. InStep'
    <3>1. ASSUME ReadEir PROVE Enc28j60Bank' = bank'
      <4>1. BankOf("EIR") = 0 /\ Read("EIR").reg = "EIR"
        <5>1. "EIR" \in AllBanks
          BY DEF AllBanks
        <5> QED BY <5>1, BankIs DEF Read, Op
      <4>2. Read("EIR").selects = TRUE
        BY DEF Read, Op
      <4> QED BY <2>2, <3>1, <4>1, <4>2 DEF ReadEir, Selected
    <3> QED BY <2>1, <2>2, <3>1 DEF InStep
  <2>4. Whole(todo')
    BY <2>1, TasksFine DEF Fine
  <2>5. Served'
    <3>1. CASE todo' \in Tasks
      <4>1. todo' # << >> => ~Relies(todo'[1]) /\ Head(todo') = todo'[1]
        BY <1>1, <3>1, TasksFine, Shorter DEF Fine, TypeInv
      <4> QED BY <4>1 DEF Served
    <3>2. CASE BistGoesOn /\ todo' = BistRandomFill
      <4>1. bank = 3 /\ bank' = bank
        BY <2>1, <3>2 DEF BankInv, BistLast, BistGoesOn, chip
      <4>2. BankOf(Head(todo').reg) = 3
        BY <1>1, <3>2, BistParts, Shorter DEF TypeInv
      <4> QED BY <4>1, <4>2 DEF Served
    <3> QED BY <2>1, <3>1, <3>2
  <2>6. BistLast'
    BY <2>1, BistParts DEF BistLast, EndsInBank3
  <2> QED BY <1>1, <2>3, <2>4, <2>5, <2>6 DEF BankInv
<1>4. CASE TransmissionEnds \/ Unit \/ UNCHANGED vars
  <2>1. UNCHANGED <<todo, call, bank, Enc28j60Bank>>
    BY <1>1, <1>4, UnitIs DEF TransmissionEnds, vars, chip
  <2> QED BY <1>1, <2>1 DEF BankInv, InStep, Served, BistLast
<1> QED BY <1>2, <1>3, <1>4, Kinds

(* Whatever is run, with whatever builds and sketches: the driver reads    *)
(* and writes the registers it means, although its copy of the bank        *)
(* survives the resets of the chip and the raw accesses select nothing.    *)
THEOREM BanksRight == Spec => []BankRight
<1>1. Init => BankInv
  <2> SUFFICES ASSUME Init PROVE BankInv
    OBVIOUS
  <2>1. todo = << >> /\ Whole(todo) /\ Enc28j60Bank = bank /\ call = "none"
    <3>1. << >> \in Tasks
      BY DEF Tasks
    <3> QED BY <3>1, TasksFine DEF Init, Fine
  <2> QED BY <2>1, TypeInit DEF BankInv, InStep, Served, BistLast
<1>2. BankInv => BankRight
  <2> SUFFICES ASSUME BankInv, todo # << >>, NEW op, op = Head(todo), op.reg \notin AllBanks
               PROVE  Selected(op) = BankOf(op.reg)
    BY DEF BankRight
  <2>1. op # AwaitClock
    BY DEF AwaitClock, Raw, AllBanks
  <2>2. CASE op.selects
    BY <2>1, <2>2 DEF BankInv, InStep, ToBank0, Selected
  <2>3. CASE ~op.selects
    BY <2>3 DEF BankInv, Served, Relies, Banked, Selected
  <2> QED BY <2>2, <2>3
<1> QED BY <1>1, <1>2, BankStep, PTL DEF Spec

-----------------------------------------------------------------------------
(* The filter.                                                             *)
HeardThen(bits, broadcasts) ==
  \/ bits = {"CRCEN"}
  \/ {"UCEN", "CRCEN", "PMEN"} \subseteq bits /\ (broadcasts => "BCEN" \in bits)
(* An operation writes the filter that hears, or leaves it.                *)
LEMMA OperateFilter ==
  ASSUME TypeInv, Operate, HearsOrWill
  PROVE  HearsOrWill'
<1> DEFINE op == Head(todo)
           t == Tail(todo)
<1>1. /\ todo # << >> /\ todo' = t /\ op \in Operations /\ UNCHANGED broadcast_enabled
      /\ regs'["ERXFCON"] = IF op.how = "reset" THEN AfterReset["ERXFCON"]
                            ELSE IF op.reg = "ERXFCON" THEN NewBits(op) ELSE regs["ERXFCON"]
  BY OperateIs DEF flags
<1>2. /\ t \in Seq(Operations) /\ op = todo[1] /\ Len(todo) \in Nat \ {0} /\ Len(t) = Len(todo) - 1
      /\ \A k \in 1 .. Len(t) : t[k] = todo[k + 1]
  BY <1>1, Shorter DEF TypeInv
<1> HIDE DEF op, t
<1>3. CASE WillSetFilter
  <2>1. PICK bits \in SUBSET Bits : Heard(bits) /\ SetsLast(todo, bits)
    BY <1>3 DEF WillSetFilter
  <2>2. PICK k \in 1 .. Len(todo) :
          /\ todo[k] = Write("ERXFCON", bits)
          /\ \A j \in k + 1 .. Len(todo) : todo[j] \in Unfiltered
    BY <2>1 DEF SetsLast
  <2>3. Heard(bits)'
    BY <1>1, <2>1 DEF Heard
  <2>4. CASE k = 1
    <3>1. op.how = "write" /\ op.reg = "ERXFCON" /\ op.bits = bits
      BY <1>2, <2>2, <2>4 DEF Write, Op
    <3>2. regs'["ERXFCON"] = bits
      BY <1>1, <3>1 DEF NewBits
    <3>3. \A j \in 1 .. Len(t) : t[j] \in Unfiltered
      BY <1>2, <2>2, <2>4
    <3>4. t \in Seq(Unfiltered)
      BY <1>2, <3>3
    <3> QED BY <1>1, <2>3, <3>2, <3>4 DEF HearsOrWill, Heard
  <2>5. CASE k # 1
    <3>1. k - 1 \in 1 .. Len(t) /\ t[k - 1] = todo[k]
      BY <1>2, <2>5
    <3>2. \A j \in (k - 1) + 1 .. Len(t) : t[j] \in Unfiltered
      BY <1>2, <2>2, <2>5
    <3>3. SetsLast(t, bits)
      BY <2>2, <3>1, <3>2 DEF SetsLast
    <3> QED BY <1>1, <2>1, <2>3, <3>3 DEF HearsOrWill, WillSetFilter
  <2> QED BY <2>4, <2>5
<1>4. CASE todo \in Seq(Unfiltered) /\ Heard(regs["ERXFCON"])
  <2>1. op \in Unfiltered /\ t \in Seq(Unfiltered)
    BY <1>1, <1>4, Shorter DEF op, t
  <2>2. regs'["ERXFCON"] = regs["ERXFCON"]
    BY <1>1, <2>1 DEF Unfiltered
  <2> QED BY <1>1, <1>4, <2>1, <2>2 DEF HearsOrWill, Heard
<1> QED BY <1>3, <1>4 DEF HearsOrWill

(* The filter's functions write it last.                                   *)
LEMMA FilterTasks ==
  ASSUME NEW bits \in SUBSET Bits
  PROVE  /\ SetsLast(<<Read("ERXFCON"), Write("ERXFCON", bits)>>, bits)
         /\ SetsLast(<<Write("ERXFCON", bits)>>, bits)
<1> DEFINE w == Write("ERXFCON", bits)
           a == <<Read("ERXFCON"), w>>
           b == <<w>>
<1>1. 2 \in 1 .. Len(a) /\ a[2] = w /\ 2 + 1 .. Len(a) = {}
  OBVIOUS
<1>2. 1 \in 1 .. Len(b) /\ b[1] = w /\ 1 + 1 .. Len(b) = {}
  OBVIOUS
<1> HIDE DEF a, b
<1>3. SetsLast(a, bits) /\ SetsLast(b, bits)
  BY <1>1, <1>2 DEF SetsLast
<1> QED BY <1>3 DEF a, b

(* The functions that leave the filter alone.                              *)
LEMMA UnfilteredTasks ==
  /\ \A s \in {ReadPhyByte, Copyout, Copyin, PowerDown, PowerUp, << >>} : s \in Seq(Unfiltered)
  /\ \A again \in BOOLEAN : Start(again) \in Seq(Unfiltered)
  /\ \A s \in {ReadTsv, << >>} : <<Cancels>> \o s \in Seq(Unfiltered)
<1>1. /\ Plain \subseteq Unfiltered
      /\ Free \intersect NoStart \intersect Unfiltered \subseteq Unfiltered
      /\ Free \intersect Powered \intersect Unfiltered \subseteq Unfiltered
      /\ Free \intersect NoStart \intersect Powered \intersect Unfiltered \subseteq Unfiltered
  BY DEF Plain
<1>2. \A s \in {ReadPhyByte, Copyout, Copyin} : s \in Seq(Unfiltered)
  BY <1>1, PlainParts
<1>3. PowerDown \in Seq(Unfiltered) /\ PowerUp \in Seq(Unfiltered) /\ << >> \in Seq(Unfiltered)
  BY <1>1, PowerParts
<1>4. ASSUME NEW again \in BOOLEAN PROVE Start(again) \in Seq(Unfiltered)
  BY <1>1, StartParts
<1>5. ASSUME NEW s \in {ReadTsv, << >>} PROVE <<Cancels>> \o s \in Seq(Unfiltered)
  <2> DEFINE c == <<Cancels>> \o s
             S == Free \intersect NoStart \intersect Powered \intersect Unfiltered
  <2>1. c \in Seq(S)
    BY CancelParts
  <2> HIDE DEF c
  <2>2. c \in Seq(Unfiltered)
    BY <2>1
  <2> QED BY <2>2 DEF c
<1> QED BY <1>2, <1>3, <1>4, <1>5

(* Broadcasts and multicasts, switched while not promiscuous.              *)
LEMMA SwitchFilterStep ==
  ASSUME FilterInv, SwitchFilter, ~variant.mixes
  PROVE  HearsOrWill'
<1> DEFINE f == regs["ERXFCON"]
<1>1. /\ todo = << >> /\ begun /\ call = "none" /\ "UCEN" \in f /\ f' = f
      /\ f \in SUBSET Bits
  <2>1. "ERXFCON" \in Regs
    BY DEF Regs, Banks
  <2> QED BY <2>1 DEF FilterInv, TypeInv, SwitchFilter, Ready, chip
<1>2. ~WillSetFilter
  BY <1>1 DEF WillSetFilter, SetsLast
<1> HIDE DEF f
<1>3. {"UCEN", "CRCEN", "PMEN"} \subseteq f /\ (broadcast_enabled => "BCEN" \in f)
  BY <1>1, <1>2 DEF FilterInv, HearsOrWill, Heard, f
<1>4. ASSUME NEW bits \in SUBSET Bits, SetFilter(bits), HeardThen(bits, broadcast_enabled')
      PROVE  HearsOrWill'
  BY <1>4, FilterTasks DEF SetFilter, Called, HearsOrWill, WillSetFilter, Heard, HeardThen
<1>5. PICK temporary \in BOOLEAN :
       \/ /\ SetFilter(f \union {"BCEN"})
          /\ broadcast_enabled' = (broadcast_enabled \/ ~temporary)
       \/ /\ broadcast_enabled' = (broadcast_enabled /\ temporary)
          /\ IF broadcast_enabled' THEN Called("straight", << >>)
             ELSE SetFilter(f \ {"BCEN"})
       \/ /\ SetFilter(f \union {"MCEN"}) \/ SetFilter(f \ {"MCEN"})
          /\ UNCHANGED broadcast_enabled
  BY DEF SwitchFilter, BroadcastOn, f
<1>6. CASE SetFilter(f \union {"BCEN"})
  <2>1. f \union {"BCEN"} \in SUBSET Bits /\ HeardThen(f \union {"BCEN"}, broadcast_enabled')
    BY <1>1, <1>3 DEF Bits, HeardThen
  <2> QED BY <1>4, <1>6, <2>1
<1>7. CASE /\ broadcast_enabled' = (broadcast_enabled /\ temporary)
           /\ IF broadcast_enabled' THEN Called("straight", << >>)
              ELSE SetFilter(f \ {"BCEN"})
  <2>1. CASE broadcast_enabled'
    <3>1. broadcast_enabled /\ todo' = << >>
      BY <1>7, <2>1 DEF Called
    <3>2. Heard(regs["ERXFCON"])'
      BY <1>1, <1>3, <3>1 DEF Heard, f
    <3> QED BY <3>1, <3>2, UnfilteredTasks DEF HearsOrWill
  <2>2. CASE ~broadcast_enabled'
    <3>1. f \ {"BCEN"} \in SUBSET Bits /\ HeardThen(f \ {"BCEN"}, broadcast_enabled')
      BY <1>1, <1>3, <2>2 DEF Bits, HeardThen
    <3> QED BY <1>4, <1>7, <2>2, <3>1
  <2> QED BY <2>1, <2>2
<1>8. CASE (SetFilter(f \union {"MCEN"}) \/ SetFilter(f \ {"MCEN"})) /\ UNCHANGED broadcast_enabled
  <2>1. /\ f \union {"MCEN"} \in SUBSET Bits /\ HeardThen(f \union {"MCEN"}, broadcast_enabled')
        /\ f \ {"MCEN"} \in SUBSET Bits /\ HeardThen(f \ {"MCEN"}, broadcast_enabled')
    BY <1>1, <1>3, <1>8 DEF Bits, HeardThen
  <2> QED BY <1>4, <1>8, <2>1
<1> QED BY <1>5, <1>6, <1>7, <1>8

(* CRCEN is on, so enablePromiscuous leaves it in the filter.              *)
LEMMA SwitchPromiscuousStep ==
  ASSUME FilterInv, SwitchPromiscuous, ~variant.mixes
  PROVE  HearsOrWill'
<1> DEFINE f == regs["ERXFCON"]
<1>1. /\ todo = << >> /\ begun /\ f' = f /\ broadcast_enabled' = broadcast_enabled
      /\ f \in SUBSET Bits
  <2>1. "ERXFCON" \in Regs
    BY DEF Regs, Banks
  <2> QED BY <2>1 DEF FilterInv, TypeInv, SwitchPromiscuous, Ready, chip
<1>2. ~WillSetFilter
  BY <1>1 DEF WillSetFilter, SetsLast
<1> HIDE DEF f
<1>3. Heard(f) /\ Heard(f)'
  BY <1>1, <1>2 DEF FilterInv, HearsOrWill, Heard, f
<1>4. ASSUME NEW bits \in SUBSET Bits, Heard(bits)',
             SetFilter(bits) \/ todo' = <<Write("ERXFCON", bits)>>
      PROVE  HearsOrWill'
  BY <1>4, FilterTasks DEF SetFilter, Called, HearsOrWill, WillSetFilter
<1>5. SetFilter(f \intersect {"CRCEN"}) \/ todo' = << >> \/ todo' = <<Write("ERXFCON", Filter)>>
  BY DEF SwitchPromiscuous, Promiscuous, Called, f
<1>6. CASE SetFilter(f \intersect {"CRCEN"})
  <2>1. f \intersect {"CRCEN"} = {"CRCEN"}
    BY <1>3 DEF Heard
  <2>2. {"CRCEN"} \in SUBSET Bits /\ Heard({"CRCEN"})'
    BY DEF Bits, Heard
  <2> QED BY <1>4, <1>6, <2>1, <2>2
<1>7. CASE todo' = << >>
  BY <1>3, <1>7, UnfilteredTasks DEF HearsOrWill, f
<1>8. CASE todo' = <<Write("ERXFCON", Filter)>>
  <2>1. Filter \in SUBSET Bits /\ Heard(Filter)'
    BY DEF Filter, Bits, Heard
  <2> QED BY <1>4, <1>8, <2>1
<1> QED BY <1>5, <1>6, <1>7, <1>8

(* Every step keeps the filter hearing, or about to.                       *)
LEMMA FilterStep == FilterInv /\ [Next]_vars => FilterInv'
<1> SUFFICES ASSUME FilterInv, [Next]_vars PROVE FilterInv'
  OBVIOUS
<1>1. TypeInv /\ TypeInv'
  BY TypeStep DEF FilterInv
<1> DEFINE Kept ==
      /\ todo' \in Seq(Unfiltered) /\ UNCHANGED <<variant, broadcast_enabled>>
      /\ regs'["ERXFCON"] = regs["ERXFCON"]
      /\ begun' \/ call' = "initialize" => begun \/ call = "initialize"
      /\ call' \in {"bist", "bist2"} => ~begun'
<1>2. ASSUME Kept, todo = << >> PROVE FilterInv'
  <2>1. ~WillSetFilter
    BY <1>2 DEF WillSetFilter, SetsLast
  <2>2. \A bits \in SUBSET Bits : Heard(bits) => Heard(bits)'
    BY <1>2 DEF Heard
  <2>3. regs["ERXFCON"] \in SUBSET Bits
    <3>1. "ERXFCON" \in Regs
      BY DEF Regs, Banks
    <3> QED BY <1>1, <3>1 DEF TypeInv
  <2>4. Heard(regs["ERXFCON"]) => Heard(regs["ERXFCON"])'
    BY <1>2, <2>2, <2>3
  <2> QED BY <1>1, <1>2, <2>1, <2>4 DEF FilterInv, HearsOrWill
<1>3. CASE Operate
  <2>1. UNCHANGED <<variant, begun, call>>
    BY <1>1, <1>3, OperateIs
  <2> QED BY <1>1, <1>3, <2>1, OperateFilter DEF FilterInv
<1>4. CASE Turn
  <2>1. todo = << >> /\ UNCHANGED <<variant, regs>>
    BY <1>1, <1>4, TurnIs
  <2>2. CASE CallInitialize
    <3>1. Filter \in SUBSET Bits /\ Heard(Filter)'
      BY DEF Filter, Bits, Heard
    <3>2. SetsLast(todo', Filter) /\ ~begun' /\ call' = "initialize"
      BY <2>2, InitializeParts DEF CallInitialize, Called
    <3> QED BY <1>1, <3>1, <3>2 DEF FilterInv, HearsOrWill, WillSetFilter
  <2>3. CASE CallDoBist
    BY <1>1, <2>3 DEF CallDoBist, Called, FilterInv
  <2>4. CASE SwitchFilter \/ SwitchPromiscuous
    <3>1. call' = "straight"
      BY <2>4 DEF SwitchFilter, SwitchPromiscuous, SetFilter, Called
    <3> QED BY <1>1, <2>1, <2>4, <3>1, SwitchFilterStep, SwitchPromiscuousStep DEF FilterInv
  <2>5. CASE CallStraight
    BY <1>2, <2>1, <2>5, UnfilteredTasks DEF CallStraight, Called, flags
  <2>6. CASE PacketSend
    BY <1>2, <2>1, <2>6, UnfilteredTasks DEF PacketSend, Wait, Called, flags
  <2>7. CASE Started \/ Poll \/ InitializeReturns \/ Returns
    BY <1>2, <2>1, <2>7, UnfilteredTasks
       DEF Started, Poll, InitializeReturns, Returns, Wait, Called, flags
  <2>8. CASE Look
    <3>1. todo' \in Seq(Unfiltered)
      BY <2>8, UnfilteredTasks DEF Look, Done, Called, Cancels
    <3> QED BY <1>2, <2>1, <2>8, <3>1 DEF Look, Done, Called, flags
  <2>9. CASE RetryAfterLateCollision \/ GiveUp
    BY <1>2, <2>1, <2>9, UnfilteredTasks
       DEF RetryAfterLateCollision, GiveUp, Done, Called, flags
  <2>10. CASE BistGoesOn
    <3>1. ~begun /\ begun' = begun /\ call' = "bist2"
      BY <2>10 DEF BistGoesOn, Called, FilterInv
    <3> QED BY <1>1, <3>1 DEF FilterInv
  <2> QED BY <1>4, <2>2, <2>3, <2>4, <2>5, <2>6, <2>7, <2>8, <2>9, <2>10 DEF Turn, Calls
<1>5. CASE TransmissionEnds \/ Unit \/ UNCHANGED vars
  <2>1. UNCHANGED <<todo, call, begun, variant, broadcast_enabled>>
    BY <1>1, <1>5, UnitIs DEF TransmissionEnds, vars, flags
  <2>2. regs'["ERXFCON"] = regs["ERXFCON"]
    <3>1. CASE TransmissionEnds
      <4>1. "ERXFCON" \in Regs
        BY DEF Regs, Banks
      <4> QED BY <1>1, <3>1, <4>1 DEF TransmissionEnds, TypeInv
    <3> QED BY <1>1, <1>5, <3>1, UnitIs DEF vars, chip
  <2> QED BY <1>1, <2>1, <2>2 DEF FilterInv, HearsOrWill, WillSetFilter, Heard
<1> QED BY <1>3, <1>4, <1>5, Kinds

(* Between calls the filter lets the board's own frames, and the           *)
(* broadcasts a sketch asked for, pass: whatever the filter's functions    *)
(* are called in, as long as they are not mixed with promiscuous mode.     *)
THEOREM FilterHears == Spec => []OwnFramesHeard
<1>1. Init => FilterInv
  BY TypeInit DEF Init, FilterInv
<1>2. FilterInv => OwnFramesHeard
  <2> SUFFICES ASSUME FilterInv, begun, call = "none", ~variant.mixes
               PROVE  Heard(regs["ERXFCON"])
    BY DEF OwnFramesHeard, Heard
  <2>1. ~WillSetFilter
    BY DEF FilterInv, TypeInv, WillSetFilter, SetsLast
  <2> QED BY <2>1 DEF FilterInv, HearsOrWill
<1> QED BY <1>1, <1>2, FilterStep, PTL DEF Spec

-----------------------------------------------------------------------------
(* Transmissions.                                                          *)
LEMMA OperateOn ==
  ASSUME TypeInv, Operate, NEW op, op = Head(todo)
  PROVE  /\ regs'["EIR"] \subseteq regs["EIR"]
         /\ op \in NoStart /\ On' => On
         /\ op.how = "reset" => ~On'
         /\ op = Cancels => ~On'
         /\ op = Awaits => ~On
         /\ op = ClearsFlags => regs'["EIR"] = regs["EIR"] \ {"TXERIF", "TXIF"}
         /\ op \in Powered => regs'["ECON2"] = regs["ECON2"]
         /\ op \in Mild => On' = On /\ txmem' = txmem /\ regs'["ECON2"] = regs["ECON2"]
<1>1. /\ op \in Operations
      /\ \A r \in {"ECON1", "ECON2", "EIR"} :
           regs'[r] = IF op.how = "reset" THEN AfterReset[r]
                      ELSE IF op.reg = r THEN NewBits(op) ELSE regs[r]
      /\ op.reg = "ECON1" /\ op.how = "off" => op.bits \intersect regs["ECON1"] = {}
      /\ txmem' # txmem => op.how = "fill"
  BY OperateIs
<1>2. AfterReset["ECON1"] = {} /\ AfterReset["EIR"] = {}
  <2>1. {"ECON1", "EIR"} \subseteq Regs
    BY DEF Regs, AllBanks
  <2> QED BY <2>1 DEF AfterReset
<1>3. /\ op.how = "write" => NewBits(op) = op.bits
      /\ op.how = "set" =>
           NewBits(op) = (regs[op.reg] \union op.bits) \ (IF "TXRST" \in op.bits THEN {"TXRTS"} ELSE {})
      /\ op.how = "clear" => NewBits(op) = regs[op.reg] \ op.bits
      /\ op.how \notin {"write", "set", "clear"} => NewBits(op) = regs[op.reg]
  BY DEF NewBits
<1>4. regs'["EIR"] \subseteq regs["EIR"]
  BY <1>1, <1>2, <1>3 DEF Operations
<1>5. op \in NoStart /\ On' => On
  BY <1>1, <1>2, <1>3 DEF NoStart, On
<1>6. op.how = "reset" => ~On'
  BY <1>1, <1>2 DEF On
<1>7. op = Cancels => ~On'
  <2>1. Cancels.how = "clear" /\ Cancels.reg = "ECON1" /\ Cancels.bits = {"TXRTS"}
    BY DEF Cancels, Raw
  <2> QED BY <1>1, <1>3, <2>1 DEF On
<1>8. op = Awaits => ~On
  <2>1. Awaits.how = "off" /\ Awaits.reg = "ECON1" /\ Awaits.bits = {"TXRTS"}
    BY DEF Awaits, Op
  <2> QED BY <1>1, <2>1 DEF On
<1>9. op = ClearsFlags => regs'["EIR"] = regs["EIR"] \ {"TXERIF", "TXIF"}
  <2>1. ClearsFlags.how = "clear" /\ ClearsFlags.reg = "EIR" /\ ClearsFlags.bits = {"TXERIF", "TXIF"}
    BY DEF ClearsFlags, Raw
  <2> QED BY <1>1, <1>3, <2>1
<1>10. op \in Powered => regs'["ECON2"] = regs["ECON2"]
  BY <1>1, <1>3 DEF Powered
<1>11. op \in Mild => On' = On /\ txmem' = txmem /\ regs'["ECON2"] = regs["ECON2"]
  <2> SUFFICES ASSUME op \in Mild PROVE On' = On /\ txmem' = txmem /\ regs'["ECON2"] = regs["ECON2"]
    OBVIOUS
  <2>1. /\ op.how \notin {"fill", "reset"}
        /\ op.reg = "ECON1" =>
             /\ op.how # "write"
             /\ op.how \in {"set", "clear"} => op.bits \intersect {"TXRST", "TXRTS"} = {}
        /\ op.reg = "ECON2" => op.how \notin {"write", "set", "clear"}
    BY DEF Mild
  <2>2. txmem' = txmem /\ regs'["ECON2"] = regs["ECON2"]
    BY <1>1, <1>3, <2>1
  <2>3. CASE op.reg = "ECON1"
    <3>1. regs'["ECON1"] = NewBits(op) /\ op.how # "write"
      BY <1>1, <2>1, <2>3
    <3>2. ("TXRTS" \in NewBits(op)) = ("TXRTS" \in regs["ECON1"])
      BY <1>3, <2>1, <2>3
    <3> QED BY <2>2, <3>1, <3>2 DEF On
  <2>4. CASE op.reg # "ECON1"
    BY <1>1, <2>1, <2>2, <2>4 DEF On
  <2> QED BY <2>3, <2>4
<1> QED BY <1>4, <1>5, <1>6, <1>7, <1>8, <1>9, <1>10, <1>11

(* An operation starts a transmission last in start only.                  *)
LEMMA OperateSend ==
  ASSUME SendInv, Operate
  PROVE  FlagsRight' /\ Awake' /\ Between' /\ Undisturbed' /\ Starting' /\ Looked'
<1> DEFINE op == Head(todo)
           t == Tail(todo)
<1>1. /\ todo # << >> /\ todo' = t /\ op \in Operations
      /\ UNCHANGED <<variant, call, count>>
  BY OperateIs DEF SendInv, sending
<1>2. /\ t \in Seq(Operations) /\ op = todo[1] /\ Len(todo) \in Nat \ {0} /\ Len(t) = Len(todo) - 1
      /\ \A k \in 1 .. Len(t) : t[k] = todo[k + 1]
      /\ t = << >> => Len(todo) = 1
  BY <1>1, Shorter DEF SendInv, TypeInv
<1>3. /\ regs'["EIR"] \subseteq regs["EIR"]
      /\ op \in NoStart /\ On' => On
      /\ op.how = "reset" => ~On'
      /\ op = Cancels => ~On'
      /\ op = Awaits => ~On
      /\ op = ClearsFlags => regs'["EIR"] = regs["EIR"] \ {"TXERIF", "TXIF"}
      /\ op \in Powered => regs'["ECON2"] = regs["ECON2"]
      /\ op \in Mild => On' = On /\ regs'["ECON2"] = regs["ECON2"]
  BY OperateOn DEF SendInv
<1>4. ASSUME NEW S, todo \in Seq(S) PROVE op \in S /\ t \in Seq(S)
  BY <1>1, <1>4, Shorter
<1>5. call \in {"initialize", "bist", "bist2", "straight", "powerDown", "start", "cancel"}
  BY <1>1 DEF SendInv, TypeInv, Names
<1> HIDE DEF op, t
<1>6. /\ regs["EIR"] \subseteq {"TXERIF", "TXIF"} /\ (On => regs["EIR"] = {})
      /\ regs'["EIR"] \subseteq {"TXERIF", "TXIF"} /\ (On => regs'["EIR"] = {})
  BY <1>3 DEF SendInv, FlagsRight
<1>7. ASSUME call # "start" PROVE op \in NoStart /\ t \in Seq(NoStart) /\ (On' => On)
  BY <1>3, <1>4, <1>5, <1>7 DEF SendInv, Between
<1>8. CASE call \in {"initialize", "bist", "bist2", "cancel"}
  <2>1. ~On' /\ t \in Seq(NoStart)
    BY <1>3, <1>7, <1>8 DEF SendInv, Undisturbed, Looked, op
  <2>2. call = "cancel" => ~Asleep' /\ t \in Seq(Powered)
    BY <1>3, <1>4 DEF SendInv, Awake, Asleep
  <2> QED BY <1>1, <1>6, <1>8, <2>1, <2>2
          DEF FlagsRight, Awake, Between, Undisturbed, Starting, Looked
<1>9. CASE call = "straight"
  <2>1. On' => On /\ t \in Seq(Mild) /\ regs'["ECON2"] = regs["ECON2"]
    BY <1>3, <1>4, <1>7, <1>9 DEF SendInv, Undisturbed
  <2>2. t \in Seq(NoStart) /\ (Asleep' => ~On')
    BY <1>7, <1>9, <2>1 DEF SendInv, Awake, Asleep
  <2> QED BY <1>1, <1>6, <1>9, <2>1, <2>2
          DEF SendInv, FlagsRight, Awake, Between, Undisturbed, Starting, Looked
<1>10. CASE call = "powerDown"
  <2>1. ASSUME On'
        PROVE  /\ On /\ regs'["ECON2"] = regs["ECON2"]
               /\ \E k \in 1 .. Len(t) : t[k] = Awaits /\ \A j \in 1 .. k : t[j] \in Mild
    <3>1. On
      BY <1>7, <1>10, <2>1
    <3>2. PICK k \in 1 .. Len(todo) : todo[k] = Awaits /\ \A j \in 1 .. k : todo[j] \in Mild
      BY <1>10, <3>1 DEF SendInv, Undisturbed
    <3>3. op \in Mild /\ k # 1
      BY <1>2, <1>3, <3>1, <3>2
    <3>4. k - 1 \in 1 .. Len(t) /\ t[k - 1] = Awaits /\ \A j \in 1 .. k - 1 : t[j] \in Mild
      BY <1>2, <3>2, <3>3
    <3> QED BY <1>3, <3>1, <3>3, <3>4
  <2>2. t \in Seq(NoStart) /\ (Asleep' => ~On')
    BY <1>7, <1>10, <2>1 DEF SendInv, Awake, Asleep
  <2> QED BY <1>1, <1>6, <1>10, <2>1, <2>2
          DEF SendInv, FlagsRight, Awake, Between, Undisturbed, Starting, Looked
<1>11. CASE call = "start"
  <2>1. /\ ~On /\ \A k \in 1 .. Len(todo) - 1 : todo[k] \in NoStart
        /\ regs["EIR"] = {} \/ \E k \in 1 .. Len(todo) - 1 : todo[k] = ClearsFlags
    BY <1>1, <1>11 DEF SendInv, Starting
  <2>2. ~Asleep' /\ t \in Seq(Powered)
    BY <1>3, <1>4, <1>11 DEF SendInv, Awake, Asleep
  <2>3. CASE t = << >>
    <3>1. regs["EIR"] = {}
      <4>1. Len(todo) = 1
        BY <1>2, <2>3
      <4>2. 1 .. Len(todo) - 1 = {}
        BY <4>1
      <4> QED BY <2>1, <4>2
    <3>2. regs'["EIR"] = {}
      BY <1>3, <3>1
    <3> QED BY <1>1, <1>11, <2>2, <2>3, <3>2
            DEF FlagsRight, Awake, Between, Undisturbed, Starting, Looked
  <2>4. CASE t # << >>
    <3>1. Len(todo) > 1
      BY <1>2, <2>4
    <3>2. ~On'
      BY <1>2, <1>3, <2>1, <3>1
    <3>3. \A k \in 1 .. Len(t) - 1 : t[k] \in NoStart
      BY <1>2, <2>1
    <3>4. regs'["EIR"] = {} \/ \E k \in 1 .. Len(t) - 1 : t[k] = ClearsFlags
      <4>1. CASE regs["EIR"] = {}
        BY <1>3, <4>1
      <4>2. CASE \E k \in 1 .. Len(todo) - 1 : todo[k] = ClearsFlags
        <5>1. PICK k \in 1 .. Len(todo) - 1 : todo[k] = ClearsFlags
          BY <4>2
        <5>2. CASE k = 1
          BY <1>2, <1>3, <1>6, <5>1, <5>2
        <5>3. CASE k # 1
          <6>1. k - 1 \in 1 .. Len(t) - 1 /\ t[k - 1] = ClearsFlags
            BY <1>2, <5>1, <5>3
          <6> QED BY <6>1
        <5> QED BY <5>2, <5>3
      <4> QED BY <2>1, <4>1, <4>2
    <3> QED BY <1>1, <1>6, <1>11, <2>2, <3>2, <3>3, <3>4
            DEF FlagsRight, Awake, Between, Undisturbed, Starting, Looked
  <2> QED BY <2>3, <2>4
<1> QED BY <1>5, <1>8, <1>9, <1>10, <1>11

(* What packetSend and the straight functions are given to do.             *)
LEMMA SendTasks ==
  /\ Initialize \in Seq(NoStart) /\ Initialize # << >> /\ Head(Initialize).how = "reset"
  /\ BistAddressFill \in Seq(NoStart) /\ BistAddressFill # << >>
  /\ Head(BistAddressFill).how = "reset" /\ BistRandomFill \in Seq(NoStart)
  /\ << >> \in Seq(NoStart) /\ << >> \in Seq(Mild) /\ << >> \in Seq(Powered)
  /\ \A s \in {ReadPhyByte, Copyout, Copyin} : s \in Seq(NoStart) /\ s \in Seq(Mild)
  /\ PowerUp \in Seq(NoStart) /\ PowerDown \in Seq(NoStart)
  /\ \E k \in 1 .. Len(PowerDown) :
       PowerDown[k] = Awaits /\ \A j \in 1 .. k : PowerDown[j] \in Mild
  /\ \A s \in {ReadTsv, << >>} :
       /\ <<Cancels>> \o s \in Seq(NoStart) /\ <<Cancels>> \o s \in Seq(Powered)
       /\ <<Cancels>> \o s # << >> /\ Head(<<Cancels>> \o s) = Cancels
  /\ \A bits \in SUBSET Bits :
       \A s \in {<<Read("ERXFCON"), Write("ERXFCON", bits)>>, <<Write("ERXFCON", bits)>>} :
         s \in Seq(NoStart) /\ s \in Seq(Mild)
<1>1. Plain \subseteq NoStart /\ Plain \subseteq Mild /\ Mild \subseteq NoStart
  BY DEF Plain, Mild
<1>2. /\ Initialize \in Seq(NoStart) /\ Initialize # << >> /\ Head(Initialize).how = "reset"
      /\ BistAddressFill \in Seq(NoStart) /\ BistAddressFill # << >>
      /\ Head(BistAddressFill).how = "reset" /\ BistRandomFill \in Seq(NoStart)
  BY InitializeParts, BistParts, Shorter
<1>3. << >> \in Seq(NoStart) /\ << >> \in Seq(Mild) /\ << >> \in Seq(Powered)
  OBVIOUS
<1>4. \A s \in {ReadPhyByte, Copyout, Copyin} : s \in Seq(NoStart) /\ s \in Seq(Mild)
  BY <1>1, PlainParts
<1>5. PowerUp \in Seq(NoStart) /\ PowerDown \in Seq(NoStart)
  <2>1. Free \intersect NoStart \intersect Unfiltered \subseteq NoStart
    OBVIOUS
  <2> QED BY <2>1, PowerParts
<1>6. \E k \in 1 .. Len(PowerDown) :
        PowerDown[k] = Awaits /\ \A j \in 1 .. k : PowerDown[j] \in Mild
  <2>1. 3 \in 1 .. Len(PowerDown)
    BY PowerParts
  <2> QED BY <2>1, PowerParts
<1>7. ASSUME NEW s \in {ReadTsv, << >>}
      PROVE  /\ <<Cancels>> \o s \in Seq(NoStart) /\ <<Cancels>> \o s \in Seq(Powered)
             /\ <<Cancels>> \o s # << >> /\ Head(<<Cancels>> \o s) = Cancels
  <2> DEFINE c == <<Cancels>> \o s
  <2>1. c \in Seq(Free \intersect NoStart \intersect Powered \intersect Unfiltered)
        /\ c # << >> /\ Head(c) = Cancels
    BY CancelParts
  <2> HIDE DEF c
  <2>2. c \in Seq(NoStart) /\ c \in Seq(Powered)
    BY <2>1
  <2> QED BY <2>1, <2>2 DEF c
<1>8. ASSUME NEW bits \in SUBSET Bits,
             NEW s \in {<<Read("ERXFCON"), Write("ERXFCON", bits)>>, <<Write("ERXFCON", bits)>>}
      PROVE  s \in Seq(NoStart) /\ s \in Seq(Mild)
  <2>1. s \in Seq(Free \intersect Mild) /\ Free \intersect Mild \subseteq Mild
        /\ Free \intersect Mild \subseteq NoStart
    BY <1>1, FilterParts
  <2> HIDE DEF Mild
  <2> QED BY <2>1
<1> QED BY <1>2, <1>3, <1>4, <1>5, <1>6, <1>7, <1>8

(* The parts of Start that matter to a transmission.                       *)
LEMMA StartTask ==
  ASSUME NEW again \in BOOLEAN
  PROVE  /\ Start(again) \in Seq(Powered)
         /\ \A k \in 1 .. Len(Start(again)) - 1 : Start(again)[k] \in NoStart
         /\ \E k \in 1 .. Len(Start(again)) - 1 : Start(again)[k] = ClearsFlags
<1>1. Free \intersect Powered \intersect Unfiltered \subseteq Powered
  OBVIOUS
<1> QED BY <1>1, StartParts

(* A turn of the program starts, looks and stops in order.                 *)
LEMMA TurnSend ==
  ASSUME SendInv, Turn
  PROVE  FlagsRight' /\ Awake' /\ Between' /\ Undisturbed' /\ Starting' /\ Looked'
<1>1. /\ todo = << >> /\ UNCHANGED <<variant, regs, On, Asleep>>
  BY TurnIs DEF SendInv, On, Asleep
<1>2. FlagsRight' /\ (Asleep' => ~On')
  BY <1>1 DEF SendInv, FlagsRight, Awake
<1>3. ASSUME NEW again \in BOOLEAN, Called("start", Start(again)), ~On, ~Asleep
      PROVE  Awake' /\ Between' /\ Undisturbed' /\ Starting' /\ Looked'
  <2>1. call' = "start" /\ todo' = Start(again) /\ ~On' /\ ~Asleep'
    BY <1>1, <1>3 DEF Called
  <2> QED BY <2>1, StartTask DEF Awake, Between, Undisturbed, Starting, Looked
<1>4. ASSUME Wait, ~Asleep
      PROVE  Awake' /\ Between' /\ Undisturbed' /\ Starting' /\ Looked'
  <2>1. call' = "wait" /\ todo' = << >> /\ count' = 0 /\ 0 < Patience /\ ~Asleep'
    BY <1>1, <1>4, DriverAssumption DEF Wait
  <2> QED BY <2>1, SendTasks DEF Awake, Between, Undisturbed, Starting, Looked
<1>5. ASSUME call' = "none", todo' = << >>, On => variant.pipelining
      PROVE  Awake' /\ Between' /\ Undisturbed' /\ Starting' /\ Looked'
  BY <1>1, <1>2, <1>5 DEF Awake, Between, Undisturbed, Starting, Looked
<1>6. ASSUME call \in {"start", "cancel", "look"}, Done, ~On
      PROVE  Awake' /\ Between' /\ Undisturbed' /\ Starting' /\ Looked'
  <2>1. ~Asleep
    BY <1>6 DEF SendInv, Awake
  <2>2. CASE variant.pipelining
    BY <1>3, <1>6, <2>1, <2>2 DEF Done
  <2>3. CASE ~variant.pipelining
    BY <1>5, <1>6, <2>3 DEF Done, Called
  <2> QED BY <2>2, <2>3
<1>7. CASE Started
  <2>1. call = "start" /\ ~Asleep
    BY <1>7 DEF Started, SendInv, Awake
  <2>2. CASE Wait
    BY <1>2, <1>4, <2>1, <2>2
  <2>3. CASE variant.pipelining /\ Called("none", << >>)
    BY <1>2, <1>5, <2>3 DEF Called
  <2> QED BY <1>7, <2>2, <2>3 DEF Started
<1>8. CASE Poll
  <2>1. /\ call = "wait" /\ todo' = << >> /\ call' \in {"wait", "look"} /\ count < Patience
        /\ ~Asleep' /\ count \in Nat
    BY <1>1, <1>8 DEF Poll, SendInv, Awake, Looked, TypeInv
  <2>2. /\ call' = "wait" => count' < Patience
        /\ call' = "look" /\ On' => count' = Patience
    <3>1. CASE regs["EIR"] = {}
      BY <1>8, <2>1, <3>1, DriverAssumption DEF Poll
    <3>2. CASE regs["EIR"] # {}
      BY <1>1, <1>8, <2>1, <3>2 DEF Poll, SendInv, FlagsRight
    <3> QED BY <3>1, <3>2
  <2> QED BY <1>2, <2>1, <2>2, SendTasks DEF Awake, Between, Undisturbed, Starting, Looked
<1>9. CASE Look
  <2>1. call = "look" /\ (On => count = Patience) /\ ~Asleep
    BY <1>9 DEF Look, SendInv, Looked, Awake
  <2>2. CASE "TXERIF" \notin regs["EIR"] /\ count < Patience
    <3>1. ~On /\ Done
      BY <1>9, <2>1, <2>2, DriverAssumption DEF Look
    <3> QED BY <1>2, <1>6, <2>1, <3>1
  <2>3. CASE ~("TXERIF" \notin regs["EIR"] /\ count < Patience)
    <3>1. \E s \in {ReadTsv, << >>} : Called("cancel", <<Cancels>> \o s) /\ count' = count
      BY <1>9, <2>3 DEF Look, Cancels, sending
    <3>2. /\ call' = "cancel" /\ count' = count /\ todo' \in Seq(NoStart) /\ todo' \in Seq(Powered)
          /\ todo' # << >> /\ Head(todo') = Cancels
      BY <3>1, SendTasks DEF Called
    <3>3. ~Asleep' /\ (On' => count' = Patience)
      BY <1>1, <2>1, <3>2
    <3> QED BY <1>2, <3>2, <3>3 DEF Awake, Between, Undisturbed, Starting, Looked
  <2> QED BY <2>2, <2>3
<1>10. CASE RetryAfterLateCollision \/ GiveUp
  <2>1. call = "cancel" /\ ~On /\ ~Asleep
    BY <1>10 DEF RetryAfterLateCollision, GiveUp, SendInv, Looked, Awake
  <2> QED BY <1>2, <1>3, <1>6, <1>10, <2>1 DEF RetryAfterLateCollision, GiveUp
<1>11. CASE InitializeReturns \/ Returns
  <2>1. call' = "none" /\ todo' = << >> /\ (On => variant.pipelining)
    BY <1>11 DEF InitializeReturns, Returns, Called, SendInv, Between
  <2> QED BY <1>2, <1>5, <2>1
<1>12. CASE BistGoesOn
  <2>1. ~On /\ call' = "bist2" /\ todo' \in Seq(NoStart)
    BY <1>12, SendTasks DEF BistGoesOn, Called, SendInv, Undisturbed
  <2> QED BY <1>1, <1>2, <2>1 DEF Awake, Between, Undisturbed, Starting, Looked
<1>13. CASE Calls
  <2>1. call = "none" /\ (On => variant.pipelining)
    BY <1>13 DEF Calls, CallInitialize, CallDoBist, CallStraight, SwitchFilter,
                 SwitchPromiscuous, PacketSend, Ready, SendInv, Between
  <2>2. CASE CallInitialize \/ CallDoBist
    <3>1. /\ call' \in {"initialize", "bist"} /\ todo' \in Seq(NoStart) /\ todo' # << >>
          /\ Head(todo').how = "reset"
      BY <2>2, SendTasks DEF CallInitialize, CallDoBist, Called
    <3> QED BY <1>1, <1>2, <2>1, <3>1 DEF Awake, Between, Undisturbed, Starting, Looked
  <2>3. CASE Called("powerDown", PowerDown)
    <3>1. /\ call' = "powerDown" /\ todo' \in Seq(NoStart)
          /\ \E k \in 1 .. Len(todo') : todo'[k] = Awaits /\ \A j \in 1 .. k : todo'[j] \in Mild
      BY <2>3, SendTasks DEF Called
    <3> QED BY <1>1, <1>2, <2>1, <3>1 DEF Awake, Between, Undisturbed, Starting, Looked
  <2>4. ASSUME call' = "straight", todo' \in Seq(NoStart), On => todo' \in Seq(Mild)
        PROVE  Awake' /\ Between' /\ Undisturbed' /\ Starting' /\ Looked'
    BY <1>1, <1>2, <2>1, <2>4 DEF Awake, Between, Undisturbed, Starting, Looked
  <2>5. CASE CallStraight
    <3>1. CASE Asleep /\ Called("straight", PowerUp)
      <4>1. ~On
        BY <3>1 DEF SendInv, Awake
      <4> QED BY <1>2, <2>4, <3>1, <4>1, SendTasks DEF Called
    <3>2. CASE \E ops \in {ReadPhyByte, Copyout, Copyin} : Called("straight", ops)
      BY <1>2, <2>4, <3>2, SendTasks DEF Called
    <3> QED BY <1>2, <2>3, <2>5, <3>1, <3>2 DEF CallStraight
  <2>6. CASE SwitchFilter \/ SwitchPromiscuous
    <3>1. "ERXFCON" \in Regs /\ Filter \in SUBSET Bits /\ regs["ERXFCON"] \in SUBSET Bits
      <4>1. "ERXFCON" \in Regs /\ Filter \in SUBSET Bits
        BY DEF Regs, Banks, Filter, Bits
      <4> QED BY <4>1 DEF SendInv, TypeInv
    <3>2. /\ BroadcastOn \in SUBSET Bits /\ regs["ERXFCON"] \ {"BCEN"} \in SUBSET Bits
          /\ regs["ERXFCON"] \union {"MCEN"} \in SUBSET Bits
          /\ regs["ERXFCON"] \ {"MCEN"} \in SUBSET Bits
          /\ Promiscuous \in SUBSET Bits
      BY <3>1 DEF BroadcastOn, Promiscuous, Bits
    <3>3. /\ call' = "straight"
          /\ \/ todo' = << >>
             \/ \E bits \in SUBSET Bits :
                  todo' \in {<<Read("ERXFCON"), Write("ERXFCON", bits)>>, <<Write("ERXFCON", bits)>>}
      BY <2>6, <3>1, <3>2 DEF SwitchFilter, SwitchPromiscuous, SetFilter, Called
    <3> QED BY <1>2, <2>4, <3>3, SendTasks
  <2>7. CASE PacketSend
    <3>1. ~Asleep
      BY <2>7 DEF PacketSend, Ready
    <3>2. CASE variant.pipelining
      BY <1>2, <1>4, <2>7, <3>1, <3>2 DEF PacketSend
    <3>3. CASE ~variant.pipelining
      BY <1>2, <1>3, <2>1, <2>7, <3>1, <3>3 DEF PacketSend
    <3> QED BY <3>2, <3>3
  <2> QED BY <1>13, <2>2, <2>5, <2>6, <2>7 DEF Calls
<1> QED BY <1>2, <1>7, <1>8, <1>9, <1>10, <1>11, <1>12, <1>13 DEF Turn

(* Every step keeps the transmission in its stage.                         *)
LEMMA SendStep == SendInv /\ [Next]_vars => SendInv'
<1> SUFFICES ASSUME SendInv, [Next]_vars PROVE SendInv'
  OBVIOUS
<1>1. TypeInv /\ TypeInv'
  BY TypeStep DEF SendInv
<1>2. CASE Operate
  BY <1>1, <1>2, OperateSend DEF SendInv
<1>3. CASE Turn
  BY <1>1, <1>3, TurnSend DEF SendInv
<1>4. CASE TransmissionEnds
  <2>1. {"ECON1", "ECON2", "EIR"} \subseteq Regs
    BY DEF Regs, AllBanks
  <2>2. PICK flag \in {"TXIF", "TXERIF"} :
          regs' = [regs EXCEPT !["ECON1"] = @ \ {"TXRTS"}, !["EIR"] = @ \union {flag}]
    BY <1>4 DEF TransmissionEnds
  <2>3. /\ regs'["ECON1"] = regs["ECON1"] \ {"TXRTS"} /\ regs'["EIR"] = regs["EIR"] \union {flag}
        /\ regs'["ECON2"] = regs["ECON2"]
    BY <1>1, <2>1, <2>2 DEF TypeInv
  <2>4. On /\ ~On' /\ Asleep' = Asleep /\ regs'["EIR"] \subseteq {"TXERIF", "TXIF"}
    BY <1>4, <2>3 DEF TransmissionEnds, On, Asleep, SendInv, FlagsRight
  <2>5. UNCHANGED <<variant, call, todo, count>>
    BY <1>4 DEF TransmissionEnds, sending
  <2> QED BY <1>1, <2>4, <2>5
          DEF SendInv, FlagsRight, Awake, Between, Undisturbed, Starting, Looked
<1>5. CASE Unit \/ UNCHANGED vars
  <2>1. UNCHANGED <<variant, call, todo, count, On, Asleep>> /\ regs'["EIR"] = regs["EIR"]
    BY <1>1, <1>5, UnitIs DEF vars, chip, sending, On, Asleep
  <2> QED BY <1>1, <2>1
          DEF SendInv, FlagsRight, Awake, Between, Undisturbed, Starting, Looked
<1> QED BY <1>2, <1>3, <1>4, <1>5, Kinds

(* Whatever the build, and whatever the sketch calls between frames: a     *)
(* frame on its way out is stopped, overwritten or slept on only after     *)
(* packetSend has looked Patience times for its end.                       *)
THEOREM FramesInTime == Spec => FramesGetTheirTime
<1>1. Init => SendInv
  <2> SUFFICES ASSUME Init PROVE SendInv
    OBVIOUS
  <2>1. {"ECON1", "ECON2", "EIR"} \subseteq Regs
    BY DEF Regs, AllBanks
  <2>2. regs["ECON1"] = {} /\ regs["ECON2"] = {} /\ regs["EIR"] = {} /\ call = "none" /\ todo = << >>
    BY <2>1 DEF Init, AfterReset
  <2>3. ~On /\ ~Asleep
    BY <2>2 DEF On, Asleep
  <2> QED BY <2>2, <2>3, TypeInit
          DEF SendInv, FlagsRight, Awake, Between, Undisturbed, Starting, Looked
<1>2. ASSUME SendInv, [Next]_vars, On, ~TransmissionEnds, call \notin {"initialize", "bist"}
      PROVE  \/ count = Patience
             \/ On' /\ txmem' = txmem /\ regs'["ECON2"] = regs["ECON2"]
  <2>1. TypeInv
    BY <1>2 DEF SendInv
  <2>2. CASE Operate
    <3> DEFINE op == Head(todo)
    <3>1. todo # << >> /\ todo \in Seq(Operations) /\ call \in {"straight", "powerDown", "cancel"}
      BY <1>2, <2>1, <2>2, OperateIs DEF TypeInv, Names, SendInv, Undisturbed, Starting
    <3>2. CASE call = "straight"
      <4>1. op \in Mild
        BY <1>2, <3>1, <3>2, Shorter DEF SendInv, Undisturbed
      <4> QED BY <1>2, <2>1, <2>2, <4>1, OperateOn
    <3>3. CASE call = "powerDown"
      <4>1. op \in Mild
        <5>1. PICK k \in 1 .. Len(todo) : \A j \in 1 .. k : todo[j] \in Mild
          BY <1>2, <3>3 DEF SendInv, Undisturbed
        <5>2. op = todo[1] /\ Len(todo) \in Nat
          BY <3>1, Shorter
        <5> HIDE DEF op
        <5> QED BY <5>1, <5>2
      <4> QED BY <1>2, <2>1, <2>2, <4>1, OperateOn
    <3>4. CASE call = "cancel"
      BY <1>2, <3>4 DEF SendInv, Looked
    <3> QED BY <3>1, <3>2, <3>3, <3>4
  <2>3. CASE Turn
    BY <1>2, <2>1, <2>3, TurnIs DEF On
  <2>4. CASE Unit \/ UNCHANGED vars
    BY <1>2, <2>1, <2>4, UnitIs DEF vars, chip, On
  <2> QED BY <1>2, <2>2, <2>3, <2>4, Kinds
<1>3. SendInv /\ [Next]_vars =>
        [("TXRTS" \in regs["ECON1"] /\ ~TransmissionEnds /\ call \notin {"initialize", "bist"})
           => \/ count = Patience
              \/ "TXRTS" \in regs'["ECON1"] /\ txmem' = txmem /\ regs'["ECON2"] = regs["ECON2"]]_vars
  BY <1>2 DEF On
<1> QED BY <1>1, <1>3, SendStep, PTL DEF Spec, FramesGetTheirTime
=============================================================================
