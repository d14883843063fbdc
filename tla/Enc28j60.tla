------------------------------ MODULE Enc28j60 ------------------------------
(***************************************************************************)
(* The driver of enc28j60.cpp but for packetReceive (see RxRing): its      *)
(* functions as sequences of operations on the chip's registers, with the  *)
(* chip at work between any two of them.                                   *)
(*                                                                         *)
(* A register is shown as the set of its bits that are on; a pointer or a  *)
(* value as the set of what it points to or means.  Most registers are     *)
(* reached only in the bank selected in the chip, which the driver         *)
(* remembers in Enc28j60Bank so as not to select it again.                 *)
(***************************************************************************)
EXTENDS Naturals, Sequences

CONSTANTS
  Variants,   \* pipelining, retry: ETHERCARD_SEND_PIPELINING and
              \* ETHERCARD_RETRY_LATECOLLISIONS; mixes: the sketch switches
              \* broadcasts or multicasts while in promiscuous mode
  Patience,   \* 1000 in the code: how often packetSend looks at EIR
  RetryLimit, \* 16 in the code
  MaxFrames   \* bound on the calls of packetSend

ASSUME DriverAssumption ==
  /\ Variants \subseteq [pipelining : BOOLEAN, retry : BOOLEAN, mixes : BOOLEAN]
  /\ Patience \in Nat \ {0} /\ RetryLimit \in Nat /\ MaxFrames \in Nat

VARIABLES
  variant,
  call,          \* the function called, or where packetSend is in it
  todo,          \* the operations it has still to do
  begun,         \* initialize has returned, and no doBIST since
  Enc28j60Bank,
  retry, count,  \* of packetSend
  broadcast_enabled, promiscuous_enabled,
  given,         \* the frame of the last packetSend
  regs, bank,    \* the chip: its registers, the bank selected in ECON1,
  txmem          \* the frame in its transmit buffer

flags == <<broadcast_enabled, promiscuous_enabled>>
sending == <<retry, count, given>>
chip == <<regs, bank, txmem>>
vars == <<variant, call, todo, begun, Enc28j60Bank, sending, flags, chip>>

AllBanks == {"EIE", "EIR", "ESTAT", "ECON2", "ECON1"}
Banks ==
  <<{"ERDPT", "EWRPT", "ETXST", "ETXND", "ERXST", "ERXND", "ERXRDPT", "EDMAST", "EDMAND",
     "EDMACS"},
    {"EPMM", "EPMCS", "ERXFCON"},
    {"MACON1", "MACON3", "MABBIPG", "MAIPG", "MAMXFL", "MIREGADR", "MICMD", "MIWR", "MIRD"},
    {"MAADR", "EBSTSD", "EBSTCON", "EBSTCS", "MISTAT", "EREVID"}>>
Regs == AllBanks \union UNION {Banks[b] : b \in 1 .. 4}

(* The bank bits of a register's address; those of all-bank ones are 0.    *)
BankOf(r) == IF r \in AllBanks THEN 0 ELSE (CHOOSE b \in 1 .. 4 : r \in Banks[b]) - 1

(* Operations: writeRegByte, writeReg and readRegByte select the bank,     *)
(* readOp and writeOp do not.  A wait polls until the bits are on, or off. *)
Op(how, r, bits) == [how |-> how, reg |-> r, bits |-> bits, selects |-> TRUE]
Raw(how, r, bits) == [how |-> how, reg |-> r, bits |-> bits, selects |-> FALSE]
Write(r, bits) == Op("write", r, bits)
Read(r) == Op("read", r, {})
Memory(how) == Raw(how, "ECON1", {})   \* reads and writes of the buffer address no register

Selected(op) ==
  IF op.selects /\ BankOf(op.reg) # Enc28j60Bank THEN BankOf(op.reg) ELSE bank

-----------------------------------------------------------------------------
(* The straight parts of the driver's functions.                           *)
WritePhy == <<Write("MIREGADR", {}), Write("MIWR", {}), Op("off", "MISTAT", {"BUSY"})>>
ReadPhyByte ==
  <<Write("MIREGADR", {}), Write("MICMD", {"MIIRD"}), Op("off", "MISTAT", {"BUSY"}),
    Write("MICMD", {}), Read("MIRD")>>

SoftReset == <<Raw("reset", "ECON1", {}), Raw("on", "ESTAT", {"CLKRDY"})>>
Filter == {"UCEN", "CRCEN", "PMEN", "BCEN"}
InitializeRevisionFirst ==
  SoftReset \o <<Read("EREVID"), Write("ERXST", {}), Raw("set", "ECON1", {"RXEN"})>>
SetMemory == <<Write("ERXST", {}), Write("ERXRDPT", {}), Write("ERXND", {}), Write("ETXST", {}),
               Write("ETXND", {})>>
SetMac ==
  <<Write("ERXFCON", Filter), Write("EPMM", {}), Write("EPMCS", {}),
    Write("MACON1", {"MARXEN"}), Raw("set", "MACON3", {"PADCFG0", "TXCRCEN", "FRMLNEN"}),
    Write("MAIPG", {}), Write("MABBIPG", {}), Write("MAMXFL", {}), Write("MAADR", {})>>
StartReceiving ==
  <<Op("bank", "ECON1", {}), Raw("set", "EIE", {"INTIE", "PKTIE"}),
    Raw("set", "ECON1", {"RXEN"}), Read("EREVID")>>
Initialize == SoftReset \o SetMemory \o WritePhy \o SetMac \o WritePhy \o StartReceiving

(* Both tests of doBIST end like this: wait for the fill, have the DMA     *)
(* compute a checksum and compare it with the test's own.                  *)
BistChecksum ==
  <<Raw("off", "EBSTCON", {"BISTST"}), Raw("clear", "EBSTCON", {"TME"}),
    Raw("set", "ECON1", {"DMAST", "CSUMEN"}), Op("bank", "EDMACS", {}),
    Raw("off", "ECON1", {"DMAST"}), Read("EDMACS"), Read("EBSTCS")>>
StartAddressFill ==
  <<Write("ECON1", {}), Write("EDMAST", {}), Write("EDMAND", {}), Write("ERXND", {}),
    Op("bank", "EBSTCON", {}), Write("EBSTCON", {"TME", "BISTST"})>>
StartRandomFill ==
  <<Raw("clear", "EBSTCON", {"TME"}), Write("EBSTSD", {}),
    Write("EBSTCON", {"TME", "PSEL", "BISTST"})>>
BistAddressFill == SoftReset \o StartAddressFill \o BistChecksum
BistRandomFill == StartRandomFill \o BistChecksum

PowerDown ==
  <<Raw("clear", "ECON1", {"RXEN"}), Op("off", "ESTAT", {"RXBUSY"}),
    Op("off", "ECON1", {"TXRTS"}), Raw("set", "ECON2", {"VRPS"}),
    Raw("set", "ECON2", {"PWRSV"})>>
PowerUp ==
  <<Raw("clear", "ECON2", {"PWRSV"}), Op("on", "ESTAT", {"CLKRDY"}),
    Raw("set", "ECON1", {"RXEN"})>>

(* packetSend: start a transmission, of a new frame unless it is a retry.  *)
Start(again) ==
  <<Raw("set", "ECON1", {"TXRST"}), Raw("clear", "ECON1", {"TXRST"}),
    Raw("clear", "EIR", {"TXERIF", "TXIF"})>> \o
  (IF again THEN << >> ELSE <<Write("EWRPT", {}), Write("ETXND", {}), Memory("fill")>>)
  \o <<Raw("set", "ECON1", {"TXRTS"})>>
ReadTsv == <<Read("ETXND"), Write("ERDPT", {}), Memory("get")>>

Copyout == <<Write("EWRPT", {}), Memory("put")>>   \* and memcpy_to_enc
Copyin == <<Write("ERDPT", {}), Memory("get")>>     \* peekin and memcpy_from_enc

-----------------------------------------------------------------------------
AfterReset == [r \in Regs |-> IF r = "ERXFCON" THEN {"UCEN", "CRCEN", "BCEN"} ELSE {}]

Init ==
  /\ variant \in Variants
  /\ call = "none" /\ todo = << >> /\ begun = FALSE
  /\ Enc28j60Bank = 0 /\ retry = 0 /\ count = 0
  /\ broadcast_enabled = FALSE /\ promiscuous_enabled = FALSE /\ given = 0
  /\ regs = AfterReset /\ bank = 0 /\ txmem = 0

(* One operation.  A PHY command makes the MII interface busy, a reset of  *)
(* the transmitter ends a transmission.                                    *)
NewBits(op) ==
  CASE op.how = "write" -> op.bits
    [] op.how = "set" ->
         (regs[op.reg] \union op.bits) \ (IF "TXRST" \in op.bits THEN {"TXRTS"} ELSE {})
    [] op.how = "clear" -> regs[op.reg] \ op.bits
    [] OTHER -> regs[op.reg]
Operate ==
  LET op == Head(todo) IN
  /\ todo # << >> /\ todo' = Tail(todo)
  /\ op.how = "on" => op.bits \subseteq regs[op.reg]
  /\ op.how = "off" => op.bits \intersect regs[op.reg] = {}
  /\ Enc28j60Bank' = IF op.selects THEN BankOf(op.reg) ELSE Enc28j60Bank
  /\ bank' = IF op.how = "reset" \/ (op.how = "write" /\ op.reg = "ECON1") THEN 0
             ELSE Selected(op)
  /\ regs' = IF op.how = "reset" THEN AfterReset
             ELSE [regs EXCEPT ![op.reg] = NewBits(op),
                     !["MISTAT"] = IF op.how = "write" /\ (op.reg = "MIWR" \/ "MIIRD" \in op.bits)
                                   THEN {"BUSY"} ELSE @]
  /\ txmem' = IF op.how = "fill" THEN given ELSE txmem
  /\ UNCHANGED <<variant, call, begun, sending, flags>>

-----------------------------------------------------------------------------
(* Calls by the sketch and the stack.  A sketch calls nothing but powerUp  *)
(* or begin while the chip sleeps.                                         *)
Asleep == "PWRSV" \in regs["ECON2"]
Ready == begun /\ call = "none" /\ ~Asleep
Called(name, ops) == call' = name /\ todo' = ops
CallInitialize ==
  /\ call = "none" /\ Called("initialize", Initialize) /\ begun' = FALSE
  /\ UNCHANGED <<variant, Enc28j60Bank, sending, flags, chip>>
CallDoBist ==
  /\ call = "none" /\ ~Asleep /\ Called("bist", BistAddressFill) /\ begun' = FALSE
  /\ UNCHANGED <<variant, Enc28j60Bank, sending, flags, chip>>
CallStraight ==
  /\ begun /\ call = "none"
  /\ \/ /\ ~Asleep
        /\ \/ \E ops \in {ReadPhyByte, Copyout, Copyin} : Called("straight", ops)
           \/ Called("powerDown", PowerDown)
     \/ Asleep /\ Called("straight", PowerUp)
  /\ UNCHANGED <<variant, begun, Enc28j60Bank, sending, flags, chip>>

(* enableBroadcast and its like read ERXFCON and write it back.            *)
SetFilter(bits) == Called("straight", <<Read("ERXFCON"), Write("ERXFCON", bits)>>)
BroadcastOn == regs["ERXFCON"] \union {"BCEN"}
SwitchFilter ==
  /\ Ready /\ ("UCEN" \in regs["ERXFCON"] \/ variant.mixes)
  /\ \E temporary \in BOOLEAN :
       \/ /\ SetFilter(BroadcastOn)
          /\ broadcast_enabled' = (broadcast_enabled \/ ~temporary)
       \/ /\ broadcast_enabled' = (broadcast_enabled /\ temporary)
          /\ IF broadcast_enabled' THEN Called("straight", << >>)
             ELSE SetFilter(regs["ERXFCON"] \ {"BCEN"})
       \/ /\ SetFilter(regs["ERXFCON"] \union {"MCEN"}) \/ SetFilter(regs["ERXFCON"] \ {"MCEN"})
          /\ UNCHANGED broadcast_enabled
  /\ UNCHANGED <<variant, begun, Enc28j60Bank, sending, promiscuous_enabled, chip>>
PromiscuousWithBroadcasts == regs["ERXFCON"] \intersect {"CRCEN", "BCEN"}
Promiscuous == regs["ERXFCON"] \intersect {"CRCEN"}
SwitchPromiscuous ==
  /\ Ready
  /\ \E temporary \in BOOLEAN :
       \/ /\ SetFilter(Promiscuous)
          /\ promiscuous_enabled' = (promiscuous_enabled \/ ~temporary)
       \/ /\ promiscuous_enabled' = (promiscuous_enabled /\ temporary)
          /\ Called("straight",
                    IF promiscuous_enabled' THEN << >> ELSE <<Write("ERXFCON", Filter)>>)
  /\ UNCHANGED <<variant, begun, Enc28j60Bank, sending, broadcast_enabled, chip>>

-----------------------------------------------------------------------------
(* packetSend.  With pipelining it first waits for the frame before.       *)
Wait == call' = "wait" /\ count' = 0 /\ todo' = << >>
PacketSendAtOnce ==
  /\ Ready /\ given < MaxFrames /\ given' = given + 1
  /\ retry' = 0 /\ Called("start", Start(FALSE)) /\ UNCHANGED count
  /\ UNCHANGED <<variant, begun, Enc28j60Bank, flags, chip>>
PacketSend ==
  /\ Ready /\ given < MaxFrames /\ given' = given + 1 /\ retry' = 0
  /\ IF variant.pipelining THEN Wait ELSE Called("start", Start(FALSE)) /\ UNCHANGED count
  /\ UNCHANGED <<variant, begun, Enc28j60Bank, flags, chip>>

Started ==
  /\ call = "start" /\ todo = << >>
  /\ IF variant.pipelining /\ retry = 0
     THEN Called("none", << >>) /\ UNCHANGED count ELSE Wait
  /\ UNCHANGED <<variant, begun, Enc28j60Bank, retry, given, flags, chip>>

(* EIR is read through its bank like any other register.                   *)
ReadEir ==
  /\ Enc28j60Bank' = 0 /\ bank' = Selected(Read("EIR"))
  /\ UNCHANGED <<regs, txmem>>
PollForever ==
  /\ call = "wait" /\ ReadEir
  /\ call' = IF regs["EIR"] = {} THEN "wait" ELSE "look"
  /\ UNCHANGED <<variant, todo, begun, sending, flags>>
Poll ==
  /\ call = "wait" /\ ReadEir
  /\ count' = IF regs["EIR"] = {} THEN count + 1 ELSE count
  /\ call' = IF regs["EIR"] = {} /\ count' < Patience THEN "wait" ELSE "look"
  /\ UNCHANGED <<variant, todo, begun, retry, given, flags>>

(* BREAKORCONTINUE: the frame is done with.                                *)
Done ==
  /\ retry' = 0 /\ count' = 0
  /\ IF variant.pipelining THEN Called("start", Start(FALSE)) ELSE Called("none", << >>)
  /\ UNCHANGED <<variant, begun, given, flags>>
Look ==
  /\ call = "look" /\ ReadEir
  /\ IF "TXERIF" \notin regs["EIR"] /\ count < Patience THEN Done
     ELSE /\ Called("cancel", <<Raw("clear", "ECON1", {"TXRTS"})>> \o
                             (IF variant.retry THEN ReadTsv ELSE << >>))
          /\ UNCHANGED <<variant, begun, sending, flags>>
RetryAfterLateCollision ==
  /\ call = "cancel" /\ todo = << >> /\ variant.retry /\ ReadEir
  /\ "TXERIF" \in regs["EIR"] /\ retry <= RetryLimit
  /\ retry' = retry + 1 /\ Called("start", Start(TRUE))
  /\ UNCHANGED <<variant, begun, count, given, flags>>
GiveUp ==
  /\ call = "cancel" /\ todo = << >> /\ Done
  /\ IF variant.retry THEN ReadEir ELSE UNCHANGED <<Enc28j60Bank, chip>>

-----------------------------------------------------------------------------
InitializeReturns ==
  /\ call = "initialize" /\ todo = << >> /\ Called("none", << >>) /\ begun' = TRUE
  /\ UNCHANGED <<variant, Enc28j60Bank, sending, flags, chip>>
Returns ==
  /\ call \in {"straight", "powerDown", "bist", "bist2"} /\ todo = << >> /\ Called("none", << >>)
  /\ UNCHANGED <<variant, begun, Enc28j60Bank, sending, flags, chip>>
BistGoesOn ==   \* the checksums agreed
  /\ call = "bist" /\ todo = << >> /\ Called("bist2", BistRandomFill)
  /\ UNCHANGED <<variant, begun, Enc28j60Bank, sending, flags, chip>>

-----------------------------------------------------------------------------
(* The chip.                                                               *)
Chip(r, bits) ==
  /\ regs' = [regs EXCEPT ![r] = bits]
  /\ UNCHANGED <<variant, call, todo, begun, Enc28j60Bank, sending, flags, bank, txmem>>
(* A transmission ends in success, fails, or never ends (Errata Issue 13). *)
TransmissionEnds ==
  /\ "TXRTS" \in regs["ECON1"]
  /\ \E flag \in {"TXIF", "TXERIF"} :
       regs' = [regs EXCEPT !["ECON1"] = @ \ {"TXRTS"}, !["EIR"] = @ \union {flag}]
  /\ UNCHANGED <<variant, call, todo, begun, Enc28j60Bank, sending, flags, bank, txmem>>
Finishes(r, bit) == bit \in regs[r] /\ Chip(r, regs[r] \ {bit})
ReceiveBegins ==
  /\ "RXEN" \in regs["ECON1"] /\ ~Asleep /\ "RXBUSY" \notin regs["ESTAT"]
  /\ Chip("ESTAT", regs["ESTAT"] \union {"RXBUSY"})
ClockStarts ==
  /\ ~Asleep /\ "CLKRDY" \notin regs["ESTAT"]
  /\ Chip("ESTAT", regs["ESTAT"] \union {"CLKRDY"})
ClockStops == Asleep /\ Finishes("ESTAT", "CLKRDY")

Driver ==
  \/ Operate \/ Started \/ Poll \/ Look \/ RetryAfterLateCollision \/ GiveUp
  \/ InitializeReturns \/ Returns \/ BistGoesOn
Calls ==
  \/ CallInitialize \/ CallDoBist \/ CallStraight \/ SwitchFilter \/ SwitchPromiscuous \/ PacketSend
Units ==
  {<<"MISTAT", "BUSY">>, <<"EBSTCON", "BISTST">>, <<"ECON1", "DMAST">>, <<"ESTAT", "RXBUSY">>}
Works == \E u \in Units : Finishes(u[1], u[2])
Next == Driver \/ Calls \/ Works \/ ClockStarts \/ TransmissionEnds \/ ReceiveBegins \/ ClockStops
Spec == Init /\ [][Next]_vars

(* The loop of the microcontroller goes on, and so do the units of the     *)
(* chip, except for the transmitter.                                       *)
FairSpec ==
  /\ Spec /\ WF_vars(Driver) /\ WF_vars(ClockStarts)
  /\ \A u \in Units : WF_vars(Finishes(u[1], u[2]))

-----------------------------------------------------------------------------
(* Whatever the driver reads or writes next, the register's bank is the    *)
(* one selected in the chip once SetBank has done its work: the copy in    *)
(* Enc28j60Bank survives the reset of the chip by initialize and doBIST,   *)
(* and the raw accesses rely on the access before them.                    *)
BankRight ==
  todo # << >> =>
    LET op == Head(todo) IN
    op.reg \notin AllBanks => Selected(op) = BankOf(op.reg)

(* The driver stops a transmission, overwrites its frame or lets the chip  *)
(* sleep on it only after it has looked Patience times for its end; only   *)
(* initialize and doBIST reset the chip without a look.                    *)
FramesGetTheirTime ==
  [][("TXRTS" \in regs["ECON1"] /\ ~TransmissionEnds /\ call \notin {"initialize", "bist"})
       => \/ count = Patience
          \/ "TXRTS" \in regs'["ECON1"] /\ txmem' = txmem /\ regs'["ECON2"] = regs["ECON2"]]_vars

(* Every call returns although a transmission may never end: but powerDown *)
(* of a build with pipelining, which waits for it without counting.        *)
CallsReturn ==
  (call # "none") ~>
    \/ call = "none"
    \/ call = "powerDown" /\ variant.pipelining /\ "TXRTS" \in regs["ECON1"]

(* Between calls the filter lets the frames for this board and the ARP     *)
(* requests pass (the pattern match), or everything (CRCEN alone), and the *)
(* broadcasts a sketch asked for: unless it switches broadcasts or         *)
(* multicasts in promiscuous mode.                                         *)
OwnFramesHeard ==
  begun /\ call = "none" /\ ~variant.mixes =>
    \/ regs["ERXFCON"] = {"CRCEN"}
    \/ /\ {"UCEN", "CRCEN", "PMEN"} \subseteq regs["ERXFCON"]
       /\ broadcast_enabled => "BCEN" \in regs["ERXFCON"]
=============================================================================
