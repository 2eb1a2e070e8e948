---------------------------- MODULE SdCard_proof ----------------------------
(***************************************************************************)
(* Theorems about SdCard, for a card of any kind and capacity and calls of *)
(* any length: the driver implements BlockDevice, and a read of several    *)
(* blocks is stopped before disk_read returns.                             *)
(***************************************************************************)
EXTENDS SdCard, SequenceTheorems, TLAPS

-----------------------------------------------------------------------------
(* The invariant.                                                          *)

\* The places of the driver, by the function it is in.
Probing == {"probe", "wait_sd1", "wait_mmc", "cmd16_sd1", "cmd16_mmc"}
Initializing == {"cmd0", "cmd8", "acmd41", "cmd58"} \cup Probing
Reading == {"read", "read_block", "read_stop"}
Writing == {"write_count", "write", "write_block", "crc", "write_stop"}
Transferring == Reading \cup Writing
Phases == {"idle", "ready", "read", "read_multi", "write", "write_multi", "register"}

\* A card that is not busy has stored everything it accepted.
CardInv ==
  /\ kind \in Kinds /\ present \in BOOLEAN /\ busy \in BOOLEAN
  /\ phase \in Phases
  /\ next \in Nat
  /\ media \in [Sector -> Data]
  /\ cache \in [DOMAIN cache -> Data] /\ DOMAIN cache \subseteq Sector
  /\ ~busy => cache = Nothing

\* A driver that is ready addresses the card as the card counts: a card of high
\* capacity never gets past the commands for the older kinds.
AddressInv ==
  /\ noinit \in BOOLEAN
  /\ ~noinit => ("BLOCK" \in CardType <=> kind = "sdhc")
  /\ pc \in Initializing => noinit
  /\ pc \in Transferring => ~noinit
  /\ pc = "cmd8" => phase = "idle"
  /\ pc \in Probing /\ kind = "sdhc" => phase = "idle"

\* How far the call is: what is left of it, and the card's next block.
CallInv ==
  /\ pc \in {"rest", "end", "sync", "register", "register_block"}
             \cup Initializing \cup Transferring
  /\ pc = "rest" <=> request = NoRequest
  /\ request.fn \in {"none", "control", "sync", "read", "write"}
  /\ request.fn = "none" => request = NoRequest
  /\ pc \in Initializing \cup {"register", "register_block"} => request.fn = "control"
  /\ pc \in Reading => request.fn = "read"
  /\ pc \in Writing => request.fn = "write"
  /\ pc = "sync" => request.fn = "sync"
  /\ request.fn = "sync" => count \in {0, 1}
  /\ pc = "sync" => count = 1
  /\ pc = "end" /\ request.fn = "sync" /\ count = 0 => cache = Nothing
  /\ buf \in Seq(Data)
  /\ request.fn = "read" =>
       /\ request.sector \in 0 .. Sectors /\ request.count \in Nat
       /\ count \in Nat /\ count = request.count - Len(buf)
       /\ pc \in {"read", "read_block"} => count > 0
       /\ pc = "read" => buf = << >>
       /\ pc = "read_block" => next = request.sector + Len(buf)
  /\ request.fn = "write" =>
       /\ request.sector \in 0 .. Sectors /\ request.data \in Seq(Data)
       /\ count \in 0 .. Len(request.data)
       /\ pc \in {"write_count", "write", "write_block", "crc"} => count > 0
       /\ pc \in {"write_count", "write"} => count = Len(request.data)
       /\ pc \in {"write_block", "crc"} =>
            next = request.sector + (Len(request.data) - count)

\* An open read of several blocks is on its way to CMD12.
StopInv ==
  present /\ phase = "read_multi" =>
    /\ pc \in {"read_block", "read_stop"}
    /\ pc = "read_block" => request.count > 1

Inv == CardInv /\ AddressInv /\ CallInv /\ StopInv

-----------------------------------------------------------------------------
(* Addresses, and what a command does.                                     *)

\* A product divided by one of its factors.
LEMMA Quotient ==
  ASSUME NEW s \in Nat, NEW b \in Nat \ {0}
  PROVE  (s * b) \div b = s
  BY Z3

\* The address in bytes of a sector, or of the one past the last, fits in 32 bits.
LEMMA NoOverflow ==
  ASSUME NEW s \in 0 .. Sectors, Kinds # {"sdhc"}
  PROVE  (s * BlockLen) % Word = s * BlockLen
  <1>1. s * BlockLen \in Nat /\ (Sectors + 1) * BlockLen = Sectors * BlockLen + BlockLen
    BY SizesAssumption
  <1>2. s * BlockLen <= Sectors * BlockLen
    BY SizesAssumption
  <1>3. s * BlockLen < Word
    BY <1>1, <1>2, SizesAssumption, BytesAssumption
  <1>4. QED
    BY <1>1, <1>3, SizesAssumption

\* The driver's address of a sector is where the card looks for it.
LEMMA AddressFound ==
  ASSUME kind \in Kinds, AddressInv, ~noinit, NEW s \in 0 .. Sectors
  PROVE  SectorOf(Address(s)) = s
  <1>1. CASE kind = "sdhc"
    BY <1>1 DEF AddressInv, SectorOf, Address
  <1>2. CASE kind # "sdhc"
    <2>1. Address(s) = s * BlockLen
      BY <1>2, NoOverflow DEF AddressInv, Address
    <2>2. (s * BlockLen) \div BlockLen = s
      BY Quotient, SizesAssumption
    <2>3. QED
      BY <1>2, <2>1, <2>2 DEF SectorOf
  <1>3. QED
    BY <1>1, <1>2

Commands == {"CMD0", "CMD1", "CMD8", "CMD9", "CMD12", "CMD16", "CMD17", "CMD18", "CMD24",
             "CMD25", "CMD58", "ACMD23", "ACMD41"}

\* What send_cmd leaves alone, and what an answer tells.
LEMMA Sent ==
  ASSUME CardInv, NEW cmd \in Commands, NEW arg, NEW res, SendCmd(cmd, arg, res)
  PROVE  /\ UNCHANGED <<kind, present, busy, cache, media>>
         /\ CardInv'
         /\ phase' = "read_multi" =>
              \/ cmd = "CMD18" /\ res = "ok"
              \/ phase = "read_multi" /\ (present => cmd # "CMD12")
         /\ cmd \in DOMAIN Opens /\ res = "ok" => next' = SectorOf(arg)
         /\ cmd = "CMD0" /\ res = "idle" => phase' = "idle"
         /\ cmd = "CMD8" => phase' = phase
         /\ phase = "idle" /\ kind = "sdhc" =>
              /\ cmd = "ACMD41" /\ arg # HCS => phase' = "idle" /\ res # "ok"
              /\ cmd = "CMD1" /\ arg # HCS => phase' = "idle" /\ res # "ok"
              /\ cmd = "CMD16" => phase' = "idle" /\ res # "ok"
  <1>1. UNCHANGED <<kind, present, busy, cache, media>>
    BY DEF SendCmd
  <1>2. CASE Obey(cmd, arg, res)
    <2>1. /\ Understood(cmd, arg) /\ phase' \in PhasesAfter(cmd, arg)
          /\ res = IF phase' = "idle" THEN "idle" ELSE "ok"
          /\ next' = IF cmd \in DOMAIN Opens THEN SectorOf(arg) ELSE next
      BY <1>2 DEF Obey
    <2>2. DOMAIN Opens = {"CMD17", "CMD18", "CMD24", "CMD25"}
      BY DEF Opens
    <2>3. phase' \in Phases
      BY <2>1, <2>2 DEF PhasesAfter, CardInv, Phases, Opens, Commands
    <2>4. next' \in Nat
      BY <2>1, <2>2, SizesAssumption DEF Understood, CardInv, Sector
    <2>5. CardInv'
      BY <1>1, <2>3, <2>4 DEF CardInv, Sector
    <2>6. QED
      BY <1>1, <2>1, <2>2, <2>5 DEF PhasesAfter, Understood, Opens, Commands
  <1>3. CASE ~Obey(cmd, arg, res)
    <2>1. UNCHANGED <<phase, next>>
      BY <1>3 DEF SendCmd
    <2>2. CardInv'
      BY <1>1, <2>1 DEF CardInv, Sector
    <2>3. res \in {"refused", "none"} /\ (cmd = "CMD12" /\ present => ~Understood(cmd, arg))
      BY <1>3 DEF SendCmd
    <2>4. QED
      BY <1>1, <2>1, <2>2, <2>3 DEF Understood
  <1>4. QED
    BY <1>2, <1>3

-----------------------------------------------------------------------------
(* The invariant is inductive.                                             *)

\* The empty cache.
LEMMA NothingCached == Nothing \in [DOMAIN Nothing -> Data] /\ DOMAIN Nothing = {}
  BY DEF Nothing

\* The invariant holds at first.
LEMMA InitInv ==
  ASSUME Init
  PROVE  Inv
  <1>1. CardInv
    BY NothingCached DEF Init, CardInv, Phases, Sector
  <1>2. AddressInv
    BY DEF Init, AddressInv, Initializing, Transferring, Reading, Writing, Probing
  <1>3. CallInv /\ StopInv
    BY DEF Init, CallInv, StopInv, NoRequest, Initializing, Transferring, Reading, Writing,
           Probing
  <1>4. QED
    BY <1>1, <1>2, <1>3 DEF Inv

\* A step of the card alone.
LEMMA CardStep ==
  ASSUME Inv, Store \/ Remove
  PROVE  Inv'
  <1>1. CardInv'
    <2>1. CASE Store
      <3>1. \A s \in Sector : Stored(s) \in Data
        BY DEF Inv, CardInv, Stored
      <3>2. media' \in [Sector -> Data] /\ cache' = Nothing
        BY <2>1, <3>1 DEF Store
      <3>3. QED
        BY <2>1, <3>2, NothingCached DEF Inv, CardInv, Store, Sector
    <2>2. CASE Remove
      BY <2>2, NothingCached DEF Inv, CardInv, Remove, Sector
    <2>3. QED
      BY <2>1, <2>2
  <1>2. AddressInv'
    BY DEF Inv, AddressInv, Store, Remove, driver
  <1>3. CallInv' /\ StopInv'
    BY DEF Inv, CallInv, StopInv, Store, Remove, driver
  <1>4. QED
    BY <1>1, <1>2, <1>3 DEF Inv

\* A call begins, is refused, or ends.
LEMMA CallerStep ==
  ASSUME Inv, Caller
  PROVE  Inv'
  <1> USE DEF Initializing, Transferring, Reading, Writing, Probing
  <1>1. CASE Initialize
    <2>1. CardInv'
      BY <1>1 DEF Inv, CardInv, Initialize, card, Sector
    <2>2. AddressInv'
      BY <1>1 DEF Inv, AddressInv, Initialize, Called, card
    <2>3. CallInv' /\ StopInv'
      BY <1>1 DEF Inv, CallInv, StopInv, Initialize, Called, card, NoRequest
    <2>4. QED
      BY <2>1, <2>2, <2>3 DEF Inv
  <1>2. CASE StartRead
    <2>1. CASE Refused
      BY <2>1 DEF Inv, CardInv, AddressInv, CallInv, StopInv, Refused, card
    <2>2. CASE ~Refused
      <3> PICK sector \in 0 .. Sectors, n \in 0 .. MaxCount :
            /\ n # 0 /\ ~noinit
            /\ Called([fn |-> "read", sector |-> sector, count |-> n], "read", n)
            /\ UNCHANGED <<card, powered, noinit, CardType, timeout, reply>>
        BY <1>2, <2>2 DEF StartRead
      <3>1. CardInv'
        BY DEF Inv, CardInv, card, Sector
      <3>2. AddressInv'
        BY DEF Inv, AddressInv, Called, card
      <3>3. CallInv' /\ StopInv'
        BY <1>2, SizesAssumption
           DEF StartRead, Inv, CallInv, StopInv, Called, card, NoRequest
      <3>4. QED
        BY <3>1, <3>2, <3>3 DEF Inv
    <2>3. QED
      BY <2>1, <2>2
  <1>3. CASE StartWrite
    <2>1. CASE Refused
      BY <2>1 DEF Inv, CardInv, AddressInv, CallInv, StopInv, Refused, card
    <2>2. CASE ~Refused
      <3> PICK sector \in 0 .. Sectors, n \in 0 .. MaxCount : \E data \in [1 .. n -> Data] :
            /\ n # 0 /\ ~noinit
            /\ Called([fn |-> "write", sector |-> sector, data |-> data],
                      IF n > 1 /\ CardType \cap {"SD1", "SD2"} # {} THEN "write_count"
                      ELSE "write", n)
            /\ UNCHANGED <<card, powered, noinit, CardType, timeout, reply>>
        BY <1>3, <2>2 DEF StartWrite
      <3> PICK data \in [1 .. n -> Data] :
            /\ n # 0 /\ ~noinit
            /\ Called([fn |-> "write", sector |-> sector, data |-> data],
                      IF n > 1 /\ CardType \cap {"SD1", "SD2"} # {} THEN "write_count"
                      ELSE "write", n)
            /\ UNCHANGED <<card, powered, noinit, CardType, timeout, reply>>
        OBVIOUS
      <3>1. CardInv'
        BY DEF Inv, CardInv, card, Sector
      <3>2. AddressInv'
        BY DEF Inv, AddressInv, Called, card
      <3>3. data \in Seq(Data) /\ Len(data) = n /\ n \in Nat
        BY SizesAssumption
      <3>4. CallInv' /\ StopInv'
        BY <1>3, <3>3 DEF StartWrite, Inv, CallInv, StopInv, Called, card, NoRequest
      <3>5. QED
        BY <3>1, <3>2, <3>4 DEF Inv
    <2>3. QED
      BY <2>1, <2>2
  <1>4. CASE StartIoctl
    <2>1. CASE Refused
      BY <2>1 DEF Inv, CardInv, AddressInv, CallInv, StopInv, Refused, card
    <2>2. CASE ~Refused
      <3>1. /\ \/ Called([fn |-> "sync"], "sync", 1)
               \/ Called([fn |-> "control"], "register", 1)
            /\ UNCHANGED <<card, powered, noinit, CardType, timeout, reply>>
            /\ pc = "rest" /\ ~noinit
        BY <1>4, <2>2 DEF StartIoctl
      <3>2. CardInv'
        BY <3>1 DEF Inv, CardInv, card, Sector
      <3>3. AddressInv'
        BY <3>1 DEF Inv, AddressInv, Called, card
      <3>4. CallInv' /\ StopInv'
        <4>1. CASE Called([fn |-> "sync"], "sync", 1)
          BY <3>1, <4>1 DEF Inv, CallInv, StopInv, Called, card, NoRequest
        <4>2. CASE Called([fn |-> "control"], "register", 1)
          BY <3>1, <4>2 DEF Inv, CallInv, StopInv, Called, card, NoRequest
        <4>3. QED
          BY <3>1, <4>1, <4>2
      <3>5. QED
        BY <3>2, <3>3, <3>4 DEF Inv
    <2>3. QED
      BY <2>1, <2>2
  <1>5. CASE PowerOff
    <2>1. CardInv' /\ AddressInv'
      BY <1>5 DEF Inv, CardInv, AddressInv, PowerOff, card, Sector
    <2>2. CallInv' /\ StopInv'
      BY <1>5 DEF Inv, CallInv, StopInv, PowerOff, card
    <2>3. QED
      BY <2>1, <2>2 DEF Inv
  <1>6. QED
    BY <1>1, <1>2, <1>3, <1>4, <1>5 DEF Caller

-----------------------------------------------------------------------------
(* The driver's steps in disk_initialize.                                  *)

\* What a try leaves alone, whether or not there was time for it.
LEMMA Tried ==
  ASSUME CardInv, NEW cmd \in Commands \ {"CMD18"}, NEW arg, NEW res, Try(cmd, arg, res)
  PROVE  /\ UNCHANGED <<kind, present>>
         /\ CardInv'
         /\ phase' = "read_multi" => phase = "read_multi"
         /\ cmd = "CMD8" => phase' = phase
         /\ phase = "idle" /\ kind = "sdhc" /\ cmd \in {"ACMD41", "CMD1"} /\ arg # HCS =>
              phase' = "idle" /\ res # "ok"
  <1>1. CASE timeout = 0
    BY <1>1 DEF Try, card, CardInv, Sector
  <1>2. CASE timeout # 0
    <2>1. SendCmd(cmd, arg, res)
      BY <1>2 DEF Try
    <2>2. QED
      BY <2>1, Sent
  <1>3. QED
    BY <1>1, <1>2

\* It goes on.
LEMMA ContinueInv ==
  ASSUME Inv, pc \in Initializing, NEW at \in Initializing, Continue(at),
         CardInv', UNCHANGED <<kind, present>>,
         phase' = "read_multi" => phase = "read_multi",
         at = "cmd8" => phase' = "idle",
         at \in Probing /\ kind = "sdhc" => phase' = "idle"
  PROVE  Inv'
  <1>1. AddressInv'
    BY DEF Inv, AddressInv, Continue, Initializing, Transferring, Reading, Writing, Probing
  <1>2. CallInv' /\ StopInv'
    BY DEF Inv, CallInv, StopInv, Continue, Initializing, Transferring, Reading, Writing,
           Probing
  <1>3. QED
    BY <1>1, <1>2 DEF Inv

\* It ends, with the flags of what it found.
LEMMA InitializedInv ==
  ASSUME Inv, pc \in Initializing, NEW ty, Initialized(ty),
         CardInv', UNCHANGED <<kind, present>>,
         phase' = "read_multi" => phase = "read_multi",
         ty # {} => ("BLOCK" \in ty <=> kind = "sdhc")
  PROVE  Inv'
  <1>1. pc' = "rest" /\ request' = NoRequest /\ CardType' = ty /\ buf' = buf
        /\ noinit' = (noinit /\ ty = {})
    BY DEF Initialized, Return
  <1>2. noinit
    BY DEF Inv, AddressInv
  <1>3. noinit' \in BOOLEAN /\ (~noinit' => ty # {})
    BY <1>1, <1>2
  <1>4. AddressInv'
    BY <1>1, <1>3 DEF AddressInv, Initializing, Transferring, Reading, Writing, Probing
  <1>5. CallInv'
    BY <1>1 DEF Inv, CallInv, NoRequest, Initializing, Transferring, Reading, Writing, Probing
  <1>6. StopInv'
    BY <1>1 DEF Inv, StopInv, Initializing, Probing
  <1>7. QED
    BY <1>4, <1>5, <1>6 DEF Inv

InitializeSteps ==
  GoIdle \/ SendIfCond \/ WaitSd2 \/ ReadOcr \/ Probe \/ WaitOld \/ SetBlockLen

\* The steps of disk_initialize keep it.
LEMMA InitializeStep ==
  ASSUME Inv, InitializeSteps
  PROVE  Inv'
  <1> USE DEF Commands, Initializing, Probing
  <1>1. CASE GoIdle
    <2> PICK res \in Answers :
          /\ SendCmd("CMD0", 0, res)
          /\ IF res = "idle" THEN Continue("cmd8") /\ timeout' = Tries ELSE Initialized({})
      BY <1>1 DEF GoIdle
    <2>1. /\ CardInv' /\ UNCHANGED <<kind, present>>
          /\ phase' = "read_multi" => phase = "read_multi"
          /\ res = "idle" => phase' = "idle"
      BY Sent DEF Inv
    <2>2. pc = "cmd0"
      BY <1>1 DEF GoIdle
    <2>3. QED
      BY <2>1, <2>2, ContinueInv, InitializedInv
  <1>2. CASE SendIfCond
    <2> PICK res \in Answers \cup {"timeout"} :
          /\ Try("CMD8", 0, res)
          /\ Continue("acmd41") \/ Initialized({}) \/ Continue("probe")
      BY <1>2 DEF SendIfCond
    <2>1. /\ CardInv' /\ UNCHANGED <<kind, present>>
          /\ phase' = "read_multi" => phase = "read_multi"
          /\ phase' = phase
      BY Tried DEF Inv
    <2>2. pc = "cmd8" /\ phase = "idle"
      BY <1>2 DEF SendIfCond, Inv, AddressInv
    <2>3. QED
      BY <2>1, <2>2, ContinueInv, InitializedInv
  <1>3. CASE WaitSd2
    <2> PICK res \in Answers \cup {"timeout"} :
          /\ Try("ACMD41", HCS, res)
          /\ Continue(IF res \in {"ok", "timeout"} THEN "cmd58" ELSE "acmd41")
      BY <1>3 DEF WaitSd2
    <2>1. /\ CardInv' /\ UNCHANGED <<kind, present>>
          /\ phase' = "read_multi" => phase = "read_multi"
      BY Tried DEF Inv
    <2>2. pc = "acmd41"
      BY <1>3 DEF WaitSd2
    <2>3. QED
      BY <2>1, <2>2, ContinueInv
  <1>4. CASE ReadOcr
    <2> PICK res \in Answers \cup {"timeout"} :
          /\ Try("CMD58", 0, res)
          /\ Initialized(IF res = "ok" THEN Capacity ELSE {})
      BY <1>4 DEF ReadOcr
    <2>1. /\ CardInv' /\ UNCHANGED <<kind, present>>
          /\ phase' = "read_multi" => phase = "read_multi"
      BY Tried DEF Inv
    <2>2. pc = "cmd58" /\ ("BLOCK" \in Capacity <=> kind = "sdhc")
      BY <1>4 DEF ReadOcr, Capacity
    <2>3. QED
      BY <2>1, <2>2, InitializedInv
  <1>5. CASE Probe
    <2> PICK res \in Answers \cup {"timeout"} :
          /\ Try("ACMD41", 0, res)
          /\ Continue(IF res \in {"ok", "idle"} THEN "wait_sd1" ELSE "wait_mmc")
      BY <1>5 DEF Probe
    <2>1. pc = "probe" /\ (kind = "sdhc" => phase = "idle")
      BY <1>5 DEF Probe, Inv, AddressInv
    <2>2. /\ CardInv' /\ UNCHANGED <<kind, present>>
          /\ phase' = "read_multi" => phase = "read_multi"
          /\ kind = "sdhc" => phase' = "idle"
      BY <2>1, Tried DEF Inv, HCS
    <2>3. QED
      BY <2>1, <2>2, ContinueInv
  <1>6. CASE WaitOld
    <2> DEFINE at(res) == IF res \notin {"ok", "timeout"} THEN pc
                          ELSE IF pc = "wait_sd1" THEN "cmd16_sd1" ELSE "cmd16_mmc"
    <2> PICK res \in Answers \cup {"timeout"} :
          /\ Try(IF pc = "wait_sd1" THEN "ACMD41" ELSE "CMD1", 0, res)
          /\ Continue(at(res))
      BY <1>6 DEF WaitOld
    <2>1. pc \in {"wait_sd1", "wait_mmc"} /\ (kind = "sdhc" => phase = "idle")
      BY <1>6 DEF WaitOld, Inv, AddressInv
    <2>2. /\ CardInv' /\ UNCHANGED <<kind, present>>
          /\ phase' = "read_multi" => phase = "read_multi"
          /\ kind = "sdhc" => phase' = "idle"
      BY <2>1, Tried DEF Inv, HCS
    <2>3. at(res) \in Probing
      BY <2>1
    <2>4. QED
      BY <2>1, <2>2, <2>3, ContinueInv
  <1>7. CASE SetBlockLen
    <2>1. pc \in {"cmd16_sd1", "cmd16_mmc"} /\ (kind = "sdhc" => phase = "idle")
      BY <1>7 DEF SetBlockLen, Inv, AddressInv
    <2>2. CASE timeout # 0
      <3>1. UNCHANGED card /\ Initialized({})
        BY <1>7, <2>2 DEF SetBlockLen
      <3>2. CardInv'
        BY <3>1 DEF Inv, CardInv, card, Sector
      <3>3. UNCHANGED <<kind, present, phase>>
        BY <3>1 DEF card
      <3>4. QED
        BY <2>1, <3>1, <3>2, <3>3, InitializedInv
    <2>3. CASE timeout = 0
      <3> DEFINE ty(res) == IF res # "ok" THEN {}
                            ELSE IF pc = "cmd16_sd1" THEN {"SD1"} ELSE {"MMC"}
      <3> PICK res \in Answers : SendCmd("CMD16", 0, res) /\ Initialized(ty(res))
        BY <1>7, <2>3 DEF SetBlockLen
      <3>1. /\ CardInv' /\ UNCHANGED <<kind, present>>
            /\ phase' = "read_multi" => phase = "read_multi"
            /\ kind = "sdhc" => res # "ok"
        BY <2>1, Sent DEF Inv
      <3>2. ty(res) # {} => ("BLOCK" \in ty(res) <=> kind = "sdhc")
        BY <3>1
      <3>3. QED
        BY <2>1, <3>1, <3>2, InitializedInv
    <2>4. QED
      BY <2>2, <2>3
  <1>8. QED
    BY <1>1, <1>2, <1>3, <1>4, <1>5, <1>6, <1>7 DEF InitializeSteps

-----------------------------------------------------------------------------
(* The driver's steps in disk_read, disk_write and disk_ioctl.             *)

\* What a block the card does not take or send leaves alone.
LEMMA NoBlockInv ==
  ASSUME CardInv, NoBlock
  PROVE  /\ CardInv' /\ UNCHANGED <<kind, present, next, busy, cache, media>>
         /\ phase' = "read_multi" => phase = "read_multi"
  BY DEF NoBlock, CardInv, Phases, Sector

ReadSteps == ReadCommand \/ ReadBlock \/ ReadStop

\* So do those of disk_read,
LEMMA ReadStep ==
  ASSUME Inv, ReadSteps
  PROVE  Inv'
  <1> USE DEF Initializing, Probing, Transferring, Reading, Writing
  <1>1. UNCHANGED <<noinit, CardType, request>>
    BY DEF ReadSteps, ReadCommand, ReadBlock, ReadStop, transferVars
  <1>2. request.fn = "read" /\ ~noinit /\ pc \in Reading
    BY DEF Inv, CallInv, AddressInv, ReadSteps, ReadCommand, ReadBlock, ReadStop
  <1>3. /\ request.sector \in 0 .. Sectors /\ request.count \in Nat
        /\ count \in Nat /\ count = request.count - Len(buf) /\ buf \in Seq(Data)
    BY <1>2 DEF Inv, CallInv
  <1>4. CASE ReadCommand
    <2> DEFINE cmd == IF request.count > 1 THEN "CMD18" ELSE "CMD17"
    <2> PICK res \in Answers :
          /\ SendCmd(cmd, Address(request.sector), res)
          /\ pc' = IF res = "ok" THEN "read_block" ELSE "end"
      BY <1>4 DEF ReadCommand
    <2>1. /\ CardInv' /\ UNCHANGED <<kind, present>>
          /\ phase' = "read_multi" =>
               (cmd = "CMD18" /\ res = "ok") \/ phase = "read_multi"
          /\ res = "ok" => next' = SectorOf(Address(request.sector))
      BY Sent DEF Inv, Commands, Opens
    <2>2. SectorOf(Address(request.sector)) = request.sector
      BY <1>2, <1>3, AddressFound DEF Inv, CardInv
    <2>3. pc = "read" /\ count > 0 /\ buf = << >> /\ UNCHANGED <<count, buf>>
      BY <1>2, <1>4 DEF ReadCommand, Inv, CallInv
    <2>4. AddressInv'
      BY <1>1, <1>2, <2>1, <2>3 DEF Inv, AddressInv
    <2>5. CallInv'
      BY <1>1, <1>2, <1>3, <2>1, <2>2, <2>3 DEF Inv, CallInv
    <2>6. StopInv'
      BY <1>1, <2>1, <2>3 DEF Inv, StopInv
    <2>7. QED
      BY <2>1, <2>4, <2>5, <2>6 DEF Inv
  <1>5. CASE ReadBlock
    <2>1. pc = "read_block" /\ count > 0 /\ next = request.sector + Len(buf)
      BY <1>2, <1>5 DEF ReadBlock, Inv, CallInv
    <2>2. CASE Send /\ buf' = Append(buf, Stored(next)) /\ count' = count - 1
               /\ pc' = IF count' > 0 THEN "read_block" ELSE AfterRead
      <3>1. /\ next' = next + 1 /\ next \in Sector
            /\ UNCHANGED <<kind, present, busy, cache, media>>
            /\ phase' = IF phase = "read" THEN "ready" ELSE phase
        BY <2>2 DEF Send
      <3>2. CardInv'
        BY <3>1 DEF Inv, CardInv, Phases, Sector
      <3>3. Stored(next) \in Data
        BY <3>1 DEF Inv, CardInv, Stored
      <3>4. buf' \in Seq(Data) /\ Len(buf') = Len(buf) + 1
        BY <1>3, <2>2, <3>3
      <3>5. pc' \in {"read_block", "read_stop", "end"} /\ (pc' = "read_block" => count' > 0)
        BY <2>2 DEF AfterRead
      <3>6. AddressInv'
        BY <1>1, <1>2, <3>1, <3>5 DEF Inv, AddressInv
      <3>7. CallInv'
        <4>1. /\ count' \in Nat /\ count' = request.count - Len(buf')
              /\ next' = request.sector + Len(buf')
          <5>1. Len(buf) \in Nat /\ request.sector \in Nat
            BY <1>3, SizesAssumption
          <5>2. count' = count - 1 /\ next' = next + 1 /\ Len(buf') = Len(buf) + 1
            BY <2>2, <3>1, <3>4
          <5>3. count' \in Nat
            BY <1>3, <2>1, <5>2
          <5>4. count' = request.count - Len(buf')
            BY <1>3, <5>1, <5>2
          <5>5. next' = request.sector + Len(buf')
            BY <2>1, <5>1, <5>2
          <5>6. QED
            BY <5>3, <5>4, <5>5
        <4>2. QED
          BY <1>1, <1>2, <1>3, <3>4, <3>5, <4>1 DEF Inv, CallInv
      <3>8. StopInv'
        BY <1>1, <2>1, <2>2, <3>1 DEF Inv, StopInv, AfterRead
      <3>9. QED
        BY <3>2, <3>6, <3>7, <3>8 DEF Inv
    <2>3. CASE NoBlock /\ UNCHANGED <<count, buf>> /\ pc' = AfterRead
      <3>1. /\ CardInv' /\ UNCHANGED <<kind, present, next, busy, cache, media>>
            /\ phase' = "read_multi" => phase = "read_multi"
        BY <2>3, NoBlockInv DEF Inv
      <3>2. pc' \in {"read_stop", "end"}
        BY <2>3 DEF AfterRead
      <3>3. AddressInv'
        BY <1>1, <1>2, <3>1, <3>2 DEF Inv, AddressInv
      <3>4. CallInv'
        BY <1>1, <1>2, <1>3, <2>3, <3>2 DEF Inv, CallInv
      <3>5. StopInv'
        BY <1>1, <2>1, <2>3, <3>1 DEF Inv, StopInv, AfterRead
      <3>6. QED
        BY <3>1, <3>3, <3>4, <3>5 DEF Inv
    <2>4. QED
      BY <1>5, <2>2, <2>3 DEF ReadBlock
  <1>6. CASE ReadStop
    <2> PICK res \in Answers : SendCmd("CMD12", 0, res)
      BY <1>6 DEF ReadStop
    <2>1. /\ CardInv' /\ UNCHANGED <<kind, present>>
          /\ present => phase' # "read_multi"
      BY Sent DEF Inv, Commands
    <2>2. pc' = "end" /\ UNCHANGED <<count, buf>>
      BY <1>6 DEF ReadStop
    <2>3. AddressInv'
      BY <1>1, <1>2, <2>1, <2>2 DEF Inv, AddressInv
    <2>4. CallInv'
      BY <1>1, <1>2, <1>3, <2>2 DEF Inv, CallInv
    <2>5. StopInv'
      BY <2>1 DEF StopInv
    <2>6. QED
      BY <2>1, <2>3, <2>4, <2>5 DEF Inv
  <1>7. QED
    BY <1>4, <1>5, <1>6 DEF ReadSteps

WriteSteps == WriteCount \/ WriteCommand \/ WriteBlock \/ LineHigh \/ WriteStop

\* of disk_write,
LEMMA WriteStep ==
  ASSUME Inv, WriteSteps
  PROVE  Inv'
  <1> USE DEF Initializing, Probing, Transferring, Reading, Writing
  <1>1. request.fn = "write" /\ ~noinit /\ pc \in Writing
    BY DEF Inv, CallInv, AddressInv, WriteSteps, WriteCount, WriteCommand, WriteBlock,
           LineHigh, WriteStop
  <1>2. /\ request.sector \in 0 .. Sectors /\ request.data \in Seq(Data)
        /\ count \in 0 .. Len(request.data) /\ buf \in Seq(Data) /\ Len(request.data) \in Nat
    BY <1>1 DEF Inv, CallInv
  <1>3. phase = "read_multi" => ~present
    BY <1>1 DEF Inv, StopInv
  <1>4. CASE WriteCount
    <2> PICK res \in Answers : SendCmd("ACMD23", count, res)
      BY <1>4 DEF WriteCount
    <2>1. /\ CardInv' /\ UNCHANGED <<kind, present>>
          /\ phase' = "read_multi" => phase = "read_multi"
      BY Sent DEF Inv, Commands
    <2>2. /\ UNCHANGED <<noinit, CardType, request, count, buf>>
          /\ pc = "write_count" /\ pc' = "write"
      BY <1>4 DEF WriteCount, transferVars
    <2>3. AddressInv' /\ CallInv' /\ StopInv'
      BY <1>1, <1>2, <1>3, <2>1, <2>2 DEF Inv, AddressInv, CallInv, StopInv
    <2>4. QED
      BY <2>1, <2>3 DEF Inv
  <1>5. CASE WriteCommand
    <2> DEFINE cmd == IF Multiple THEN "CMD25" ELSE "CMD24"
    <2> PICK res \in Answers :
          /\ SendCmd(cmd, Address(request.sector), res)
          /\ pc' = IF res = "ok" THEN "write_block" ELSE "end"
      BY <1>5 DEF WriteCommand
    <2>1. /\ CardInv' /\ UNCHANGED <<kind, present>>
          /\ phase' = "read_multi" => phase = "read_multi"
          /\ res = "ok" => next' = SectorOf(Address(request.sector))
      BY Sent DEF Inv, Commands, Opens
    <2>2. SectorOf(Address(request.sector)) = request.sector
      BY <1>1, <1>2, AddressFound DEF Inv, CardInv
    <2>3. /\ UNCHANGED <<noinit, CardType, request, count, buf>>
          /\ pc = "write" /\ count > 0 /\ count = Len(request.data)
      BY <1>1, <1>5 DEF WriteCommand, transferVars, Inv, CallInv
    <2>4. AddressInv' /\ StopInv'
      BY <1>1, <1>3, <2>1, <2>3 DEF Inv, AddressInv, StopInv
    <2>5. CallInv'
      BY <1>1, <1>2, <2>1, <2>2, <2>3 DEF Inv, CallInv
    <2>6. QED
      BY <2>1, <2>4, <2>5 DEF Inv
  <1>6. CASE pc \in {"write_block", "crc"} /\ BlockAnswered
    <2>1. /\ UNCHANGED <<noinit, CardType, request, buf>>
          /\ count > 0
          /\ next = request.sector + (Len(request.data) - count)
      BY <1>1, <1>6 DEF BlockAnswered, transferVars, Inv, CallInv
    <2>2. CASE /\ Accept(request.data[Len(request.data) - count + 1])
               /\ count' = count - 1
               /\ pc' = IF count' > 0 THEN "write_block"
                        ELSE IF Multiple THEN "write_stop" ELSE "end"
      <3> DEFINE block == request.data[Len(request.data) - count + 1]
      <3>1. /\ next' = next + 1 /\ next \in Sector
            /\ UNCHANGED <<kind, present, media>>
            /\ phase' \in {"ready", "write_multi"}
            /\ busy' = TRUE /\ cache' = [x \in {next} |-> block]
        BY <2>2 DEF Accept
      <3>2. block \in Data
        BY <1>2, <2>1
      <3>3. cache' \in [{next} -> Data] /\ DOMAIN cache' = {next}
        BY <3>1, <3>2
      <3>4. CardInv'
        BY <3>1, <3>3 DEF Inv, CardInv, Phases, Sector
      <3>5. pc' \in {"write_block", "write_stop", "end"} /\ (pc' = "write_block" => count' > 0)
        BY <2>2
      <3>6. AddressInv' /\ StopInv'
        BY <1>1, <2>1, <3>1, <3>5 DEF Inv, AddressInv, StopInv
      <3>7. CallInv'
        BY <1>1, <1>2, <2>1, <2>2, <3>1, <3>5 DEF Inv, CallInv
      <3>8. QED
        BY <3>4, <3>6, <3>7 DEF Inv
    <2>3. CASE /\ NoBlock
               /\ UNCHANGED count
               /\ pc' = IF Multiple THEN "write_stop" ELSE "end"
      <3>1. /\ CardInv' /\ UNCHANGED <<kind, present, next, busy, cache, media>>
            /\ phase' = "read_multi" => phase = "read_multi"
        BY <2>3, NoBlockInv DEF Inv
      <3>2. pc' \in {"write_stop", "end"}
        BY <2>3
      <3>3. AddressInv' /\ CallInv' /\ StopInv'
        BY <1>1, <1>2, <1>3, <2>1, <2>3, <3>1, <3>2 DEF Inv, AddressInv, CallInv, StopInv
      <3>4. QED
        BY <3>1, <3>3 DEF Inv
    <2>4. QED
      BY <1>6, <2>2, <2>3 DEF BlockAnswered
  <1>7. CASE pc = "write_block" /\ HoldLine
    <2>1. CardInv'
      BY <1>7 DEF HoldLine, Inv, CardInv, card, Sector
    <2>2. AddressInv' /\ StopInv'
      BY <1>1, <1>3, <1>7 DEF HoldLine, Inv, AddressInv, StopInv, card, transferVars
    <2>3. CallInv'
      BY <1>1, <1>2, <1>7 DEF HoldLine, Inv, CallInv, card, transferVars
    <2>4. QED
      BY <2>1, <2>2, <2>3 DEF Inv
  <1>8. CASE WriteStop
    <2>1. pc = "write_stop" /\ UNCHANGED <<kind, present, noinit, CardType, buf>>
      BY <1>8 DEF WriteStop, card, transferVars
    <2>2. CASE /\ ~busy
               /\ IF present THEN phase' = "ready" /\ busy' = TRUE
                  ELSE UNCHANGED <<phase, busy>>
               /\ pc' = "end"
               /\ UNCHANGED <<kind, present, next, cache, media, transferVars, count, buf>>
      <3>1. CardInv'
        BY <2>2 DEF Inv, CardInv, Phases, Sector
      <3>2. AddressInv' /\ CallInv' /\ StopInv'
        BY <1>1, <1>2, <1>3, <2>1, <2>2 DEF Inv, AddressInv, CallInv, StopInv, transferVars
      <3>3. QED
        BY <3>1, <3>2 DEF Inv
    <2>3. CASE Return("ERROR") /\ UNCHANGED card
      <3>1. CardInv'
        BY <2>3 DEF Inv, CardInv, card, Sector
      <3>2. AddressInv' /\ CallInv' /\ StopInv'
        BY <1>1, <1>2, <1>3, <2>1, <2>3
           DEF Inv, AddressInv, CallInv, StopInv, card, Return, NoRequest
      <3>3. QED
        BY <3>1, <3>2 DEF Inv
    <2>4. QED
      BY <1>8, <2>2, <2>3 DEF WriteStop
  <1>9. QED
    BY <1>4, <1>5, <1>6, <1>7, <1>8 DEF WriteSteps, WriteBlock, LineHigh

IoctlSteps == Sync \/ RegisterCommand \/ RegisterBlock \/ End

\* and of disk_ioctl, and the end of a call.
LEMMA IoctlStep ==
  ASSUME Inv, IoctlSteps
  PROVE  Inv'
  <1> USE DEF Initializing, Probing, Transferring, Reading, Writing
  <1>1. phase = "read_multi" => ~present
    BY DEF Inv, StopInv, IoctlSteps, Sync, RegisterCommand, RegisterBlock, End
  <1>2. CASE Sync
    <2>1. CardInv' /\ UNCHANGED <<kind, present, phase, cache>>
      BY <1>2 DEF Sync, Inv, CardInv, card, Sector
    <2>2. pc = "sync" /\ pc' = "end" /\ UNCHANGED <<noinit, CardType, request, buf>>
      BY <1>2 DEF Sync, transferVars
    <2>3. count = 1 /\ ((count' = 0 /\ cache = Nothing) \/ count' = 1) /\ request.fn = "sync"
      BY <1>2 DEF Sync, Inv, CardInv, CallInv
    <2>4. AddressInv' /\ StopInv'
      BY <1>1, <2>1, <2>2 DEF Inv, AddressInv, StopInv
    <2>5. CallInv'
      BY <2>1, <2>2, <2>3 DEF Inv, CallInv
    <2>6. QED
      BY <2>1, <2>4, <2>5 DEF Inv
  <1>3. CASE RegisterCommand
    <2> PICK res \in Answers :
          SendCmd("CMD9", 0, res) /\ pc' = IF res = "ok" THEN "register_block" ELSE "end"
      BY <1>3 DEF RegisterCommand
    <2>1. /\ CardInv' /\ UNCHANGED <<kind, present>>
          /\ phase' = "read_multi" => phase = "read_multi"
      BY Sent DEF Inv, Commands
    <2>2. pc = "register" /\ UNCHANGED <<noinit, CardType, request, count, buf>>
      BY <1>3 DEF RegisterCommand, transferVars
    <2>3. AddressInv' /\ CallInv' /\ StopInv'
      BY <1>1, <2>1, <2>2 DEF Inv, AddressInv, CallInv, StopInv
    <2>4. QED
      BY <2>1, <2>3 DEF Inv
  <1>4. CASE RegisterBlock
    <2>1. /\ pc = "register_block" /\ pc' = "end"
          /\ UNCHANGED <<noinit, CardType, request, buf>>
      BY <1>4 DEF RegisterBlock, transferVars
    <2>2. /\ CardInv' /\ UNCHANGED <<kind, present>>
          /\ phase' = "read_multi" => phase = "read_multi"
      BY <1>4, NoBlockInv DEF RegisterBlock, Inv, CardInv, Phases, Sector
    <2>3. request.fn = "control"
      BY <2>1 DEF Inv, CallInv
    <2>4. AddressInv' /\ CallInv' /\ StopInv'
      BY <1>1, <2>1, <2>2, <2>3 DEF Inv, AddressInv, CallInv, StopInv
    <2>5. QED
      BY <2>2, <2>4 DEF Inv
  <1>5. CASE End
    <2>1. CardInv'
      BY <1>5 DEF End, Inv, CardInv, card, Sector
    <2>2. AddressInv' /\ CallInv' /\ StopInv'
      BY <1>1, <1>5 DEF End, Return, card, NoRequest, Inv, AddressInv, CallInv, StopInv
    <2>3. QED
      BY <2>1, <2>2 DEF Inv
  <1>6. QED
    BY <1>2, <1>3, <1>4, <1>5 DEF IoctlSteps

\* Every step keeps it.
LEMMA StepInv ==
  ASSUME Inv, [Next]_vars
  PROVE  Inv'
  <1>1. CASE Next
    BY <1>1, CardStep, CallerStep, InitializeStep, ReadStep, WriteStep, IoctlStep
       DEF Next, Driver, CardGone, InitializeSteps, ReadSteps, WriteSteps, IoctlSteps
  <1>2. CASE UNCHANGED vars
    BY <1>2 DEF Inv, CardInv, AddressInv, CallInv, StopInv, vars, card, driver, Sector
  <1>3. QED
    BY <1>1, <1>2

\* The invariant (driver/diskio.c).
THEOREM SdInvariant == Spec => []Inv
  <1>1. Inv /\ [Next]_vars => Inv'
    BY StepInv
  <1>2. QED
    BY <1>1, InitInv, PTL DEF Spec

\* A read of several blocks is stopped before disk_read returns, whatever the card
\* did meanwhile (disk_read).
THEOREM ReadsAlwaysStopped == Spec => []ReadsStopped
  <1>1. Inv => ReadsStopped
    BY DEF Inv, StopInv, ReadsStopped
  <1>2. QED
    BY <1>1, SdInvariant, PTL

-----------------------------------------------------------------------------
(* The driver implements the block device.                                 *)

\* A call that begins.
LEMMA Starts ==
  ASSUME request = NoRequest, NEW req, NEW at, NEW n, Called(req, at, n),
         UNCHANGED <<media, cache, present, reply>>,
         \/ req \in {[fn |-> "control"], [fn |-> "sync"]}
         \/ req \in [fn : {"read"}, sector : Nat, count : Nat]
         \/ req \in [fn : {"write"}, sector : Nat, data : Seq(Data)] /\ n = Len(req.data)
  PROVE  Device!Start
  <1>1. request' = req /\ count' = n /\ buf' = << >>
    BY DEF Called
  <1>2. Transferred' = 0
    BY <1>1 DEF Transferred
  <1>3. QED
    BY <1>1, <1>2 DEF Device!Start, Device!NoRequest, NoRequest

\* A call that ends.
LEMMA Returns ==
  ASSUME request # NoRequest, NEW res \in {"OK", "ERROR"}, Return(res),
         res = "OK" => Device!Complete, UNCHANGED <<media, cache, present, buf>>
  PROVE  Device!Return
  <1>1. request' = NoRequest /\ reply' = res
    BY DEF Return
  <1>2. Transferred' = 0
    BY <1>1 DEF Transferred, NoRequest
  <1>3. QED
    BY <1>1, <1>2 DEF Device!Return, Device!NoRequest, NoRequest

\* A step that is the driver's own business.
LEMMA Stutters ==
  ASSUME UNCHANGED <<media, cache, present, request, buf, reply>>,
         request.fn = "write" => count' = count
  PROVE  UNCHANGED Device!bdVars
  BY DEF Transferred, Device!bdVars

\* A call that transfers nothing.
LEMMA AtOnce ==
  ASSUME request = NoRequest, reply' \in {"OK", "ERROR"},
         UNCHANGED <<media, cache, present, request, count, buf>>
  PROVE  Device!AtOnce
  BY DEF Transferred, Device!AtOnce, Device!NoRequest, NoRequest

\* The card stores what it accepted, or is pulled out.
LEMMA CardImplements ==
  ASSUME Store \/ Remove
  PROVE  Device!Next
  <1>1. CASE Store
    <2>1. media' = Device!View
      BY <1>1 DEF Store, Stored, Device!View, Sector, Device!Sector
    <2>2. UNCHANGED <<present, request, Transferred, buf, reply>> /\ cache' = << >>
      BY <1>1 DEF Store, driver, Transferred, Nothing
    <2>3. QED
      BY <2>1, <2>2 DEF Device!Store, Device!Next
  <1>2. CASE Remove
    BY <1>2 DEF Remove, driver, Transferred, Nothing, Device!Remove, Device!Next
  <1>3. QED
    BY <1>1, <1>2

\* Every call begins, or is over at once.
LEMMA CallerImplements ==
  ASSUME Inv, Caller
  PROVE  Device!Next
  <1>1. request = NoRequest
    BY DEF Inv, CallInv, Caller, Initialize, StartRead, StartWrite, StartIoctl, PowerOff
  <1>2. CASE Refused
    BY <1>1, <1>2, AtOnce DEF Refused, card, Device!Next
  <1>3. CASE PowerOff
    BY <1>1, <1>3, AtOnce DEF PowerOff, card, Device!Next
  <1>4. CASE Initialize
    BY <1>1, <1>4, Starts DEF Initialize, card, Device!Next
  <1>5. CASE StartIoctl /\ ~Refused
    BY <1>1, <1>5, Starts DEF StartIoctl, card, Device!Next
  <1>6. CASE StartRead /\ ~Refused
    <2> PICK sector \in 0 .. Sectors, n \in 0 .. MaxCount :
          /\ Called([fn |-> "read", sector |-> sector, count |-> n], "read", n)
          /\ UNCHANGED <<card, powered, noinit, CardType, timeout, reply>>
      BY <1>6 DEF StartRead
    <2>1. [fn |-> "read", sector |-> sector, count |-> n]
            \in [fn : {"read"}, sector : Nat, count : Nat]
      BY SizesAssumption
    <2>2. UNCHANGED <<media, cache, present, reply>>
      BY DEF card
    <2>3. QED
      BY <1>1, <2>1, <2>2, Starts DEF Device!Next
  <1>7. CASE StartWrite /\ ~Refused
    <2> PICK sector \in 0 .. Sectors, n \in 0 .. MaxCount : \E data \in [1 .. n -> Data] :
          /\ Called([fn |-> "write", sector |-> sector, data |-> data],
                    IF n > 1 /\ CardType \cap {"SD1", "SD2"} # {} THEN "write_count"
                    ELSE "write", n)
          /\ UNCHANGED <<card, powered, noinit, CardType, timeout, reply>>
      BY <1>7 DEF StartWrite
    <2> PICK data \in [1 .. n -> Data] :
          /\ Called([fn |-> "write", sector |-> sector, data |-> data],
                    IF n > 1 /\ CardType \cap {"SD1", "SD2"} # {} THEN "write_count"
                    ELSE "write", n)
          /\ UNCHANGED <<card, powered, noinit, CardType, timeout, reply>>
      OBVIOUS
    <2>1. data \in Seq(Data) /\ Len(data) = n /\ sector \in Nat
      BY SizesAssumption
    <2>2. [fn |-> "write", sector |-> sector, data |-> data]
            \in [fn : {"write"}, sector : Nat, data : Seq(Data)]
      BY <2>1
    <2>3. UNCHANGED <<media, cache, present, reply>>
      BY DEF card
    <2>4. QED
      BY <1>1, <2>1, <2>2, <2>3, Starts DEF Device!Next
  <1>8. QED
    BY <1>2, <1>3, <1>4, <1>5, <1>6, <1>7 DEF Caller

\* disk_initialize transfers nothing.
LEMMA InitializeImplements ==
  ASSUME Inv, InitializeSteps
  PROVE  Device!Next \/ UNCHANGED Device!bdVars
  <1>1. request # NoRequest /\ request.fn = "control"
    BY DEF Inv, CallInv, InitializeSteps, GoIdle, SendIfCond, WaitSd2, ReadOcr, Probe, WaitOld,
           SetBlockLen, Initializing, Probing
  <1>2. UNCHANGED <<media, cache, present>>
    BY DEF InitializeSteps, GoIdle, SendIfCond, WaitSd2, ReadOcr, Probe, WaitOld, SetBlockLen,
           Try, SendCmd, card
  <1>3. (\E at : Continue(at)) \/ (\E ty : Initialized(ty))
    BY DEF InitializeSteps, GoIdle, SendIfCond, WaitSd2, ReadOcr, Probe, WaitOld, SetBlockLen
  <1>4. CASE \E at : Continue(at)
    BY <1>1, <1>2, <1>4, Stutters DEF Continue
  <1>5. CASE \E ty : Initialized(ty)
    <2>1. buf' = buf /\ \E res \in {"OK", "ERROR"} : Return(res)
      BY <1>5 DEF Initialized
    <2>2. Device!Complete
      BY <1>1 DEF Device!Complete
    <2>3. QED
      BY <1>1, <1>2, <2>1, <2>2, Returns DEF Device!Next
  <1>6. QED
    BY <1>3, <1>4, <1>5

\* disk_read reads the next block as the device has it, or none.
LEMMA ReadImplements ==
  ASSUME Inv, ReadSteps
  PROVE  Device!Next \/ UNCHANGED Device!bdVars
  <1>1. UNCHANGED <<request, reply>>
    BY DEF ReadSteps, ReadCommand, ReadBlock, ReadStop, transferVars
  <1>2. request.fn = "read"
    BY DEF Inv, CallInv, ReadSteps, ReadCommand, ReadBlock, ReadStop, Reading
  <1>3. CASE ReadCommand \/ ReadStop
    BY <1>1, <1>2, <1>3, Stutters DEF ReadCommand, ReadStop, SendCmd
  <1>4. CASE NoBlock /\ UNCHANGED <<count, buf>>
    BY <1>1, <1>2, <1>4, Stutters DEF NoBlock
  <1>5. CASE pc = "read_block" /\ Send /\ buf' = Append(buf, Stored(next))
    <2>1. /\ count > 0 /\ count = request.count - Len(buf) /\ buf \in Seq(Data)
          /\ next = request.sector + Len(buf) /\ request.count \in Nat /\ count \in Nat
      BY <1>2, <1>5 DEF Inv, CallInv
    <2>2. present /\ next \in Sector /\ UNCHANGED <<media, cache, present>>
      BY <1>5 DEF Send
    <2>3. Stored(next) \in Data
      BY <2>2 DEF Inv, CardInv, Stored
    <2>4. Len(buf') = Len(buf) + 1 /\ Len(buf) \in Nat
      BY <1>5, <2>1, <2>3
    <2>5. Transferred = Len(buf) /\ Transferred' = Transferred + 1
      BY <1>1, <1>2, <2>4 DEF Transferred
    <2>6. Transferred < request.count
      BY <2>1, <2>4, <2>5
    <2>7. next = request.sector + Transferred /\ next \in Device!Sector
      BY <2>1, <2>2, <2>5 DEF Sector, Device!Sector
    <2>8. buf' = Append(buf, Device!View[request.sector + Transferred])
      BY <1>5, <2>7 DEF Stored, Device!View
    <2>9. QED
      BY <1>1, <1>2, <2>2, <2>5, <2>6, <2>7, <2>8 DEF Device!ReadBlock, Device!Next
  <1>6. QED
    BY <1>3, <1>4, <1>5 DEF ReadSteps, ReadBlock

\* disk_write puts the next block in the cache, which is empty, or none.
LEMMA WriteImplements ==
  ASSUME Inv, WriteSteps
  PROVE  Device!Next \/ UNCHANGED Device!bdVars
  <1>1. request.fn = "write" /\ request # NoRequest
    BY DEF Inv, CallInv, WriteSteps, WriteCount, WriteCommand, WriteBlock, LineHigh, WriteStop,
           Writing
  <1>2. CASE WriteCount \/ WriteCommand
    BY <1>2, Stutters DEF WriteCount, WriteCommand, SendCmd, transferVars
  <1>3. CASE pc \in {"write_block", "crc"} /\ BlockAnswered
    <2>1. UNCHANGED <<request, buf, reply>>
      BY <1>3 DEF BlockAnswered, transferVars
    <2>2. CASE NoBlock /\ UNCHANGED count
      BY <2>1, <2>2, Stutters DEF NoBlock
    <2>3. CASE Accept(request.data[Len(request.data) - count + 1]) /\ count' = count - 1
      <3>1. /\ request.data \in Seq(Data) /\ Len(request.data) \in Nat
            /\ count \in 0 .. Len(request.data) /\ count > 0
            /\ next = request.sector + (Len(request.data) - count)
        BY <1>1, <1>3 DEF Inv, CallInv
      <3>2. /\ present /\ ~busy /\ next \in Sector /\ UNCHANGED <<media, present>>
            /\ cache' = [x \in {next} |-> request.data[Len(request.data) - count + 1]]
        BY <2>3 DEF Accept
      <3>3. DOMAIN cache = {}
        BY <3>2, NothingCached DEF Inv, CardInv
      <3>4. Transferred = Len(request.data) - count
        BY <1>1 DEF Transferred
      <3>5. Transferred' = Len(request.data) - count'
        BY <1>1, <2>1 DEF Transferred
      <3>6. Transferred' = Transferred + 1 /\ Transferred < Len(request.data)
        BY <2>3, <3>1, <3>4, <3>5
      <3>7. next = request.sector + Transferred /\ next \in Device!Sector
        BY <3>1, <3>2, <3>4 DEF Sector, Device!Sector
      <3>8. cache' = [x \in DOMAIN cache \cup {next} |->
                        IF x = next THEN request.data[Transferred + 1] ELSE cache[x]]
        BY <3>2, <3>3, <3>4
      <3>9. QED
        BY <1>1, <2>1, <3>2, <3>6, <3>7, <3>8 DEF Device!WriteBlock, Device!Next
    <2>4. QED
      BY <1>3, <2>2, <2>3 DEF BlockAnswered
  <1>4. CASE HoldLine
    BY <1>4, Stutters DEF HoldLine, card, transferVars
  <1>5. CASE WriteStop
    <2>1. CASE Return("ERROR")
      BY <1>1, <1>5, <2>1, Returns DEF WriteStop, card, transferVars, Device!Next
    <2>2. CASE ~Return("ERROR")
      BY <1>5, <2>2, Stutters DEF WriteStop, transferVars
    <2>3. QED
      BY <2>1, <2>2
  <1>6. QED
    BY <1>2, <1>3, <1>4, <1>5 DEF WriteSteps, WriteBlock, LineHigh

\* A result of RES_OK stands for what the device promises.
LEMMA IoctlImplements ==
  ASSUME Inv, IoctlSteps
  PROVE  Device!Next \/ UNCHANGED Device!bdVars
  <1>1. CASE Sync
    <2>1. request.fn = "sync"
      BY <1>1 DEF Sync, Inv, CallInv
    <2>2. QED
      BY <1>1, <2>1, Stutters DEF Sync, card, transferVars
  <1>2. CASE RegisterCommand
    BY <1>2, Stutters DEF RegisterCommand, SendCmd, transferVars
  <1>3. CASE RegisterBlock
    <2>1. request.fn = "control"
      BY <1>3 DEF RegisterBlock, Inv, CallInv
    <2>2. QED
      BY <1>3, <2>1, Stutters DEF RegisterBlock, NoBlock, transferVars
  <1>4. CASE End
    <2>1. /\ Return(IF count = 0 THEN "OK" ELSE "ERROR")
          /\ UNCHANGED <<media, cache, present, buf>>
          /\ pc = "end"
      BY <1>4 DEF End, card
    <2>2. request # NoRequest
      BY <2>1 DEF Inv, CallInv
    <2>3. ASSUME count = 0 PROVE Device!Complete
      <3>1. request.fn = "read" => Transferred = request.count
        BY <2>3 DEF Inv, CallInv, Transferred
      <3>2. request.fn = "write" => Transferred = Len(request.data)
        BY <2>3 DEF Inv, CallInv, Transferred
      <3>3. request.fn = "sync" => cache = << >>
        BY <2>1, <2>3 DEF Inv, CallInv, Nothing
      <3>4. QED
        BY <3>1, <3>2, <3>3 DEF Device!Complete
    <2>4. QED
      BY <2>1, <2>2, <2>3, Returns DEF Device!Next
  <1>5. QED
    BY <1>1, <1>2, <1>3, <1>4 DEF IoctlSteps

\* Every step of the driver is a step of the device or none.
LEMMA StepImplements ==
  ASSUME Inv, [Next]_vars
  PROVE  Device!Next \/ UNCHANGED Device!bdVars
  <1>1. CASE Next
    BY <1>1, CardImplements, CallerImplements, InitializeImplements, ReadImplements,
       WriteImplements, IoctlImplements
       DEF Next, Driver, CardGone, InitializeSteps, ReadSteps, WriteSteps, IoctlSteps
  <1>2. CASE UNCHANGED vars
    BY <1>2, Stutters DEF vars, card, driver
  <1>3. QED
    BY <1>1, <1>2

\* The driver implements the block device with a volatile cache: blocks are read and
\* written in order from the first, a call that returns RES_OK has transferred all of
\* them, and a sync that does has left nothing in the card's cache (disk_read,
\* disk_write, disk_ioctl).
THEOREM DriverImplementsDevice == Spec => ImplementsBlockDevice
  <1>1. Init => Device!Init
    BY DEF Init, Device!Init, Transferred, NoRequest, Device!NoRequest, Nothing, Sector,
           Device!Sector
  <1>2. Inv /\ [Next]_vars => [Device!Next]_(Device!bdVars)
    BY StepImplements
  <1>3. QED
    BY <1>1, <1>2, SdInvariant, PTL DEF Spec, ImplementsBlockDevice, Device!Spec
=============================================================================
