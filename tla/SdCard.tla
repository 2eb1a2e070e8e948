------------------------------- MODULE SdCard -------------------------------
(***************************************************************************)
(* The SD card driver over SPI (driver/diskio.c, driver/spi.c) and the     *)
(* card it talks to.  An action is one exchange with the card: a command   *)
(* and its answer (send_cmd), a data block, or a wait for ready.  Nothing  *)
(* else runs in the driver; the card runs beside it: it takes its time to  *)
(* initialise and to store a block, refuses commands and blocks, misses    *)
(* the driver's timeouts, and may be pulled out.                           *)
(***************************************************************************)
EXTENDS Integers, Sequences

CONSTANTS
  Kinds,     \* the cards that may be in the socket
  Sectors,   \* the capacity of the card, in blocks
  Data,      \* contents of a block
  MaxCount,  \* blocks in one call, at most
  BlockLen,  \* bytes in a block (512)
  Word,      \* 2^32, the range of a command's argument
  Tries,     \* the initialisation timeout (1000*1000 commands)
  Faulty     \* whether the card may refuse a command or a block and time out

ASSUME SizesAssumption ==
  /\ Sectors \in Nat \ {0} /\ BlockLen \in Nat \ {0} /\ Word \in Nat \ {0}
  /\ Tries \in Nat \ {0} /\ MaxCount \in Nat \ {0}
  /\ Sectors < Word
ASSUME FlagsAssumption == Faulty \in BOOLEAN
ASSUME KindsAssumption == Kinds \subseteq {"mmc", "sd1", "sd2", "sdhc"}
\* Only a card of high capacity has more bytes than an argument can count.
ASSUME BytesAssumption == Kinds # {"sdhc"} => (Sectors + 1) * BlockLen <= Word

Sector == 0 .. Sectors - 1
NoRequest == [fn |-> "none"]
Nothing == << >>

VARIABLES
  \* the card
  kind, present,
  phase,    \* idle, ready, or the transfer that is open
  next,     \* the next block of that transfer
  busy,     \* holds the data line low: storing
  cache,    \* the block being stored, as a function on its sector
  media,    \* what is stored
  \* the driver
  powered,  \* the SPI controller is enabled
  noinit,   \* Stat & STA_NOINIT
  CardType, \* the set of its flags
  pc,       \* the next exchange
  request,  \* the call
  count,    \* the function's variable of that name
  timeout,  \* the variable of disk_initialize
  buf,      \* the blocks received
  reply     \* the last result

card == <<kind, present, phase, next, busy, cache, media>>
driver == <<powered, noinit, CardType, pc, request, count, timeout, buf, reply>>
vars == <<card, driver>>

Init ==
  /\ kind \in Kinds /\ present = TRUE /\ phase = "idle" /\ next = 0
  /\ busy = FALSE /\ cache = Nothing /\ media \in [Sector -> Data]
  /\ powered = FALSE /\ noinit = TRUE /\ CardType = {}
  /\ pc = "rest" /\ request = NoRequest /\ count = 0 /\ timeout = 0
  /\ buf = << >> /\ reply = "OK"

-----------------------------------------------------------------------------
(* The card.                                                               *)

\* What the card sends for a sector, and where it looks for an argument.
Stored(s) == IF s \in DOMAIN cache THEN cache[s] ELSE media[s]
SectorOf(arg) == IF kind = "sdhc" THEN arg ELSE arg \div BlockLen

\* It ends the programming of a block.
Store ==
  /\ busy
  /\ busy' = FALSE
  /\ media' = [s \in Sector |-> Stored(s)]
  /\ cache' = Nothing
  /\ UNCHANGED <<kind, present, phase, next, driver>>

Remove ==
  /\ present
  /\ Faulty
  /\ present' = FALSE /\ busy' = FALSE /\ cache' = Nothing
  /\ UNCHANGED <<kind, phase, next, media, driver>>

Opens == [CMD17 |-> "read", CMD18 |-> "read_multi",
          CMD24 |-> "write", CMD25 |-> "write_multi"]


Understood(cmd, arg) ==
  \/ cmd = "CMD0"
  \/ cmd = "CMD8" /\ phase = "idle" /\ kind \in {"sd2", "sdhc"}
  \/ cmd = "ACMD41" /\ phase \in {"idle", "ready"} /\ kind # "mmc"
  \/ cmd \in {"CMD1", "CMD58"} /\ phase \in {"idle", "ready"}
  \/ cmd \in {"CMD16", "ACMD23", "CMD9"} /\ phase = "ready"
  \/ cmd \in DOMAIN Opens /\ phase = "ready" /\ SectorOf(arg) \in Sector
  \/ cmd = "CMD12" /\ phase = "read_multi"

\* A card of high capacity leaves the idle state only for a host that says
\* it supports it (bit 30 of ACMD41).
HCS == 1
PhasesAfter(cmd, arg) ==
  CASE cmd = "CMD0" -> {"idle"}
    [] cmd \in {"ACMD41", "CMD1"} ->
         IF kind = "sdhc" /\ arg # HCS THEN {phase} ELSE {phase, "ready"}
    [] cmd \in DOMAIN Opens -> {Opens[cmd]}
    [] cmd = "CMD9" -> {"register"}
    [] cmd = "CMD12" -> {"ready"}
    [] OTHER -> {phase}

Obey(cmd, arg, res) ==
  /\ Understood(cmd, arg)
  /\ phase' \in PhasesAfter(cmd, arg)
  /\ res = IF phase' = "idle" THEN "idle" ELSE "ok"
  /\ next' = IF cmd \in DOMAIN Opens THEN SectorOf(arg) ELSE next

\* The block it is to store next, accepted; it is busy until it has stored it.
Accept(block) ==
  /\ present /\ ~busy
  /\ phase \in {"write", "write_multi"} /\ next \in Sector
  /\ busy' = TRUE
  /\ cache' = [s \in {next} |-> block]
  /\ next' = next + 1
  /\ phase' = IF phase = "write" THEN "ready" ELSE phase
  /\ UNCHANGED <<kind, present, media>>

\* The block it is to send next.
Send ==
  /\ present
  /\ phase \in {"read", "read_multi"} /\ next \in Sector
  /\ next' = next + 1
  /\ phase' = IF phase = "read" THEN "ready" ELSE phase
  /\ UNCHANGED <<kind, present, busy, cache, media>>

\* It is silent, or refuses the block, which ends a single block's transfer.
NoBlock ==
  /\ Faulty \/ ~present \/ next \notin Sector
  /\ phase' \in {phase, IF phase \in {"read", "write", "register"} THEN "ready" ELSE phase}
  /\ UNCHANGED <<kind, present, next, busy, cache, media>>

-----------------------------------------------------------------------------
(* The driver.                                                             *)

Answers == {"ok", "idle", "refused", "none"}

\* send_cmd and its R1 answer.  The card must become ready first, except to
\* stop a read; with the controller off the byte never leaves its FIFO.
\* Of the card two things are assumed: a faulty one may ignore any command but
\* CMD12, whose result the driver does not look at (diskio.c:401), and a
\* command without an answer, or refused, has not been obeyed.
SendCmd(cmd, arg, res) ==
  /\ powered
  /\ \/ present /\ (~busy \/ cmd = "CMD12") /\ Obey(cmd, arg, res)
     \/ /\ present /\ (~busy \/ cmd = "CMD12")
        /\ ~Understood(cmd, arg) \/ (Faulty /\ cmd # "CMD12")
        /\ res \in {"refused", "none"}
        /\ UNCHANGED <<phase, next>>
     \/ /\ ~present \/ (busy /\ Faulty /\ cmd # "CMD12")
        /\ res = "none"
        /\ UNCHANGED <<phase, next>>
  /\ UNCHANGED <<kind, present, busy, cache, media>>

\* A call that returns at once.
Refused ==
  /\ reply' = "ERROR"
  /\ UNCHANGED <<card, powered, noinit, CardType, pc, request, count, timeout, buf>>

Called(req, at, n) ==
  /\ request' = req
  /\ pc' = at
  /\ count' = n
  /\ buf' = << >>

Return(res) ==
  /\ reply' = res
  /\ request' = NoRequest
  /\ pc' = "rest"
  /\ count' = 0
  /\ timeout' = 0

\* deselect, and the result of a transfer.
End ==
  /\ pc = "end"
  /\ Return(IF count = 0 THEN "OK" ELSE "ERROR")
  /\ UNCHANGED <<card, powered, noinit, CardType, buf>>

(* disk_initialize.                                                        *)

\* Called on a drive that is not initialised: a second call that fails turns
\* the controller off under a Stat that is clear.
Initialize ==
  /\ pc = "rest" /\ noinit
  /\ Called([fn |-> "control"], "cmd0", 0)
  /\ powered' = TRUE
  /\ UNCHANGED <<card, noinit, CardType, timeout, reply>>

\* Its end: the flags found, and nothing done to Stat when there are none.
Initialized(ty) ==
  /\ CardType' = ty
  /\ noinit' = (noinit /\ ty = {})
  /\ powered' = (ty # {})
  /\ Return(IF noinit' THEN "ERROR" ELSE "OK")
  /\ UNCHANGED buf

Continue(at) ==
  /\ pc' = at
  /\ UNCHANGED <<powered, noinit, CardType, request, count, buf, reply>>

Down(t) == (t - 1) % Word

\* "timeout-- && send_cmd(...)", with the answer "timeout" when it is zero.
Try(cmd, arg, res) ==
  IF timeout = 0
  THEN res = "timeout" /\ UNCHANGED card
  ELSE SendCmd(cmd, arg, res)

GoIdle ==
  /\ pc = "cmd0"
  /\ \E res \in Answers :
       /\ SendCmd("CMD0", 0, res)
       /\ IF res = "idle"
          THEN Continue("cmd8") /\ timeout' = Tries
          ELSE Initialized({})

\* The card echoes the check pattern unless its voltage is wrong.
SendIfCond ==
  /\ pc = "cmd8"
  /\ \E res \in Answers \cup {"timeout"} :
       /\ Try("CMD8", 0, res)
       /\ \/ res = "idle" /\ Continue("acmd41") /\ timeout' = Down(timeout)
          \/ res = "idle" /\ Faulty /\ Initialized({})
          \/ res # "idle" /\ Continue("probe") /\ timeout' = Down(timeout)

\* Mutant: the loop does not count.
WaitSd2Forever ==
  /\ pc = "acmd41"
  /\ \E res \in Answers \cup {"timeout"} :
       /\ Try("ACMD41", HCS, res)
       /\ Continue(IF res \in {"ok", "timeout"} THEN "cmd58" ELSE "acmd41")
  /\ UNCHANGED timeout

WaitSd2 ==
  /\ pc = "acmd41"
  /\ \E res \in Answers \cup {"timeout"} :
       /\ Try("ACMD41", HCS, res)
       /\ Continue(IF res \in {"ok", "timeout"} THEN "cmd58" ELSE "acmd41")
  /\ timeout' = Down(timeout)

Capacity == IF kind = "sdhc" THEN {"SD2", "BLOCK"} ELSE {"SD2"}

ReadOcr ==
  /\ pc = "cmd58"
  /\ \E res \in Answers \cup {"timeout"} :
       /\ Try("CMD58", 0, res)
       /\ Initialized(IF res = "ok" THEN Capacity ELSE {})

Probe ==
  /\ pc = "probe"
  /\ \E res \in Answers \cup {"timeout"} :
       /\ Try("ACMD41", 0, res)
       /\ Continue(IF res \in {"ok", "idle"} THEN "wait_sd1" ELSE "wait_mmc")
  /\ timeout' = Down(timeout)

WaitOld ==
  /\ pc \in {"wait_sd1", "wait_mmc"}
  /\ \E res \in Answers \cup {"timeout"} :
       /\ Try(IF pc = "wait_sd1" THEN "ACMD41" ELSE "CMD1", 0, res)
       /\ Continue(IF res \notin {"ok", "timeout"} THEN pc
                   ELSE IF pc = "wait_sd1" THEN "cmd16_sd1" ELSE "cmd16_mmc")
  /\ timeout' = Down(timeout)

\* "timeout-- || send_cmd(CMD16, 512) != 0": with tries left, no command.
SetBlockLen ==
  /\ pc \in {"cmd16_sd1", "cmd16_mmc"}
  /\ IF timeout # 0
     THEN UNCHANGED card /\ Initialized({})
     ELSE \E res \in Answers :
            /\ SendCmd("CMD16", 0, res)
            /\ Initialized(IF res # "ok" THEN {}
                           ELSE IF pc = "cmd16_sd1" THEN {"SD1"} ELSE {"MMC"})

-----------------------------------------------------------------------------
(* disk_read.                                                              *)

transferVars == <<powered, noinit, CardType, request, timeout, reply>>

Address(sector) == IF "BLOCK" \in CardType THEN sector ELSE (sector * BlockLen) % Word

StartRead ==
  /\ pc = "rest"
  /\ \E sector \in 0 .. Sectors, n \in 0 .. MaxCount :
       IF n = 0 \/ noinit
       THEN Refused
       ELSE /\ Called([fn |-> "read", sector |-> sector, count |-> n], "read", n)
            /\ UNCHANGED <<card, powered, noinit, CardType, timeout, reply>>

ReadCommand ==
  /\ pc = "read"
  /\ \E res \in Answers :
       /\ SendCmd(IF request.count > 1 THEN "CMD18" ELSE "CMD17",
                  Address(request.sector), res)
       /\ pc' = IF res = "ok" THEN "read_block" ELSE "end"
  /\ UNCHANGED <<transferVars, count, buf>>

\* Mutant: a read that fails half way is not stopped.
AfterReadIfDone == IF request.count > 1 /\ count' = 0 THEN "read_stop" ELSE "end"
AfterRead == IF request.count > 1 THEN "read_stop" ELSE "end"

ReadBlock ==
  /\ pc = "read_block"
  /\ \/ /\ Send
        /\ buf' = Append(buf, Stored(next))
        /\ count' = count - 1
        /\ pc' = IF count' > 0 THEN "read_block" ELSE AfterRead
     \/ NoBlock /\ UNCHANGED <<count, buf>> /\ pc' = AfterRead
  /\ UNCHANGED transferVars

ReadStop ==
  /\ pc = "read_stop"
  /\ \E res \in Answers : SendCmd("CMD12", 0, res)
  /\ pc' = "end"
  /\ UNCHANGED <<transferVars, count, buf>>

-----------------------------------------------------------------------------
(* disk_write.                                                             *)

Multiple == Len(request.data) > 1

StartWrite ==
  /\ pc = "rest"
  /\ \E sector \in 0 .. Sectors, n \in 0 .. MaxCount : \E data \in [1 .. n -> Data] :
       IF n = 0 \/ noinit
       THEN Refused
       ELSE /\ Called([fn |-> "write", sector |-> sector, data |-> data],
                      IF n > 1 /\ CardType \cap {"SD1", "SD2"} # {} THEN "write_count"
                      ELSE "write", n)
            /\ UNCHANGED <<card, powered, noinit, CardType, timeout, reply>>

WriteCount ==
  /\ pc = "write_count"
  /\ \E res \in Answers : SendCmd("ACMD23", count, res)
  /\ pc' = "write"
  /\ UNCHANGED <<transferVars, count, buf>>

WriteCommand ==
  /\ pc = "write"
  /\ \E res \in Answers :
       /\ SendCmd(IF Multiple THEN "CMD25" ELSE "CMD24", Address(request.sector), res)
       /\ pc' = IF res = "ok" THEN "write_block" ELSE "end"
  /\ UNCHANGED <<transferVars, count, buf>>

\* The data response, after which the driver goes on.
BlockAnswered ==
  /\ \/ /\ Accept(request.data[Len(request.data) - count + 1])
        /\ count' = count - 1
        /\ pc' = IF count' > 0 THEN "write_block"
                 ELSE IF Multiple THEN "write_stop" ELSE "end"
     \/ /\ NoBlock
        /\ UNCHANGED count
        /\ pc' = IF Multiple THEN "write_stop" ELSE "end"
  /\ UNCHANGED <<transferVars, buf>>

\* A faulty card holds the line low while the CRC of the block is clocked.
HoldLine ==
  /\ Faulty /\ present /\ ~busy
  /\ pc' = "crc"
  /\ UNCHANGED <<card, transferVars, count, buf>>

\* xmit_datablock, which does not wait for the block to be stored.
WriteBlock == pc = "write_block" /\ (BlockAnswered \/ HoldLine)

\* "while (xchg_spi(0xFF) == 0x00);": the driver clocks until the line is high,
\* which takes the card to let go of it, or to be gone.
LineHigh == pc = "crc" /\ BlockAnswered
CardGone == LineHigh /\ ~present

\* The stop token; a card that stays busy does not get it.
WriteStop ==
  /\ pc = "write_stop"
  /\ \/ /\ ~busy
        /\ IF present THEN phase' = "ready" /\ busy' = TRUE ELSE UNCHANGED <<phase, busy>>
        /\ pc' = "end"
        /\ UNCHANGED <<kind, present, next, cache, media, transferVars, count, buf>>
     \/ /\ busy /\ Faulty
        /\ Return("ERROR")
        /\ UNCHANGED <<card, powered, noinit, CardType, buf>>

-----------------------------------------------------------------------------
(* disk_ioctl.                                                             *)

StartIoctl ==
  /\ pc = "rest"
  /\ IF noinit
     THEN Refused
     ELSE /\ \/ Called([fn |-> "sync"], "sync", 1)
             \/ Called([fn |-> "control"], "register", 1)
          /\ UNCHANGED <<card, powered, noinit, CardType, timeout, reply>>

\* CTRL_SYNC: the card is selected and becomes ready.
\* Mutant: without the wait.
SyncNoWait ==
  /\ pc = "sync" /\ powered
  /\ count' = 0
  /\ pc' = "end"
  /\ UNCHANGED <<card, transferVars, buf>>

Sync ==
  /\ pc = "sync" /\ powered
  /\ (~busy /\ count' = 0) \/ (busy /\ Faulty /\ UNCHANGED count)
  /\ pc' = "end"
  /\ UNCHANGED <<card, transferVars, buf>>

\* GET_SECTOR_COUNT and the other codes that read a register as a block.
RegisterCommand ==
  /\ pc = "register"
  /\ \E res \in Answers :
       /\ SendCmd("CMD9", 0, res)
       /\ pc' = IF res = "ok" THEN "register_block" ELSE "end"
  /\ UNCHANGED <<transferVars, count, buf>>

RegisterBlock ==
  /\ pc = "register_block"
  /\ \/ /\ present /\ phase' = "ready" /\ count' = 0
        /\ UNCHANGED <<kind, present, next, busy, cache, media>>
     \/ NoBlock /\ UNCHANGED count
  /\ pc' = "end"
  /\ UNCHANGED <<transferVars, buf>>

\* CTRL_POWER_OFF turns the controller off, not the card.
PowerOff ==
  /\ pc = "rest" /\ ~noinit
  /\ powered' = FALSE /\ noinit' = TRUE
  /\ reply' = "OK"
  /\ UNCHANGED <<card, CardType, pc, request, count, timeout, buf>>

-----------------------------------------------------------------------------
Driver ==
  \/ GoIdle \/ SendIfCond \/ WaitSd2 \/ ReadOcr \/ Probe \/ WaitOld \/ SetBlockLen
  \/ ReadCommand \/ ReadBlock \/ ReadStop
  \/ WriteCount \/ WriteCommand \/ WriteBlock \/ CardGone \/ WriteStop
  \/ Sync \/ RegisterCommand \/ RegisterBlock \/ End

Caller == Initialize \/ StartRead \/ StartWrite \/ StartIoctl \/ PowerOff

Next == Driver \/ Caller \/ Store \/ Remove \/ LineHigh

Spec == Init /\ [][Next]_vars

\* The processor runs; the card owes it nothing, not even to let go of the line.
LiveSpec == Spec /\ WF_vars(Driver)

-----------------------------------------------------------------------------
\* A read of several blocks is always stopped before disk_read returns, the
\* ones that fail half way included.  The stop itself is not repeated, so this
\* rests on a card that obeys it (see SendCmd).
ReadsStopped == pc = "rest" /\ present => phase # "read_multi"

\* Every call returns, whatever the card refuses, misses or is pulled out of;
\* all but a disk_write whose card holds the line low for ever while the CRC is
\* clocked, the one wait without a timeout (diskio.c:237).
CallReturns == pc # "rest" ~> (pc = "rest" \/ [](pc = "crc"))

\* The calls implement those of a block device with a volatile cache.
Transferred == IF request.fn = "read" THEN Len(buf)
               ELSE IF request.fn = "write" THEN Len(request.data) - count ELSE 0
Device == INSTANCE BlockDevice WITH done <- Transferred
ImplementsBlockDevice == Device!Spec
=============================================================================
