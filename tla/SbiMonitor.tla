----------------------------- MODULE SbiMonitor -----------------------------
(***************************************************************************)
(* The machine-mode monitor of bbl (bbl/mtrap.c, bbl/mentry.S): the two    *)
(* message queues every hart keeps in its hart-local storage (hls_t), the  *)
(* UART receive interrupt that turns a queued READ into a response, the    *)
(* disk device, and the inter-processor interrupts.  The monitor tells the *)
(* supervisor that something waits for it by one bit only, mip.SSIP, that  *)
(* responses and IPIs share.                                               *)
(*                                                                         *)
(* A hart in machine mode has its own interrupts off, so a handler that    *)
(* touches nothing but its hart's state is one step.  Where a handler      *)
(* touches state another hart or the UART can change between two of its    *)
(* accesses (ipi_pending, mip.MSIP, the receive FIFO) it is cut there, and *)
(* pc[h] says how far hart h has got.                                      *)
(***************************************************************************)
EXTENDS Integers, Sequences, FiniteSets

CONSTANTS
  num_harts,   \* the harts the monitor serves (minit.c:8)
  Msg,         \* the addresses of the supervisor's sbi_device_messages
  NULL,        \* the null pointer
  Consoles,    \* the harts whose supervisor posts UART READs
  Sends,       \* the <<device, command>> pairs the supervisors send
  MaxFiles,    \* entries of the table file_open allocates from (file.c:10)
  FifoDepth,   \* receive FIFO of the UART (external, 16550)
  MaxChars     \* bound on the characters typed

Harts == 0 .. num_harts - 1

Dev == {"bcd", "disk", "none"}            \* device 0, 1 and any other one
Cmd == {"READ", "WRITE", "IDENTIFY", "other"}
MsgPtr == Msg \cup {NULL}

ASSUME HartsAssumption == num_harts \in Nat \ {0} /\ Consoles \subseteq Harts
ASSUME MsgAssumption == IsFiniteSet(Msg)  \* memory is finite
ASSUME NullAssumption == NULL \notin Msg
ASSUME SendsAssumption == Sends \subseteq Dev \X Cmd
ASSUME BoundsAssumption == /\ MaxFiles \in Nat
                           /\ FifoDepth \in Nat \ {0}
                           /\ MaxChars \in Nat


\* What the data word of a message holds: a request's payload, the answer 1,
\* the tag or the echoed character of a completed request, or a received
\* character (0x100 | ch).  Characters are numbered in the order they were
\* typed; 0 is what RBR returns when the FIFO is empty.
REQUEST == -2
ACK == -1
Data == {REQUEST, ACK} \cup (0 .. MaxChars)

\* A message's four words.
Words == [dev : Dev, cmd : Cmd, data : Data, priv : MsgPtr]

\* Where a hart is: S below machine mode; inside a handler; or spinning for
\* ever in die() after a panic, one value for each panic message.
Handling == {"send_ipi", "clear_ipi", "dev_resp", "irq_check", "irq_read"}
Panics == {"panic: no recv buf", "panic: no record", "panic: bad command",
           "panic: disk", "panic: no free file", "panic: bad address"}

VARIABLES
  pc,          \* hart -> where it is
  recipient,   \* hart -> argument of the mcall_send_ipi it is inside, else 0
  req_head,    \* hart -> HLS()->device_request_queue_head
  req_size,    \* hart -> HLS()->device_request_queue_size
  resp_head,   \* hart -> HLS()->device_response_queue_head
  resp_tail,   \* hart -> HLS()->device_response_queue_tail
  ipi_pending, \* hart -> HLS()->ipi_pending
  ssip,        \* hart -> mip.SSIP
  msip,        \* hart -> mip.MSIP
  irq_enabled, \* hart -> CSR 0x7c0
  mem,         \* message -> its four words
  owned,       \* the messages the supervisor holds, neither queued nor answered
  rx,          \* the UART's receive FIFO (external)
  typed,       \* how many characters have been typed
  files,       \* file table entries in use
  ramdisk      \* whether the static pointer ramdisk is set

queueVars == <<req_head, req_size, resp_head, resp_tail, mem, owned>>
ipiVars == <<recipient, ipi_pending, msip>>
uartVars == <<irq_enabled, rx, typed>>
diskVars == <<files, ramdisk>>
vars == <<pc, recipient, req_head, req_size, resp_head, resp_tail, ipi_pending,
          ssip, msip, irq_enabled, mem, owned, rx, typed, files, ramdisk>>

\* A request as the supervisor fills it in.  The words of a message the
\* supervisor holds are its own business: it reads them, and writes all of them
\* before it hands the message over, so here they are blank.
Request(dev, cmd) == [dev |-> dev, cmd |-> cmd, data |-> REQUEST, priv |-> NULL]
Blank == Request("none", "other")

Init ==
  /\ pc = [h \in Harts |-> "S"]
  /\ recipient = [h \in Harts |-> 0]
  /\ req_head = [h \in Harts |-> NULL]
  /\ req_size = [h \in Harts |-> 0]
  /\ resp_head = [h \in Harts |-> NULL]
  /\ resp_tail = [h \in Harts |-> NULL]
  /\ ipi_pending = [h \in Harts |-> 0]
  /\ ssip = [h \in Harts |-> FALSE]
  /\ msip = [h \in Harts |-> FALSE]
  /\ irq_enabled = [h \in Harts |-> FALSE]
  /\ mem = [m \in Msg |-> Blank]
  /\ owned = Msg
  /\ rx = <<>>
  /\ typed = 0
  /\ files = 0
  /\ ramdisk = FALSE

Goto(h, where) == pc' = [pc EXCEPT ![h] = where]

-----------------------------------------------------------------------------
(* The queues.                                                             *)

\* The message m as it enters the response queue, its words otherwise w.
Unlinked(w) == [w EXCEPT !.priv = NULL]

\* Mutant: the newest response goes to the head, as requests do.
RespondAtHead(h, m, w, memory0) ==
  /\ mem' = [memory0 EXCEPT ![m] = [w EXCEPT !.priv = resp_head[h]]]
  /\ resp_head' = [resp_head EXCEPT ![h] = m]
  /\ resp_tail' = IF resp_tail[h] = NULL THEN [resp_tail EXCEPT ![h] = m] ELSE resp_tail
  /\ ssip' = [ssip EXCEPT ![h] = TRUE]

\* Appends message m, whose words are now w, at the tail of hart h's response
\* queue and raises SSIP; memory is otherwise memory0.
Respond(h, m, w, memory0) ==
  LET linked == [memory0 EXCEPT ![m] = Unlinked(w)]
  IN  /\ IF resp_tail[h] # NULL
         THEN /\ mem' = [linked EXCEPT ![resp_tail[h]].priv = m]
              /\ UNCHANGED resp_head
         ELSE /\ mem' = linked
              /\ resp_head' = [resp_head EXCEPT ![h] = m]
      /\ resp_tail' = [resp_tail EXCEPT ![h] = m]
      /\ ssip' = [ssip EXCEPT ![h] = TRUE]

\* mcall_respond: the answer goes into the data word.
McallRespond(h, m, w, resp) ==
  /\ Respond(h, m, [w EXCEPT !.data = resp], mem)
  /\ UNCHANGED <<req_head, req_size>>

\* The messages reached from head by following sbi_private_data in memory.
Chain(memory, head) ==
  LET at[k \in 0 .. Cardinality(Msg)] ==
        IF k = 0 THEN head
        ELSE IF at[k - 1] = NULL THEN NULL ELSE memory[at[k - 1]].priv
      length == Cardinality({k \in 0 .. Cardinality(Msg) : at[k] # NULL})
  IN  [i \in 1 .. length |-> at[i - 1]]

RequestQueue(h) == Chain(mem, req_head[h])
ResponseQueue(h) == Chain(mem, resp_head[h])

\* The positions, among the first req_size, that hold a UART READ.
ReadPositions(h) ==
  {i \in 1 .. req_size[h] : /\ i <= Len(RequestQueue(h))
                            /\ mem[RequestQueue(h)[i]].dev = "bcd"
                            /\ mem[RequestQueue(h)[i]].cmd = "READ"}

-----------------------------------------------------------------------------
(* mcall_dev_req: the supervisor of hart h sends message m.                *)

\* A message outside supervisor memory, or with a field out of range, is
\* refused with -EFAULT or -EINVAL and stays the supervisor's.
RefuseRequest(h, m) ==
  /\ pc[h] = "S"
  /\ m \in owned
  /\ UNCHANGED vars

\* A UART READ enables the interrupt and waits at the head of the queue.
UartRead(h, m) ==
  /\ pc[h] = "S" /\ h \in Consoles
  /\ m \in owned
  /\ <<"bcd", "READ">> \in Sends
  /\ owned' = owned \ {m}
  /\ irq_enabled' = [irq_enabled EXCEPT ![h] = TRUE]
  /\ mem' = [mem EXCEPT ![m] = [Request("bcd", "READ") EXCEPT !.priv = req_head[h]]]
  /\ req_head' = [req_head EXCEPT ![h] = m]
  /\ req_size' = [req_size EXCEPT ![h] = @ + 1]
  /\ UNCHANGED <<pc, resp_head, resp_tail, ssip, rx, typed, ipiVars, diskVars>>

\* A UART WRITE, and an IDENTIFY of the UART or of a device that is not there,
\* are answered at once.
AnswerAtOnce(h, m) ==
  /\ pc[h] = "S"
  /\ m \in owned
  /\ owned' = owned \ {m}
  /\ \E s \in Sends \cap {<<"bcd", "WRITE">>, <<"bcd", "IDENTIFY">>,
                         <<"none", "IDENTIFY">>} :
       McallRespond(h, m, Request(s[1], s[2]), ACK)
  /\ UNCHANGED <<pc, uartVars, ipiVars, diskVars>>

\* Mutant: off by one at the end of the table.
FileFreeOffByOne == files <= MaxFiles

\* file_get_free finds an entry; it panics otherwise.
FileFree == files < MaxFiles

OpenRamdisk ==
  /\ FileFree
  /\ files' = files + 1
  /\ ramdisk' = TRUE

\* IDENTIFY of the disk: no root.bin answers with an empty name; otherwise the
\* file is opened again, whether or not ramdisk already points to an open one,
\* and an allocation or an open that fails does not return.
DiskIdentify(h, m) ==
  /\ pc[h] = "S"
  /\ m \in owned
  /\ <<"disk", "IDENTIFY">> \in Sends
  /\ \/ /\ owned' = owned \ {m}
        /\ McallRespond(h, m, Request("disk", "IDENTIFY"), ACK)
        /\ UNCHANGED <<pc, diskVars>>
     \/ /\ OpenRamdisk
        /\ owned' = owned \ {m}
        /\ McallRespond(h, m, Request("disk", "IDENTIFY"), ACK)
        /\ UNCHANGED pc
     \/ /\ Goto(h, IF FileFree THEN "panic: disk" ELSE "panic: no free file")
        /\ UNCHANGED <<queueVars, ssip, diskVars>>
  /\ UNCHANGED <<uartVars, ipiVars>>

\* An IDENTIFY whose address for the name is not aligned panics, that of the disk
\* once the file is open.
IdentifyMisaligned(h, m) ==
  /\ pc[h] = "S"
  /\ m \in owned
  /\ \E s \in Sends :
       /\ s[2] = "IDENTIFY"
       /\ UNCHANGED diskVars \/ (s[1] = "disk" /\ OpenRamdisk)
  /\ Goto(h, "panic: bad address")
  /\ UNCHANGED <<queueVars, ssip, uartVars, ipiVars>>

\* A disk READ or WRITE answers with the request's tag, or panics when the
\* file system moves fewer bytes than asked.  Before an IDENTIFY has opened the
\* file there is no check of the null pointer, and what it points to is no
\* file object: the transfer fails or traps in machine mode.  A transfer that
\* panics dies with file_lock held, and another hart's would then spin: here it
\* may still be answered, which allows more than the code does.
DiskTransfer(h, m) ==
  /\ pc[h] = "S"
  /\ m \in owned
  /\ \E s \in Sends \cap ({"disk"} \X {"READ", "WRITE"}) :
       \/ /\ ramdisk
          /\ owned' = owned \ {m}
          /\ McallRespond(h, m, Request(s[1], s[2]), ACK)
          /\ UNCHANGED pc
       \/ /\ Goto(h, "panic: disk")
          /\ UNCHANGED <<queueVars, ssip>>
  /\ UNCHANGED <<uartVars, ipiVars, diskVars>>

\* Every other command panics.
UnsupportedCommand(h, m) ==
  /\ pc[h] = "S"
  /\ m \in owned
  /\ \E s \in Sends : s[2] = "other" \/ (s[1] = "none" /\ s[2] # "IDENTIFY")
  /\ Goto(h, "panic: bad command")
  /\ UNCHANGED <<queueVars, ssip, uartVars, ipiVars, diskVars>>

-----------------------------------------------------------------------------
(* mcall_dev_resp: the supervisor of hart h takes the oldest response.     *)

\* Mutants: the tail pointer dangles; a pending IPI is not looked at again.
NoMoreResponsesTailKept(h) ==
  /\ UNCHANGED resp_tail
  /\ ssip' = [ssip EXCEPT ![h] = FALSE]
  /\ Goto(h, "dev_resp")
NoMoreResponsesNoRecheck(h) ==
  /\ resp_tail' = [resp_tail EXCEPT ![h] = NULL]
  /\ ssip' = [ssip EXCEPT ![h] = FALSE]
  /\ UNCHANGED pc

\* The last response is gone: SSIP comes down, and then the IPI is looked at.
NoMoreResponses(h) ==
  /\ resp_tail' = [resp_tail EXCEPT ![h] = NULL]
  /\ ssip' = [ssip EXCEPT ![h] = FALSE]
  /\ Goto(h, "dev_resp")

ReceiveResponse(h) ==
  /\ pc[h] = "S"
  /\ resp_head[h] # NULL
  /\ LET m == resp_head[h]
         next == mem[m].priv
     IN  /\ resp_head' = [resp_head EXCEPT ![h] = next]
         /\ owned' = owned \cup {m}
         /\ mem' = [mem EXCEPT ![m] = Blank]
         /\ IF next = NULL THEN NoMoreResponses(h)
                           ELSE UNCHANGED <<resp_tail, ssip, pc>>
  /\ UNCHANGED <<req_head, req_size, uartVars, ipiVars, diskVars>>

\* After the last response: an IPI that is pending keeps the bit up.
RecheckIpi(h) ==
  /\ pc[h] = "dev_resp"
  /\ IF ipi_pending[h] # 0 THEN ssip' = [ssip EXCEPT ![h] = TRUE]
                           ELSE UNCHANGED ssip
  /\ Goto(h, "S")
  /\ UNCHANGED <<queueVars, uartVars, ipiVars, diskVars>>

-----------------------------------------------------------------------------
(* mcall_send_ipi, mcall_clear_ipi and the software interrupt.             *)

\* Marks the IPI; only the hart that marks it first raises the interrupt.  A
\* recipient out of range gets -1 and changes nothing.
SendIpi(h, r) ==
  /\ pc[h] = "S"
  /\ r < num_harts
  /\ ipi_pending' = [ipi_pending EXCEPT ![r] = 1]
  /\ IF ipi_pending[r] = 0
     THEN /\ recipient' = [recipient EXCEPT ![h] = r]
          /\ Goto(h, "send_ipi")
     ELSE UNCHANGED <<recipient, pc>>
  /\ UNCHANGED <<queueVars, ssip, msip, uartVars, diskVars>>

RaiseIpi(h) ==
  /\ pc[h] = "send_ipi"
  /\ msip' = [msip EXCEPT ![recipient[h]] = TRUE]
  /\ recipient' = [recipient EXCEPT ![h] = 0]
  /\ Goto(h, "S")
  /\ UNCHANGED <<queueVars, ssip, ipi_pending, uartVars, diskVars>>

\* Mutant: the bit comes down although responses wait.
ClearIpiAlways(h) ==
  /\ pc[h] = "S"
  /\ ssip' = [ssip EXCEPT ![h] = FALSE]
  /\ Goto(h, "clear_ipi")
  /\ UNCHANGED <<queueVars, uartVars, ipiVars, diskVars>>

\* The bit comes down first, unless responses wait, and the flag after it.
ClearIpi(h) ==
  /\ pc[h] = "S"
  /\ IF resp_head[h] = NULL THEN ssip' = [ssip EXCEPT ![h] = FALSE]
                            ELSE UNCHANGED ssip
  /\ Goto(h, "clear_ipi")
  /\ UNCHANGED <<queueVars, uartVars, ipiVars, diskVars>>

TakeIpi(h) ==
  /\ pc[h] = "clear_ipi"
  /\ ipi_pending' = [ipi_pending EXCEPT ![h] = 0]
  /\ Goto(h, "S")
  /\ UNCHANGED <<queueVars, ssip, recipient, msip, uartVars, diskVars>>

\* mentry.S: a machine software interrupt becomes a supervisor one.
SoftInterrupt(h) ==
  /\ pc[h] = "S"
  /\ msip[h]
  /\ msip' = [msip EXCEPT ![h] = FALSE]
  /\ ssip' = [ssip EXCEPT ![h] = TRUE]
  /\ UNCHANGED <<pc, queueVars, recipient, ipi_pending, uartVars, diskVars>>

-----------------------------------------------------------------------------
(* The UART and io_irq_service.                                            *)

\* A character arrives; a full FIFO loses it.
Type ==
  /\ typed < MaxChars
  /\ typed' = typed + 1
  /\ rx' = IF Len(rx) < FifoDepth THEN Append(rx, typed + 1) ELSE rx
  /\ UNCHANGED <<pc, queueVars, ssip, ipiVars, irq_enabled, diskVars>>

\* Mutant: an interrupt that is still pending after its character was read.
IoInterruptLatched(h) ==
  /\ pc[h] = "S"
  /\ irq_enabled[h]
  /\ Goto(h, "irq_check")
  /\ UNCHANGED <<queueVars, ssip, ipiVars, uartVars, diskVars>>

\* The receive interrupt is level triggered: it is taken, whatever the
\* supervisor does, as long as the FIFO holds a character.
IoInterrupt(h) ==
  /\ pc[h] = "S"
  /\ irq_enabled[h]
  /\ rx # <<>>
  /\ Goto(h, "irq_check")
  /\ UNCHANGED <<queueVars, ssip, ipiVars, uartVars, diskVars>>

\* uart_check_read_irq.
CheckReadIrq(h) ==
  /\ pc[h] = "irq_check"
  /\ IF rx = <<>> THEN Goto(h, "panic: no recv buf") ELSE Goto(h, "irq_read")
  /\ UNCHANGED <<queueVars, ssip, ipiVars, uartVars, diskVars>>

\* The first READ of the queue gets the character, leaves the queue and is
\* appended to the responses.  (A page that is not the supervisor's panics here;
\* mcall_dev_req refused every such message, so that none is ever queued.)
ServeRead(h) ==
  /\ pc[h] = "irq_read"
  /\ \E i \in ReadPositions(h), m \in Msg, prev \in MsgPtr :
       /\ \A j \in ReadPositions(h) : i <= j
       /\ m = RequestQueue(h)[i]
       /\ prev = IF i = 1 THEN NULL ELSE RequestQueue(h)[i - 1]
       /\ req_head' = IF prev = NULL THEN [req_head EXCEPT ![h] = mem[m].priv]
                                     ELSE req_head
       /\ Respond(h, m, [mem[m] EXCEPT !.data = IF rx = <<>> THEN 0 ELSE Head(rx)],
                  IF prev = NULL THEN mem
                                 ELSE [mem EXCEPT ![prev].priv = mem[m].priv])
  /\ req_size' = [req_size EXCEPT ![h] = @ - 1]
  /\ rx' = IF rx = <<>> THEN rx ELSE Tail(rx)
  /\ Goto(h, "S")
  /\ UNCHANGED <<owned, ipiVars, irq_enabled, typed, diskVars>>

\* No READ in the queue: panic("io_irq_service(): no record").
NoRecord(h) ==
  /\ pc[h] = "irq_read"
  /\ ReadPositions(h) = {}
  /\ Goto(h, "panic: no record")
  /\ UNCHANGED <<queueVars, ssip, ipiVars, uartVars, diskVars>>

-----------------------------------------------------------------------------
DeviceCall(h) ==
  \/ \E m \in Msg : \/ RefuseRequest(h, m)
                    \/ UartRead(h, m)
                    \/ AnswerAtOnce(h, m)
                    \/ DiskIdentify(h, m)
                    \/ IdentifyMisaligned(h, m)
                    \/ DiskTransfer(h, m)
                    \/ UnsupportedCommand(h, m)
  \/ ReceiveResponse(h)
  \/ RecheckIpi(h)

IpiCall(h) ==
  \/ \E r \in 0 .. num_harts : SendIpi(h, r)
  \/ RaiseIpi(h)
  \/ ClearIpi(h)
  \/ TakeIpi(h)

Interrupt(h) ==
  \/ SoftInterrupt(h)
  \/ IoInterrupt(h)
  \/ CheckReadIrq(h)
  \/ ServeRead(h)
  \/ NoRecord(h)

Next ==
  \/ Type
  \/ \E h \in Harts : DeviceCall(h) \/ IpiCall(h) \/ Interrupt(h)

Spec == Init /\ [][Next]_vars

\* A hart in machine mode keeps running; an interrupt that stays up is taken
\* however often the hart is in a handler when it is looked at; and a
\* supervisor that sees SSIP, and only then, drains its responses and clears
\* its IPI.
InMachineMode(h) == \/ RecheckIpi(h)
                    \/ RaiseIpi(h)
                    \/ TakeIpi(h)
                    \/ CheckReadIrq(h)
                    \/ ServeRead(h)
                    \/ NoRecord(h)

Fairness ==
  \A h \in Harts :
    /\ WF_vars(InMachineMode(h))
    /\ SF_vars(SoftInterrupt(h))
    /\ SF_vars(IoInterrupt(h))
    /\ SF_vars(ssip[h] /\ ReceiveResponse(h))
    /\ SF_vars(ssip[h] /\ ClearIpi(h))

LiveSpec == Spec /\ Fairness

-----------------------------------------------------------------------------
TypeOK ==
  /\ pc \in [Harts -> {"S"} \cup Handling \cup Panics]
  /\ recipient \in [Harts -> Harts]
  /\ req_head \in [Harts -> MsgPtr]
  /\ req_size \in [Harts -> Int]
  /\ resp_head \in [Harts -> MsgPtr]
  /\ resp_tail \in [Harts -> MsgPtr]
  /\ ipi_pending \in [Harts -> {0, 1}]
  /\ ssip \in [Harts -> BOOLEAN]
  /\ msip \in [Harts -> BOOLEAN]
  /\ irq_enabled \in [Harts -> BOOLEAN]
  /\ mem \in [Msg -> Words]
  /\ owned \subseteq Msg
  /\ rx \in Seq(1 .. MaxChars)
  /\ typed \in 0 .. MaxChars
  /\ files \in 0 .. MaxFiles
  /\ ramdisk \in BOOLEAN

\* The supervisor is never left asleep: while a response waits SSIP is up, and
\* while an IPI is pending SSIP or MSIP is up, or the hart that sent it is
\* about to raise MSIP, or the receiving hart is inside the handler that looks
\* at the flag next.
NoLostWakeup ==
  \A h \in Harts :
    /\ resp_head[h] # NULL => ssip[h]
    /\ ipi_pending[h] = 1 =>
         \/ ssip[h] \/ msip[h]
         \/ \E s \in Harts : pc[s] = "send_ipi" /\ recipient[s] = h
         \/ pc[h] \in {"dev_resp", "clear_ipi"}

\* The queues are well formed: both end in NULL, the size field counts the
\* requests, the tail pointer is the last response.
QueuesWellFormed ==
  \A h \in Harts :
    /\ req_size[h] = Len(RequestQueue(h))
    /\ IF resp_head[h] = NULL THEN resp_tail[h] = NULL
       ELSE resp_tail[h] = ResponseQueue(h)[Len(ResponseQueue(h))]

\* No message is lost or answered twice: the queues are well formed, and each
\* message is in exactly one place, once, the supervisor's hands, one hart's
\* requests or one hart's responses.
Places(m) ==
  {<<"owned">> : x \in {m} \cap owned}
    \cup {<<"request", h, i>> : h \in Harts, i \in 1 .. Cardinality(Msg) + 1}
    \cup {<<"response", h, i>> : h \in Harts, i \in 1 .. Cardinality(Msg) + 1}
MessagesConserved ==
  QueuesWellFormed /\
  \A m \in Msg :
    Cardinality({p \in Places(m) :
       \/ p[1] = "owned"
       \/ p[1] = "request" /\ p[3] \in DOMAIN RequestQueue(p[2])
                           /\ RequestQueue(p[2])[p[3]] = m
       \/ p[1] = "response" /\ p[3] \in DOMAIN ResponseQueue(p[2])
                            /\ ResponseQueue(p[2])[p[3]] = m}) = 1

\* Although the request queue is last in, first out, the characters of the
\* response queue stand in the order they were typed, all of them before
\* those still in the FIFO.
CharsInOrder ==
  \A h \in Harts :
    LET q == ResponseQueue(h)
        chars == {i \in DOMAIN q : mem[q[i]].data >= 0}
    IN  \A i \in chars :
          /\ \A j \in chars : i < j => mem[q[i]].data < mem[q[j]].data
          /\ \A j \in DOMAIN rx : mem[q[i]].data < rx[j]

\* With the console on one hart the handler never reads an empty FIFO.
NoEmptyRead ==
  \A h \in Harts : /\ pc[h] = "irq_read" => rx # <<>>
                   /\ pc[h] # "panic: no recv buf"

\* io_irq_service always finds the READ the character is for
\* (mtrap.c:115 panics otherwise).
EveryInterruptHasARead == \A h \in Harts : pc[h] # "panic: no record"

\* A pending IPI is acknowledged, and a response collected, unless the hart
\* itself has panicked.
Panicked(h) == pc[h] \in Panics
IpiAcknowledged ==
  \A h \in Harts : (ipi_pending[h] = 1) ~> (ipi_pending[h] = 0 \/ Panicked(h))
ResponseCollected ==
  \A h \in Harts : \A m \in Msg :
    (resp_tail[h] = m) ~> (m \in owned \/ Panicked(h))

\* The monitor implements the service the supervisor relies on.
Service == INSTANCE SbiService
             WITH reads <- [h \in Harts |-> {RequestQueue(h)[i] : i \in DOMAIN RequestQueue(h)}],
                  answers <- [h \in Harts |-> ResponseQueue(h)],
                  down <- {h \in Harts : Panicked(h)}
ImplementsService == Service!Spec
=============================================================================
