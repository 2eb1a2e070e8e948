-------------------------- MODULE SbiMonitor_proof --------------------------
(***************************************************************************)
(* The monitor for any number of harts, messages, files and characters:    *)
(* its types, that no wakeup is lost, that the receive handler reads no    *)
(* empty FIFO; then its linked queues: a walk along one from its head      *)
(* finds a list without repetitions, no message is in two places or in     *)
(* none, characters come back in order, and the monitor implements         *)
(* SbiService.                                                             *)
(*                                                                         *)
(* The argument about the queues works with sequences rq and sq of each    *)
(* hart that the heads and links stand for (QueuesAre).  A walk from the   *)
(* head of a list is that list (ChainOfList), which takes an induction,    *)
(* here by the least position at which it would differ.  Every step of the *)
(* monitor then moves one message between the sequences or none            *)
(* (NextMoves), and the three theorems are read off that.                  *)
(***************************************************************************)
EXTENDS SbiMonitor, FiniteSetTheorems, WellFoundedInduction, TLAPS

LEMMA ZeroHart == 0 \in Harts
  BY HartsAssumption DEF Harts

\* The ends of a sequence that is not empty.
LEMMA HeadTail ==
  ASSUME NEW S, NEW s \in Seq(S), s # <<>>
  PROVE  Head(s) \in S /\ Tail(s) \in Seq(S)
  OBVIOUS

LEMMA AppendType ==
  ASSUME NEW S, NEW s \in Seq(S), NEW x \in S
  PROVE  Append(s, x) \in Seq(S)
  OBVIOUS

LEMMA AppendNotEmpty ==
  ASSUME NEW S, NEW s \in Seq(S), NEW x \in S
  PROVE  Append(s, x) # <<>>
  <1>1. Len(Append(s, x)) = Len(s) + 1 /\ Len(s) \in Nat
    OBVIOUS
  <1>2. QED
    BY <1>1

LEMMA RequestType ==
  ASSUME NEW dev \in Dev, NEW cmd \in Cmd
  PROVE  Request(dev, cmd) \in Words
  BY DEF Request, Words, Data, REQUEST, MsgPtr

\* Appending to a response queue keeps the types of what it changes.
LEMMA RespondType ==
  ASSUME TypeOK, NEW h \in Harts, NEW m \in Msg, NEW w \in Words,
         NEW memory0 \in [Msg -> Words], Respond(h, m, w, memory0)
  PROVE  /\ mem' \in [Msg -> Words]
         /\ resp_head' \in [Harts -> MsgPtr]
         /\ resp_tail' \in [Harts -> MsgPtr]
         /\ ssip' \in [Harts -> BOOLEAN]
  <1> DEFINE linked == [memory0 EXCEPT ![m] = Unlinked(w)]
  <1>1. linked \in [Msg -> Words]
    BY DEF Unlinked, Words, MsgPtr
  <1>2. \A p \in Msg : [linked EXCEPT ![p].priv = m] \in [Msg -> Words]
    BY <1>1 DEF Words, MsgPtr
  <1>3. resp_tail[h] # NULL => resp_tail[h] \in Msg
    BY DEF TypeOK, MsgPtr
  <1>4. mem' \in [Msg -> Words]
    BY <1>1, <1>2, <1>3 DEF Respond
  <1>5. resp_head' \in [Harts -> MsgPtr]
    BY DEF Respond, TypeOK, MsgPtr
  <1>6. resp_tail' \in [Harts -> MsgPtr] /\ ssip' \in [Harts -> BOOLEAN]
    BY DEF Respond, TypeOK, MsgPtr
  <1>7. QED
    BY <1>4, <1>5, <1>6

LEMMA McallRespondType ==
  ASSUME TypeOK, NEW h \in Harts, NEW m \in Msg, NEW dev \in Dev, NEW cmd \in Cmd,
         McallRespond(h, m, Request(dev, cmd), ACK)
  PROVE  /\ mem' \in [Msg -> Words]
         /\ resp_head' \in [Harts -> MsgPtr]
         /\ resp_tail' \in [Harts -> MsgPtr]
         /\ ssip' \in [Harts -> BOOLEAN]
         /\ UNCHANGED <<req_head, req_size>>
  <1> DEFINE w == [Request(dev, cmd) EXCEPT !.data = ACK]
  <1>1. w \in Words
    BY RequestType DEF Words, Data
  <1>2. mem \in [Msg -> Words]
    BY DEF TypeOK, Words
  <1>3. Respond(h, m, w, mem) /\ UNCHANGED <<req_head, req_size>>
    BY DEF McallRespond
  <1>4. QED
    BY <1>1, <1>2, <1>3, RespondType

-----------------------------------------------------------------------------
(* Type correctness, one lemma per group of handlers.                      *)

LEMMA PcType ==
  ASSUME TypeOK, NEW h \in Harts, NEW where \in {"S"} \cup Handling \cup Panics,
         Goto(h, where)
  PROVE  pc' \in [Harts -> {"S"} \cup Handling \cup Panics]
  BY DEF TypeOK, Goto

LEMMA DeviceCallType ==
  ASSUME TypeOK, NEW h \in Harts, DeviceCall(h)
  PROVE  TypeOK'
  <1> USE DEF queueVars, ipiVars, uartVars, diskVars
  <1>1. ASSUME NEW m \in Msg, RefuseRequest(h, m)  PROVE TypeOK'
    BY <1>1 DEF RefuseRequest, vars, TypeOK
  <1>2. ASSUME NEW m \in Msg, UartRead(h, m)  PROVE TypeOK'
    <2>1. Request("bcd", "READ") \in Words
      BY RequestType DEF Dev, Cmd
    <2>2. [Request("bcd", "READ") EXCEPT !.priv = req_head[h]] \in Words
      BY <2>1 DEF TypeOK, Words
    <2>3. mem' \in [Msg -> Words]
      BY <1>2, <2>2 DEF UartRead, TypeOK
    <2>4. QED
      BY <1>2, <2>3 DEF UartRead, TypeOK, MsgPtr
  <1>3. ASSUME NEW m \in Msg, AnswerAtOnce(h, m)  PROVE TypeOK'
    <2>1. PICK s \in Sends : McallRespond(h, m, Request(s[1], s[2]), ACK)
      BY <1>3 DEF AnswerAtOnce
    <2>2. s[1] \in Dev /\ s[2] \in Cmd
      BY SendsAssumption
    <2>3. QED
      BY <1>3, <2>1, <2>2, McallRespondType DEF AnswerAtOnce, TypeOK
  <1>4. ASSUME NEW m \in Msg, DiskIdentify(h, m)  PROVE TypeOK'
    <2>1. "disk" \in Dev /\ "IDENTIFY" \in Cmd
      BY DEF Dev, Cmd
    <2>2. CASE McallRespond(h, m, Request("disk", "IDENTIFY"), ACK)
      <3>0. \/ UNCHANGED <<files, ramdisk>>
            \/ files < MaxFiles /\ files' = files + 1 /\ ramdisk' = TRUE
        BY <1>4 DEF DiskIdentify, OpenRamdisk, FileFree
      <3>1a. files' \in 0 .. MaxFiles
        BY <3>0, BoundsAssumption DEF TypeOK
      <3>1. files' \in 0 .. MaxFiles /\ ramdisk' \in BOOLEAN
        BY <3>0, <3>1a DEF TypeOK
      <3>2. pc' \in [Harts -> {"S"} \cup Handling \cup Panics]
        BY <1>4, PcType DEF DiskIdentify, TypeOK, Panics
      <3>3. owned' \subseteq Msg
        BY <1>4 DEF DiskIdentify, TypeOK
      <3>4. QED
        BY <1>4, <2>1, <2>2, <3>1, <3>2, <3>3, McallRespondType DEF DiskIdentify, TypeOK
    <2>3. CASE UNCHANGED <<queueVars, ssip, diskVars>>
               /\ Goto(h, IF FileFree THEN "panic: disk" ELSE "panic: no free file")
      <3>1. pc' \in [Harts -> {"S"} \cup Handling \cup Panics]
        BY <2>3, PcType DEF Panics
      <3>2. QED
        BY <1>4, <2>3, <3>1 DEF DiskIdentify, TypeOK
    <2>4. QED
      BY <1>4, <2>2, <2>3 DEF DiskIdentify
  <1>5. ASSUME NEW m \in Msg, DiskTransfer(h, m)  PROVE TypeOK'
    <2>1. PICK s \in Sends :
            \/ /\ owned' = owned \ {m}
               /\ McallRespond(h, m, Request(s[1], s[2]), ACK)
               /\ UNCHANGED pc
            \/ /\ Goto(h, "panic: disk")
               /\ UNCHANGED <<queueVars, ssip>>
      BY <1>5 DEF DiskTransfer
    <2>2. s[1] \in Dev /\ s[2] \in Cmd
      BY SendsAssumption
    <2>3. CASE McallRespond(h, m, Request(s[1], s[2]), ACK) /\ UNCHANGED pc
               /\ owned' = owned \ {m}
      BY <1>5, <2>2, <2>3, McallRespondType DEF DiskTransfer, TypeOK
    <2>4. CASE Goto(h, "panic: disk") /\ UNCHANGED <<queueVars, ssip>>
      BY <1>5, <2>4, PcType DEF DiskTransfer, TypeOK, Panics
    <2>5. QED
      BY <2>1, <2>3, <2>4
  <1>6. ASSUME NEW m \in Msg, UnsupportedCommand(h, m)  PROVE TypeOK'
    BY <1>6, PcType DEF UnsupportedCommand, TypeOK, Panics
  <1>6a. ASSUME NEW m \in Msg, IdentifyMisaligned(h, m)  PROVE TypeOK'
    <2>1. /\ Goto(h, "panic: bad address") /\ UNCHANGED <<queueVars, ssip, uartVars, ipiVars>>
          /\ \/ UNCHANGED <<files, ramdisk>>
             \/ files < MaxFiles /\ files' = files + 1 /\ ramdisk' = TRUE
      BY <1>6a DEF IdentifyMisaligned, OpenRamdisk, FileFree, diskVars
    <2>2. files' \in 0 .. MaxFiles
      <3>1. files \in 0 .. MaxFiles /\ MaxFiles \in Nat
        BY BoundsAssumption DEF TypeOK
      <3>2. files' = files \/ (files < MaxFiles /\ files' = files + 1)
        BY ONLY <2>1
      <3>3. QED
        BY ONLY <3>1, <3>2
    <2>3. ramdisk' \in BOOLEAN
      BY <2>1 DEF TypeOK
    <2>4. pc' \in [Harts -> {"S"} \cup Handling \cup Panics]
      BY <2>1, PcType DEF Panics
    <2>5. QED
      BY <2>1, <2>2, <2>3, <2>4 DEF TypeOK
  <1>7. ASSUME ReceiveResponse(h)  PROVE TypeOK'
    <2>1. resp_head[h] \in Msg
      BY <1>7 DEF ReceiveResponse, TypeOK, MsgPtr
    <2>2. mem[resp_head[h]].priv \in MsgPtr
      BY <2>1 DEF TypeOK, Words
    <2>3. Blank \in Words
      BY RequestType DEF Blank, Dev, Cmd
    <2>4. resp_tail' \in [Harts -> MsgPtr] /\ ssip' \in [Harts -> BOOLEAN]
      BY <1>7 DEF ReceiveResponse, NoMoreResponses, TypeOK, MsgPtr
    <2>5. pc' \in [Harts -> {"S"} \cup Handling \cup Panics]
      BY <1>7, PcType DEF ReceiveResponse, NoMoreResponses, TypeOK, Handling
    <2>6. mem' \in [Msg -> Words] /\ owned' \subseteq Msg
      BY <1>7, <2>1, <2>3 DEF ReceiveResponse, TypeOK
    <2>7. resp_head' \in [Harts -> MsgPtr]
      BY <1>7, <2>2 DEF ReceiveResponse, TypeOK
    <2>8. QED
      BY <1>7, <2>4, <2>5, <2>6, <2>7 DEF ReceiveResponse, TypeOK
  <1>8. ASSUME RecheckIpi(h)  PROVE TypeOK'
    BY <1>8, PcType DEF RecheckIpi, TypeOK
  <1>9. QED
    BY <1>1, <1>2, <1>3, <1>4, <1>5, <1>6, <1>6a, <1>7, <1>8 DEF DeviceCall

LEMMA IpiCallType ==
  ASSUME TypeOK, NEW h \in Harts, IpiCall(h)
  PROVE  TypeOK'
  <1> USE DEF queueVars, ipiVars, uartVars, diskVars
  <1>1. ASSUME NEW r \in 0 .. num_harts, SendIpi(h, r)  PROVE TypeOK'
    <2>1. r \in Harts
      BY <1>1, HartsAssumption DEF SendIpi, Harts
    <2>2. pc' \in [Harts -> {"S"} \cup Handling \cup Panics]
      BY <1>1, PcType DEF SendIpi, TypeOK, Handling
    <2>3. QED
      BY <1>1, <2>1, <2>2 DEF SendIpi, TypeOK
  <1>2. ASSUME RaiseIpi(h)  PROVE TypeOK'
    BY <1>2, ZeroHart, PcType DEF RaiseIpi, TypeOK
  <1>3. ASSUME ClearIpi(h)  PROVE TypeOK'
    BY <1>3, PcType DEF ClearIpi, TypeOK, Handling
  <1>4. ASSUME TakeIpi(h)  PROVE TypeOK'
    BY <1>4, PcType DEF TakeIpi, TypeOK
  <1>5. QED
    BY <1>1, <1>2, <1>3, <1>4 DEF IpiCall

LEMMA InterruptType ==
  ASSUME TypeOK, NEW h \in Harts, Interrupt(h)
  PROVE  TypeOK'
  <1> USE DEF queueVars, ipiVars, uartVars, diskVars
  <1>1. ASSUME SoftInterrupt(h)  PROVE TypeOK'
    BY <1>1 DEF SoftInterrupt, TypeOK
  <1>2. ASSUME IoInterrupt(h)  PROVE TypeOK'
    BY <1>2, PcType DEF IoInterrupt, TypeOK, Handling
  <1>3. ASSUME CheckReadIrq(h)  PROVE TypeOK'
    <2>1. pc' \in [Harts -> {"S"} \cup Handling \cup Panics]
      BY <1>3, PcType DEF CheckReadIrq, Handling, Panics
    <2>2. QED
      BY <1>3, <2>1 DEF CheckReadIrq, TypeOK
  <1>4. ASSUME ServeRead(h)  PROVE TypeOK'
    <2> DEFINE ch == IF rx = <<>> THEN 0 ELSE Head(rx)
    <2> DEFINE memory0(m, prev) ==
                 IF prev = NULL THEN mem ELSE [mem EXCEPT ![prev].priv = mem[m].priv]
    <2>1. PICK m \in Msg, prev \in MsgPtr :
            /\ req_head' = IF prev = NULL THEN [req_head EXCEPT ![h] = mem[m].priv]
                                          ELSE req_head
            /\ Respond(h, m, [mem[m] EXCEPT !.data = ch], memory0(m, prev))
      BY <1>4 DEF ServeRead
    <2>2. ch \in Data /\ rx' \in Seq(1 .. MaxChars)
      <3>1. rx \in Seq(1 .. MaxChars)
        BY DEF TypeOK
      <3>2. rx' = IF rx = <<>> THEN rx ELSE Tail(rx)
        BY <1>4 DEF ServeRead
      <3>3. rx # <<>> => Head(rx) \in 1 .. MaxChars /\ Tail(rx) \in Seq(1 .. MaxChars)
        BY <3>1, HeadTail
      <3>4. ch \in 0 .. MaxChars
        BY <3>3, BoundsAssumption
      <3>5. QED
        BY <3>1, <3>2, <3>3, <3>4 DEF Data
    <2>3. mem[m] \in Words /\ mem[m].priv \in MsgPtr
      BY DEF TypeOK, Words
    <2>4. [mem[m] EXCEPT !.data = ch] \in Words
      BY <2>2, <2>3 DEF Words
    <2>5. \A p \in Msg : [mem EXCEPT ![p].priv = mem[m].priv] \in [Msg -> Words]
      BY <2>3 DEF TypeOK, Words
    <2>6. memory0(m, prev) \in [Msg -> Words]
      BY <2>5 DEF MsgPtr, TypeOK
    <2>7. /\ mem' \in [Msg -> Words]
          /\ resp_head' \in [Harts -> MsgPtr]
          /\ resp_tail' \in [Harts -> MsgPtr]
          /\ ssip' \in [Harts -> BOOLEAN]
      BY <2>1, <2>4, <2>6, RespondType
    <2>8. req_head' \in [Harts -> MsgPtr]
      BY <2>1, <2>3 DEF TypeOK
    <2>9. pc' \in [Harts -> {"S"} \cup Handling \cup Panics]
      BY <1>4, PcType DEF ServeRead
    <2>10. /\ req_size' = [req_size EXCEPT ![h] = @ - 1]
           /\ UNCHANGED <<owned, ipiVars, irq_enabled, typed, diskVars>>
      BY <1>4 DEF ServeRead
    <2>11. QED
      BY <2>2, <2>7, <2>8, <2>9, <2>10 DEF TypeOK
  <1>5. ASSUME NoRecord(h)  PROVE TypeOK'
    BY <1>5, PcType DEF NoRecord, TypeOK, Panics
  <1>6. QED
    BY <1>1, <1>2, <1>3, <1>4, <1>5 DEF Interrupt

LEMMA TypeType ==
  ASSUME TypeOK, Type
  PROVE  TypeOK'
  <1>1. rx' \in Seq(1 .. MaxChars) /\ typed' \in 0 .. MaxChars
    <2>1. typed + 1 \in 1 .. MaxChars
      BY BoundsAssumption DEF TypeOK, Type
    <2>2. rx \in Seq(1 .. MaxChars) /\ Append(rx, typed + 1) \in Seq(1 .. MaxChars)
      BY <2>1, AppendType DEF TypeOK
    <2>3. rx' = rx \/ rx' = Append(rx, typed + 1)
      BY DEF Type
    <2>4. typed' = typed + 1
      BY DEF Type
    <2>5. typed' \in 0 .. MaxChars
      BY <2>1, <2>4, BoundsAssumption
    <2>6. QED
      BY <2>2, <2>3, <2>5
  <1>2. QED
    BY <1>1 DEF Type, TypeOK, queueVars, ipiVars, diskVars

\* Every variable keeps its type: no handler links a message to anything but a
\* message or NULL, or counts past the file table.
THEOREM TypeCorrect == Spec => []TypeOK
  <1>1. Init => TypeOK
    <2>1. Blank \in Words
      BY RequestType DEF Blank, Dev, Cmd
    <2>2. QED
      BY <2>1, ZeroHart, BoundsAssumption DEF Init, TypeOK, MsgPtr
  <1>2. TypeOK /\ [Next]_vars => TypeOK'
    <2>1. TypeOK /\ Next => TypeOK'
      BY DeviceCallType, IpiCallType, InterruptType, TypeType DEF Next
    <2>2. TypeOK /\ UNCHANGED vars => TypeOK'
      BY DEF TypeOK, vars
    <2>3. QED
      BY <2>1, <2>2
  <1>3. QED
    BY <1>1, <1>2, PTL DEF Spec

-----------------------------------------------------------------------------
(* No lost wakeup.  The invariant is inductive as it stands.               *)

\* Wherever a handler starts or ends that holds no wakeup in its hands, the
\* wakeups of every hart are as before.
OutsideIpi == {"S", "irq_check", "irq_read"} \cup Panics

LEMMA PcStep ==
  ASSUME TypeOK, NoLostWakeup, NEW h \in Harts,
         pc[h] \in OutsideIpi,
         \E where : Goto(h, where) \/ UNCHANGED pc,
         UNCHANGED <<recipient, ipi_pending, msip, resp_head, ssip>>
  PROVE  NoLostWakeup'
  <1>1. pc[h] \notin {"send_ipi", "dev_resp", "clear_ipi"}
    BY DEF OutsideIpi, Panics
  <1>2. \A k \in Harts : pc[k] \in {"send_ipi", "dev_resp", "clear_ipi"} => pc'[k] = pc[k]
    BY <1>1 DEF Goto, TypeOK
  <1>3. QED
    BY <1>2 DEF NoLostWakeup

\* A response raises the bit of its own hart and no other.
LEMMA RespondStep ==
  ASSUME TypeOK, NoLostWakeup, NEW h \in Harts,
         resp_head' = resp_head \/ \E m : resp_head' = [resp_head EXCEPT ![h] = m],
         ssip' = [ssip EXCEPT ![h] = TRUE],
         UNCHANGED <<recipient, ipi_pending, msip>>,
         \A k \in Harts : pc[k] \in {"send_ipi", "dev_resp", "clear_ipi"} => pc'[k] = pc[k]
  PROVE  NoLostWakeup'
  <1>1. ssip'[h] = TRUE
    BY DEF TypeOK
  <1>2. \A k \in Harts : k # h => ssip'[k] = ssip[k] /\ resp_head'[k] = resp_head[k]
    BY DEF TypeOK
  <1>3. QED
    BY <1>1, <1>2 DEF NoLostWakeup

LEMMA McallRespondStep ==
  ASSUME TypeOK, NoLostWakeup, NEW h \in Harts, NEW m, NEW w, NEW resp,
         McallRespond(h, m, w, resp), UNCHANGED <<pc, ipiVars>>
  PROVE  NoLostWakeup'
  BY RespondStep DEF McallRespond, Respond, ipiVars

LEMMA DeviceCallWakeup ==
  ASSUME TypeOK, NoLostWakeup, NEW h \in Harts, DeviceCall(h)
  PROVE  NoLostWakeup'
  <1>1. ASSUME NEW m \in Msg, RefuseRequest(h, m)  PROVE NoLostWakeup'
    BY <1>1 DEF RefuseRequest, vars, NoLostWakeup
  <1>2. ASSUME NEW m \in Msg, UartRead(h, m)  PROVE NoLostWakeup'
    BY <1>2 DEF UartRead, ipiVars, NoLostWakeup
  <1>3. ASSUME NEW m \in Msg, AnswerAtOnce(h, m)  PROVE NoLostWakeup'
    BY <1>3, McallRespondStep DEF AnswerAtOnce
  <1>4. ASSUME NEW m \in Msg, DiskIdentify(h, m)  PROVE NoLostWakeup'
    <2>1. CASE McallRespond(h, m, Request("disk", "IDENTIFY"), ACK) /\ UNCHANGED pc
      BY <1>4, <2>1, McallRespondStep DEF DiskIdentify
    <2>2. CASE UNCHANGED <<queueVars, ssip>> /\ \E where : Goto(h, where)
      BY <1>4, <2>2, PcStep DEF DiskIdentify, queueVars, ipiVars, OutsideIpi
    <2>3. QED
      BY <1>4, <2>1, <2>2 DEF DiskIdentify
  <1>5. ASSUME NEW m \in Msg, DiskTransfer(h, m)  PROVE NoLostWakeup'
    <2>1. CASE UNCHANGED pc /\ \E w : McallRespond(h, m, w, ACK)
      BY <1>5, <2>1, McallRespondStep DEF DiskTransfer
    <2>2. CASE UNCHANGED <<queueVars, ssip>> /\ \E where : Goto(h, where)
      BY <1>5, <2>2, PcStep DEF DiskTransfer, queueVars, ipiVars, OutsideIpi
    <2>3. QED
      BY <1>5, <2>1, <2>2 DEF DiskTransfer
  <1>6. ASSUME NEW m \in Msg, UnsupportedCommand(h, m)  PROVE NoLostWakeup'
    BY <1>6, PcStep DEF UnsupportedCommand, queueVars, ipiVars, OutsideIpi
  <1>6a. ASSUME NEW m \in Msg, IdentifyMisaligned(h, m)  PROVE NoLostWakeup'
    BY <1>6a, PcStep DEF IdentifyMisaligned, queueVars, ipiVars, OutsideIpi
  <1>7. ASSUME ReceiveResponse(h)  PROVE NoLostWakeup'
    <2> DEFINE next == mem[resp_head[h]].priv
    <2>1. /\ resp_head' = [resp_head EXCEPT ![h] = next]
          /\ UNCHANGED <<recipient, ipi_pending, msip>>
          /\ ssip[h]
          /\ pc[h] = "S"
      BY <1>7 DEF ReceiveResponse, ipiVars, NoLostWakeup
    <2>2. CASE next = NULL
      <3>1. /\ ssip' = [ssip EXCEPT ![h] = FALSE]
            /\ pc' = [pc EXCEPT ![h] = "dev_resp"]
        BY <1>7, <2>2 DEF ReceiveResponse, NoMoreResponses, Goto
      <3>2. resp_head'[h] = NULL /\ pc'[h] = "dev_resp"
        BY <2>1, <2>2, <3>1 DEF TypeOK
      <3>3. \A k \in Harts : k # h => /\ ssip'[k] = ssip[k]
                                      /\ resp_head'[k] = resp_head[k]
                                      /\ pc'[k] = pc[k]
        BY <2>1, <3>1 DEF TypeOK
      <3>4. \A s \in Harts : pc[s] = "send_ipi" => s # h
        BY <2>1
      <3>5. QED
        BY <2>1, <3>2, <3>3, <3>4 DEF NoLostWakeup
    <2>3. CASE next # NULL
      <3>1. UNCHANGED <<ssip, pc>>
        BY <1>7, <2>3 DEF ReceiveResponse
      <3>2. \A k \in Harts : resp_head'[k] # NULL => resp_head[k] # NULL
        BY <1>7, <2>1 DEF ReceiveResponse, TypeOK
      <3>3. QED
        BY <2>1, <3>1, <3>2 DEF NoLostWakeup
    <2>4. QED
      BY <2>2, <2>3
  <1>8. ASSUME RecheckIpi(h)  PROVE NoLostWakeup'
    <2>1. /\ pc[h] = "dev_resp"
          /\ pc' = [pc EXCEPT ![h] = "S"]
          /\ IF ipi_pending[h] # 0 THEN ssip' = [ssip EXCEPT ![h] = TRUE]
                                   ELSE UNCHANGED ssip
          /\ UNCHANGED <<recipient, ipi_pending, msip, resp_head>>
      BY <1>8 DEF RecheckIpi, Goto, queueVars, ipiVars
    <2>2. \A k \in Harts : (ssip[k] => ssip'[k])
      BY <2>1 DEF TypeOK
    <2>3. ipi_pending[h] = 1 => ssip'[h]
      BY <2>1 DEF TypeOK
    <2>4. \A k \in Harts : k # h => pc'[k] = pc[k]
      BY <2>1 DEF TypeOK
    <2>5. \A s \in Harts : pc[s] = "send_ipi" => s # h
      BY <2>1
    <2>6. QED
      BY <2>1, <2>2, <2>3, <2>4, <2>5 DEF NoLostWakeup
  <1>9. QED
    BY <1>1, <1>2, <1>3, <1>4, <1>5, <1>6, <1>6a, <1>7, <1>8 DEF DeviceCall

LEMMA IpiCallWakeup ==
  ASSUME TypeOK, NoLostWakeup, NEW h \in Harts, IpiCall(h)
  PROVE  NoLostWakeup'
  <1>1. ASSUME NEW r \in 0 .. num_harts, SendIpi(h, r)  PROVE NoLostWakeup'
    <2>0. r \in Harts
      BY <1>1, HartsAssumption DEF SendIpi, Harts
    <2>1. /\ pc[h] = "S"
          /\ ipi_pending' = [ipi_pending EXCEPT ![r] = 1]
          /\ UNCHANGED <<ssip, msip, resp_head>>
      BY <1>1 DEF SendIpi, queueVars
    <2>2. CASE ipi_pending[r] = 0
      <3>1. /\ recipient' = [recipient EXCEPT ![h] = r]
            /\ pc' = [pc EXCEPT ![h] = "send_ipi"]
        BY <1>1, <2>2 DEF SendIpi, Goto
      <3>2. pc'[h] = "send_ipi" /\ recipient'[h] = r
        BY <3>1 DEF TypeOK
      <3>3. \A k \in Harts : k # h => pc'[k] = pc[k] /\ recipient'[k] = recipient[k]
        BY <3>1 DEF TypeOK
      <3>4. \A k \in Harts : k # r => ipi_pending'[k] = ipi_pending[k]
        BY <2>1 DEF TypeOK
      <3>5. \A s \in Harts : pc[s] \in {"send_ipi", "dev_resp", "clear_ipi"} => s # h
        BY <2>1
      <3>6. QED
        BY <2>0, <2>1, <3>2, <3>3, <3>4, <3>5 DEF NoLostWakeup
    <2>3. CASE ipi_pending[r] # 0
      <3>1. UNCHANGED <<recipient, pc>>
        BY <1>1, <2>3 DEF SendIpi
      <3>2. ipi_pending' = ipi_pending
        BY <2>0, <2>1, <2>3 DEF TypeOK
      <3>3. QED
        BY <2>1, <3>1, <3>2 DEF NoLostWakeup
    <2>4. QED
      BY <2>2, <2>3
  <1>2. ASSUME RaiseIpi(h)  PROVE NoLostWakeup'
    <2>1. /\ msip' = [msip EXCEPT ![recipient[h]] = TRUE]
          /\ recipient' = [recipient EXCEPT ![h] = 0]
          /\ pc[h] = "send_ipi"
          /\ pc' = [pc EXCEPT ![h] = "S"]
          /\ UNCHANGED <<ssip, ipi_pending, resp_head>>
      BY <1>2 DEF RaiseIpi, Goto, queueVars
    <2>2. msip'[recipient[h]]
      BY <2>1 DEF TypeOK
    <2>3. \A k \in Harts : msip[k] => msip'[k]
      BY <2>1 DEF TypeOK
    <2>4. \A k \in Harts : k # h => pc'[k] = pc[k] /\ recipient'[k] = recipient[k]
      BY <2>1 DEF TypeOK
    <2>5. \A k \in Harts : pc[k] \in {"dev_resp", "clear_ipi"} => k # h
      BY <2>1
    <2>6. QED
      BY <2>1, <2>2, <2>3, <2>4, <2>5 DEF NoLostWakeup
  <1>3. ASSUME ClearIpi(h)  PROVE NoLostWakeup'
    <2>1. /\ pc[h] = "S"
          /\ pc' = [pc EXCEPT ![h] = "clear_ipi"]
          /\ IF resp_head[h] = NULL THEN ssip' = [ssip EXCEPT ![h] = FALSE]
                                    ELSE UNCHANGED ssip
          /\ UNCHANGED <<recipient, ipi_pending, msip, resp_head>>
      BY <1>3 DEF ClearIpi, Goto, queueVars, ipiVars
    <2>2. pc'[h] = "clear_ipi"
      BY <2>1 DEF TypeOK
    <2>3. \A k \in Harts : k # h => pc'[k] = pc[k] /\ ssip'[k] = ssip[k]
      BY <2>1 DEF TypeOK
    <2>4. resp_head[h] # NULL => ssip'[h] = ssip[h]
      BY <2>1
    <2>5. \A s \in Harts : pc[s] = "send_ipi" => s # h
      BY <2>1
    <2>6. QED
      BY <2>1, <2>2, <2>3, <2>4, <2>5 DEF NoLostWakeup
  <1>4. ASSUME TakeIpi(h)  PROVE NoLostWakeup'
    <2>1. /\ pc[h] = "clear_ipi"
          /\ pc' = [pc EXCEPT ![h] = "S"]
          /\ ipi_pending' = [ipi_pending EXCEPT ![h] = 0]
          /\ UNCHANGED <<recipient, ssip, msip, resp_head>>
      BY <1>4 DEF TakeIpi, Goto, queueVars
    <2>2. ipi_pending'[h] = 0
      BY <2>1 DEF TypeOK
    <2>3. \A k \in Harts : k # h => pc'[k] = pc[k] /\ ipi_pending'[k] = ipi_pending[k]
      BY <2>1 DEF TypeOK
    <2>4. \A s \in Harts : pc[s] = "send_ipi" => s # h
      BY <2>1
    <2>5. QED
      BY <2>1, <2>2, <2>3, <2>4 DEF NoLostWakeup
  <1>5. QED
    BY <1>1, <1>2, <1>3, <1>4 DEF IpiCall

LEMMA InterruptWakeup ==
  ASSUME TypeOK, NoLostWakeup, NEW h \in Harts, Interrupt(h)
  PROVE  NoLostWakeup'
  <1> USE DEF queueVars, ipiVars, OutsideIpi
  <1>1. ASSUME SoftInterrupt(h)  PROVE NoLostWakeup'
    <2>1. /\ msip' = [msip EXCEPT ![h] = FALSE]
          /\ ssip' = [ssip EXCEPT ![h] = TRUE]
          /\ UNCHANGED <<pc, recipient, ipi_pending, resp_head>>
      BY <1>1 DEF SoftInterrupt
    <2>2. ssip'[h]
      BY <2>1 DEF TypeOK
    <2>3. \A k \in Harts : k # h => ssip'[k] = ssip[k] /\ msip'[k] = msip[k]
      BY <2>1 DEF TypeOK
    <2>4. QED
      BY <2>1, <2>2, <2>3 DEF NoLostWakeup
  <1>2. ASSUME IoInterrupt(h)  PROVE NoLostWakeup'
    BY <1>2, PcStep DEF IoInterrupt
  <1>3. ASSUME CheckReadIrq(h)  PROVE NoLostWakeup'
    BY <1>3, PcStep DEF CheckReadIrq
  <1>4. ASSUME ServeRead(h)  PROVE NoLostWakeup'
    <2>1. /\ pc[h] = "irq_read"
          /\ pc' = [pc EXCEPT ![h] = "S"]
          /\ UNCHANGED <<recipient, ipi_pending, msip>>
      BY <1>4 DEF ServeRead, Goto
    <2>2. \E m, w, memory0 : Respond(h, m, w, memory0)
      BY <1>4 DEF ServeRead
    <2>3. /\ ssip' = [ssip EXCEPT ![h] = TRUE]
          /\ resp_head' = resp_head \/ \E m : resp_head' = [resp_head EXCEPT ![h] = m]
      BY <2>2 DEF Respond
    <2>4. \A k \in Harts : pc[k] \in {"send_ipi", "dev_resp", "clear_ipi"} => pc'[k] = pc[k]
      BY <2>1 DEF TypeOK
    <2>5. QED
      BY <2>1, <2>3, <2>4, RespondStep
  <1>5. ASSUME NoRecord(h)  PROVE NoLostWakeup'
    BY <1>5, PcStep DEF NoRecord
  <1>6. QED
    BY <1>1, <1>2, <1>3, <1>4, <1>5 DEF Interrupt

\* However the harts' handlers, the IPIs between them and the UART interleave,
\* a hart with a response or an IPI to collect is, or is about to be, told so.
THEOREM WakeupsKept == Spec => []NoLostWakeup
  <1>1. Init => NoLostWakeup
    BY DEF Init, NoLostWakeup
  <1>2. TypeOK /\ NoLostWakeup /\ [Next]_vars => NoLostWakeup'
    <2>1. ASSUME TypeOK, NoLostWakeup, Type  PROVE NoLostWakeup'
      BY <2>1 DEF Type, queueVars, ipiVars, NoLostWakeup
    <2>2. ASSUME TypeOK, NoLostWakeup, Next  PROVE NoLostWakeup'
      BY <2>1, <2>2, DeviceCallWakeup, IpiCallWakeup, InterruptWakeup DEF Next
    <2>3. ASSUME NoLostWakeup, UNCHANGED vars  PROVE NoLostWakeup'
      BY <2>3 DEF NoLostWakeup, vars
    <2>4. QED
      BY <2>2, <2>3
  <1>3. QED
    BY <1>1, <1>2, TypeCorrect, PTL DEF Spec

-----------------------------------------------------------------------------
(* The receive interrupt of a console that one hart owns.                  *)

OneConsole == \A a, b \in Consoles : a = b

\* Only a console's hart has the interrupt enabled, and between taking it and
\* reading the character nobody else empties the FIFO.
ConsoleInv ==
  \A h \in Harts :
    /\ irq_enabled[h] => h \in Consoles
    /\ pc[h] \in {"irq_check", "irq_read"} => irq_enabled[h] /\ rx # <<>>
    /\ pc[h] # "panic: no recv buf"

\* Steps that leave the UART alone and go to no interrupt handler.
Elsewhere == {"S", "send_ipi", "clear_ipi", "dev_resp", "panic: no record",
              "panic: bad command", "panic: disk", "panic: no free file",
              "panic: bad address"}

LEMMA ConsoleKept ==
  ASSUME TypeOK, ConsoleInv, NEW h \in Harts, NEW where \in Elsewhere,
         UNCHANGED <<irq_enabled, rx>>,
         UNCHANGED pc \/ Goto(h, where)
  PROVE  ConsoleInv'
  <1>1. \A k \in Harts : \/ pc'[k] = pc[k]
                         \/ pc'[k] \notin {"irq_check", "irq_read", "panic: no recv buf"}
    BY DEF Goto, TypeOK, Elsewhere
  <1>2. QED
    BY <1>1 DEF ConsoleInv

LEMMA DeviceCallConsole ==
  ASSUME TypeOK, ConsoleInv, NEW h \in Harts, DeviceCall(h)
  PROVE  ConsoleInv'
  <1> USE DEF uartVars, Elsewhere
  <1>1. ASSUME NEW m \in Msg, RefuseRequest(h, m)  PROVE ConsoleInv'
    BY <1>1, ConsoleKept DEF RefuseRequest, vars
  <1>2. ASSUME NEW m \in Msg, UartRead(h, m)  PROVE ConsoleInv'
    BY <1>2 DEF UartRead, ConsoleInv, TypeOK
  <1>3. ASSUME NEW m \in Msg, AnswerAtOnce(h, m)  PROVE ConsoleInv'
    BY <1>3, ConsoleKept DEF AnswerAtOnce
  <1>4. ASSUME NEW m \in Msg, DiskIdentify(h, m)  PROVE ConsoleInv'
    <2>1. \/ UNCHANGED pc
          \/ Goto(h, "panic: disk")
          \/ Goto(h, "panic: no free file")
      BY <1>4 DEF DiskIdentify
    <2>2. QED
      BY <1>4, <2>1, ConsoleKept DEF DiskIdentify
  <1>5. ASSUME NEW m \in Msg, DiskTransfer(h, m)  PROVE ConsoleInv'
    <2>1. UNCHANGED pc \/ Goto(h, "panic: disk")
      BY <1>5 DEF DiskTransfer
    <2>2. QED
      BY <1>5, <2>1, ConsoleKept DEF DiskTransfer
  <1>6. ASSUME NEW m \in Msg, UnsupportedCommand(h, m)  PROVE ConsoleInv'
    BY <1>6, ConsoleKept DEF UnsupportedCommand
  <1>6a. ASSUME NEW m \in Msg, IdentifyMisaligned(h, m)  PROVE ConsoleInv'
    BY <1>6a, ConsoleKept DEF IdentifyMisaligned
  <1>7. ASSUME ReceiveResponse(h)  PROVE ConsoleInv'
    <2>1. UNCHANGED pc \/ Goto(h, "dev_resp")
      BY <1>7 DEF ReceiveResponse, NoMoreResponses
    <2>2. QED
      BY <1>7, <2>1, ConsoleKept DEF ReceiveResponse
  <1>8. ASSUME RecheckIpi(h)  PROVE ConsoleInv'
    BY <1>8, ConsoleKept DEF RecheckIpi
  <1>9. QED
    BY <1>1, <1>2, <1>3, <1>4, <1>5, <1>6, <1>6a, <1>7, <1>8 DEF DeviceCall

LEMMA IpiCallConsole ==
  ASSUME TypeOK, ConsoleInv, NEW h \in Harts, IpiCall(h)
  PROVE  ConsoleInv'
  <1> USE DEF uartVars, Elsewhere
  <1>1. ASSUME NEW r, SendIpi(h, r)  PROVE ConsoleInv'
    <2>1. UNCHANGED pc \/ Goto(h, "send_ipi")
      BY <1>1 DEF SendIpi
    <2>2. QED
      BY <1>1, <2>1, ConsoleKept DEF SendIpi
  <1>2. ASSUME RaiseIpi(h) \/ ClearIpi(h) \/ TakeIpi(h)  PROVE ConsoleInv'
    BY <1>2, ConsoleKept DEF RaiseIpi, ClearIpi, TakeIpi
  <1>3. QED
    BY <1>1, <1>2 DEF IpiCall

LEMMA InterruptConsole ==
  ASSUME TypeOK, ConsoleInv, OneConsole, NEW h \in Harts, Interrupt(h)
  PROVE  ConsoleInv'
  <1> USE DEF uartVars, Elsewhere
  <1>1. ASSUME SoftInterrupt(h) \/ NoRecord(h)  PROVE ConsoleInv'
    BY <1>1, ConsoleKept DEF SoftInterrupt, NoRecord
  <1>2. ASSUME IoInterrupt(h)  PROVE ConsoleInv'
    BY <1>2 DEF IoInterrupt, Goto, ConsoleInv, TypeOK
  <1>3. ASSUME CheckReadIrq(h)  PROVE ConsoleInv'
    <2>1. irq_enabled[h] /\ rx # <<>>
      BY <1>3 DEF CheckReadIrq, ConsoleInv
    <2>2. /\ pc' = [pc EXCEPT ![h] = "irq_read"]
          /\ UNCHANGED <<irq_enabled, rx>>
      BY <1>3, <2>1 DEF CheckReadIrq, Goto
    <2>3. QED
      BY <2>1, <2>2 DEF ConsoleInv, TypeOK
  <1>4. ASSUME ServeRead(h)  PROVE ConsoleInv'
    <2>1. /\ pc[h] = "irq_read"
          /\ pc' = [pc EXCEPT ![h] = "S"]
          /\ UNCHANGED irq_enabled
      BY <1>4 DEF ServeRead, Goto
    <2>2. h \in Consoles
      BY <2>1 DEF ConsoleInv
    <2>3. \A k \in Harts : k # h => pc[k] \notin {"irq_check", "irq_read"}
      BY <2>2 DEF ConsoleInv, OneConsole
    <2>4. pc'[h] = "S" /\ \A k \in Harts : k # h => pc'[k] = pc[k]
      BY <2>1 DEF TypeOK
    <2>5. QED
      BY <2>1, <2>3, <2>4 DEF ConsoleInv
  <1>5. QED
    BY <1>1, <1>2, <1>3, <1>4 DEF Interrupt

\* A console that one hart serves never panics over, or answers a READ from,
\* an empty FIFO, whatever the other harts do.
THEOREM ConsoleNeverReadsEmpty == OneConsole /\ Spec => []NoEmptyRead
  <1> SUFFICES ASSUME OneConsole PROVE Spec => []NoEmptyRead
    OBVIOUS
  <1>1. Init => ConsoleInv
    BY DEF Init, ConsoleInv
  <1>2. TypeOK /\ ConsoleInv /\ [Next]_vars => ConsoleInv'
    <2>1. ASSUME TypeOK, ConsoleInv, Type  PROVE ConsoleInv'
      <3>1. rx' # <<>> \/ rx = <<>>
        <4>1. rx \in Seq(1 .. MaxChars) /\ typed + 1 \in 1 .. MaxChars
          BY <2>1, BoundsAssumption DEF TypeOK, Type
        <4>2. Append(rx, typed + 1) # <<>>
          BY <4>1, AppendNotEmpty
        <4>3. QED
          BY <2>1, <4>2 DEF Type
      <3>2. QED
        BY <2>1, <3>1 DEF Type, ConsoleInv
    <2>2. ASSUME TypeOK, ConsoleInv, Next  PROVE ConsoleInv'
      BY <2>1, <2>2, DeviceCallConsole, IpiCallConsole, InterruptConsole DEF Next
    <2>3. ASSUME ConsoleInv, UNCHANGED vars  PROVE ConsoleInv'
      BY <2>3 DEF ConsoleInv, vars
    <2>4. QED
      BY <2>2, <2>3
  <1>3. ConsoleInv => NoEmptyRead
    BY DEF ConsoleInv, NoEmptyRead
  <1>4. QED
    BY <1>1, <1>2, <1>3, TypeCorrect, PTL DEF Spec

-----------------------------------------------------------------------------
(* A walk along a linked list.                                             *)

\* Every non-empty set of naturals has a least element: what the proofs by
\* induction over a walk start from.
LEMMA LeastElement ==
  ASSUME NEW T \in SUBSET Nat, T # {}
  PROVE  \E n \in T : \A k \in T : n <= k
  <1> DEFINE Less == OpToRel(<, Nat)
  <1>1. IsWellFoundedOn(Less, Nat)
    BY NatLessThanWellFounded
  <1>2. \A x, y \in Nat : <<y, x>> \in Less <=> y < x
    BY DEF OpToRel
  <1> HIDE DEF Less
  <1>3. PICK n \in T : \A k \in T : ~ (<<k, n>> \in Less)
    BY <1>1, WFMin
  <1>4. n \in Nat /\ \A k \in T : k \in Nat
    OBVIOUS
  <1>5. \A k \in T : ~ (k < n)
    BY <1>2, <1>3, <1>4
  <1>6. \A k \in Nat : ~ (k < n) => n <= k
    BY <1>4
  <1>7. \A k \in T : n <= k
    BY <1>4, <1>5, <1>6
  <1>8. QED
    BY <1>7

\* q is the list that starts at head, linked by the priv words of memory.
IsList(memory, head, q) ==
  /\ q \in Seq(Msg)
  /\ head = IF q = <<>> THEN NULL ELSE q[1]
  /\ \A i \in 1 .. Len(q) : memory[q[i]].priv = IF i = Len(q) THEN NULL ELSE q[i + 1]
  /\ \A i, j \in 1 .. Len(q) : q[i] = q[j] => i = j

\* A sequence without repetitions is no longer than the set it draws from.
LEMMA ListBound ==
  ASSUME NEW q \in Seq(Msg), \A i, j \in 1 .. Len(q) : q[i] = q[j] => i = j
  PROVE  /\ Cardinality(Msg) \in Nat
         /\ Len(q) <= Cardinality(Msg)
  <1>1. Cardinality(Msg) \in Nat
    BY MsgAssumption, FS_CardinalityType
  <1>2. Len(q) \in Nat /\ q \in [1 .. Len(q) -> Msg]
    OBVIOUS
  <1>3. q \in Injection(1 .. Len(q), Msg)
    BY <1>2 DEF Injection, IsInjective
  <1>4. Cardinality(1 .. Len(q)) <= Cardinality(Msg)
    BY <1>3, MsgAssumption, FS_Injection
  <1>5. Cardinality(1 .. Len(q)) = Len(q)
    <2>1. Cardinality(1 .. Len(q)) = IF 1 > Len(q) THEN 0 ELSE Len(q) - 1 + 1
      BY <1>2, FS_Interval
    <2>2. QED
      BY <1>2, <2>1
  <1>6. QED
    BY <1>1, <1>4, <1>5

\* The walk from the head of a list returns that list.
LEMMA ChainOfList ==
  ASSUME NEW memory, NEW head, NEW q, IsList(memory, head, q)
  PROVE  Chain(memory, head) = q
  <1> DEFINE N == Cardinality(Msg)
             g == [k \in 0 .. N |-> IF k < Len(q) THEN q[k + 1] ELSE NULL]
  <1>1. N \in Nat /\ Len(q) \in Nat /\ Len(q) <= N
    BY ListBound DEF IsList
  <1>2. \A i \in 1 .. Len(q) : q[i] \in Msg /\ q[i] # NULL
    BY NullAssumption DEF IsList
  <1> HIDE DEF N
  <1>3. g = [k \in 0 .. N |->
               IF k = 0 THEN head
               ELSE IF g[k - 1] = NULL THEN NULL ELSE memory[g[k - 1]].priv]
    <2>1. ASSUME NEW k \in 0 .. N
          PROVE  g[k] = IF k = 0 THEN head
                        ELSE IF g[k - 1] = NULL THEN NULL ELSE memory[g[k - 1]].priv
      <3>1. CASE k = 0
        <4>1. q = <<>> <=> Len(q) = 0
          BY DEF IsList
        <4>2. QED
          BY <1>1, <3>1, <4>1 DEF IsList
      <3>2. CASE k # 0 /\ k - 1 < Len(q)
        <4>1. k \in 1 .. Len(q) /\ g[k - 1] = q[k]
          BY <1>1, <2>1, <3>2
        <4>2. memory[q[k]].priv = IF k = Len(q) THEN NULL ELSE q[k + 1]
          BY <4>1 DEF IsList
        <4>3. QED
          BY <1>1, <1>2, <2>1, <3>2, <4>1, <4>2
      <3>3. CASE k # 0 /\ ~ (k - 1 < Len(q))
        BY <1>1, <2>1, <3>3
      <3>4. QED
        BY <3>1, <3>2, <3>3
    <2>2. QED
      BY <2>1
  <1>4. {k \in 0 .. N : g[k] # NULL} = 0 .. (Len(q) - 1)
    BY <1>1, <1>2
  <1>5. Cardinality(0 .. (Len(q) - 1)) = Len(q)
    <2>1. 0 \in Int /\ Len(q) - 1 \in Int
      BY <1>1
    <2>2. Cardinality(0 .. (Len(q) - 1)) = IF 0 > Len(q) - 1 THEN 0 ELSE Len(q) - 1 - 0 + 1
      BY <2>1, FS_Interval
    <2>3. QED
      BY <1>1, <2>2
  <1>6. [i \in 1 .. Len(q) |-> g[i - 1]] = q
    <2>1. q = [i \in 1 .. Len(q) |-> q[i]]
      BY DEF IsList
    <2>2. \A i \in 1 .. Len(q) : g[i - 1] = q[i]
      BY <1>1
    <2> HIDE DEF g
    <2>3. QED
      BY <2>1, <2>2
  <1> HIDE DEF g
  <1> DEFINE at[k \in 0 .. N] ==
               IF k = 0 THEN head
               ELSE IF at[k - 1] = NULL THEN NULL ELSE memory[at[k - 1]].priv
  <1>7. at = [k \in 0 .. N |->
                IF k = 0 THEN head
                ELSE IF at[k - 1] = NULL THEN NULL ELSE memory[at[k - 1]].priv]
    BY <1>3
  <1>8. Chain(memory, head) = [i \in 1 .. Cardinality({k \in 0 .. N : at[k] # NULL}) |-> at[i - 1]]
    BY DEF Chain, N
  <1> HIDE DEF at
  <1>9. at = g
    <2> DEFINE T == {k \in 0 .. N : at[k] # g[k]}
    <2>1. SUFFICES ASSUME T # {} PROVE FALSE
      BY <1>3, <1>7
    <2>2. T \in SUBSET Nat
      BY <1>1
    <2>3. PICK n \in T : \A k \in T : n <= k
      <3> HIDE DEF T
      <3>1. QED
        BY <2>1, <2>2, LeastElement
    <2>4. n \in 0 .. N /\ n # 0
      BY <1>1, <1>3, <1>7
    <2>5. n - 1 \in 0 .. N /\ n - 1 \notin T
      BY <1>1, <2>3, <2>4
    <2>6. at[n] = g[n]
      BY <1>3, <1>7, <2>4, <2>5
    <2>7. QED
      BY <2>6
  <1>10. QED
    BY <1>4, <1>5, <1>6, <1>8, <1>9

Members(q) == {q[i] : i \in 1 .. Len(q)}
LastOf(q) == IF q = <<>> THEN NULL ELSE q[Len(q)]

LEMMA MembersType ==
  ASSUME NEW q \in Seq(Msg)
  PROVE  /\ Members(q) \subseteq Msg
         /\ \A i \in 1 .. Len(q) : q[i] \in Members(q)
         /\ \A x \in Members(q) : \E i \in 1 .. Len(q) : x = q[i]
         /\ q = <<>> <=> Members(q) = {}
  <1>1. Len(q) \in Nat /\ (q = <<>> <=> Len(q) = 0)
    OBVIOUS
  <1>2. Len(q) # 0 => 1 \in 1 .. Len(q)
    BY <1>1
  <1>3. q = <<>> <=> Members(q) = {}
    BY <1>1, <1>2 DEF Members
  <1>4. QED
    BY <1>3 DEF Members

\* What stays of a list when words of other messages change.
LEMMA ListFrame ==
  ASSUME NEW memory, NEW memory2, NEW head, NEW q, IsList(memory, head, q),
         \A x \in Members(q) : memory2[x].priv = memory[x].priv
  PROVE  IsList(memory2, head, q)
  <1>1. \A i \in 1 .. Len(q) : q[i] \in Members(q)
    BY MembersType DEF IsList
  <1>2. QED
    BY <1>1 DEF IsList

LEMMA PushMembers ==
  ASSUME NEW q \in Seq(Msg), NEW m \in Msg
  PROVE  /\ Members(<<m>> \o q) = Members(q) \cup {m}
         /\ Len(<<m>> \o q) = Len(q) + 1
         /\ <<m>> \o q \in Seq(Msg)
  <1> DEFINE p == <<m>> \o q
  <1>1. Len(q) \in Nat /\ \A i \in 1 .. Len(q) : q[i] \in Members(q)
    BY MembersType
  <1>2. /\ p \in Seq(Msg)
        /\ Len(p) = Len(q) + 1
        /\ p[1] = m
        /\ \A i \in 2 .. Len(p) : p[i] = q[i - 1]
    BY <1>1
  <1> HIDE DEF p
  <1>3. Members(p) = Members(q) \cup {m}
    <2>1. \A x \in Members(p) : x = m \/ x \in Members(q)
      <3>1. ASSUME NEW i \in 1 .. Len(p)  PROVE p[i] = m \/ p[i] \in Members(q)
        <4>1. i = 1 \/ (i \in 2 .. Len(p) /\ i - 1 \in 1 .. Len(q))
          BY <1>1, <1>2
        <4>2. i = 1 \/ (p[i] = q[i - 1] /\ q[i - 1] \in Members(q))
          BY <1>1, <1>2, <4>1
        <4>3. CASE i = 1
          BY <1>2, <4>3
        <4>4. CASE p[i] = q[i - 1] /\ q[i - 1] \in Members(q)
          BY <4>4
        <4>5. QED
          BY <4>2, <4>3, <4>4
      <3>2. QED
        BY <3>1 DEF Members
    <2>2. m \in Members(p)
      <3>1. 1 \in 1 .. Len(p)
        BY <1>1, <1>2
      <3>2. QED
        BY <1>2, <3>1 DEF Members
    <2>3. ASSUME NEW i \in 1 .. Len(q)  PROVE q[i] \in Members(p)
      <3>1. i + 1 \in 2 .. Len(p) /\ i + 1 - 1 = i
        BY <1>1, <1>2
      <3>2. p[i + 1] = q[i + 1 - 1]
        BY <1>2, <3>1
      <3>3. i + 1 \in 1 .. Len(p)
        BY <1>1, <1>2
      <3>4. QED
        BY <3>1, <3>2, <3>3 DEF Members
    <2>4. \A x \in Members(q) : x \in Members(p)
      BY <2>3 DEF Members
    <2>5. QED
      BY <2>1, <2>2, <2>4
  <1>4. QED
    BY <1>2, <1>3 DEF p

\* A list with a message put before its head.
LEMMA ListPush ==
  ASSUME NEW memory, NEW memory2, NEW head, NEW q, NEW m \in Msg,
         IsList(memory, head, q), m \notin Members(q), memory2[m].priv = head,
         \A x \in Members(q) : memory2[x].priv = memory[x].priv
  PROVE  IsList(memory2, m, <<m>> \o q)
  <1> DEFINE p == <<m>> \o q
  <1>1. q \in Seq(Msg) /\ Len(q) \in Nat /\ (q = <<>> <=> Len(q) = 0)
    BY DEF IsList
  <1>2. /\ p \in Seq(Msg)
        /\ Len(p) = Len(q) + 1
        /\ p[1] = m
        /\ \A i \in 2 .. Len(p) : p[i] = q[i - 1]
    BY <1>1
  <1>3. p # <<>>
    BY <1>1, <1>2
  <1> HIDE DEF p
  <1>4. \A i \in 1 .. Len(q) : q[i] \in Members(q)
    BY <1>1, MembersType
  <1>5. ASSUME NEW i \in 1 .. Len(p)
        PROVE  memory2[p[i]].priv = IF i = Len(p) THEN NULL ELSE p[i + 1]
    <2>1. CASE i = 1 /\ Len(q) = 0
      BY <1>1, <1>2, <2>1 DEF IsList
    <2>2. CASE i = 1 /\ Len(q) # 0
      <3>1. p[2] = q[1] /\ head = q[1]
        BY <1>1, <1>2, <2>2 DEF IsList
      <3>2. QED
        BY <1>1, <1>2, <2>2, <3>1
    <2>3. CASE i # 1
      <3>1. i - 1 \in 1 .. Len(q) /\ p[i] = q[i - 1]
        BY <1>1, <1>2, <1>5, <2>3
      <3>2. memory[q[i - 1]].priv = IF i - 1 = Len(q) THEN NULL ELSE q[i - 1 + 1]
        BY <3>1 DEF IsList
      <3>3. i # Len(p) => p[i + 1] = q[i]
        <4>1. i # Len(p) => i + 1 \in 2 .. Len(p) /\ i + 1 - 1 = i
          BY <1>1, <1>2, <2>3
        <4>2. QED
          BY <1>2, <4>1
      <3>4. i - 1 = Len(q) <=> i = Len(p)
        BY <1>1, <1>2, <1>5
      <3>5. i - 1 + 1 = i
        BY <1>1, <1>2, <1>5
      <3>6. QED
        BY <1>4, <3>1, <3>2, <3>3, <3>4, <3>5
    <2>4. QED
      BY <2>1, <2>2, <2>3
  <1>6. ASSUME NEW i \in 1 .. Len(p), NEW j \in 1 .. Len(p), p[i] = p[j]
        PROVE  i = j
    <2>1. CASE i = 1 \/ j = 1
      <3>1. \A k \in 1 .. Len(p) : k # 1 => k - 1 \in 1 .. Len(q) /\ p[k] = q[k - 1]
        BY <1>1, <1>2
      <3>2. \A k \in 1 .. Len(p) : k # 1 => p[k] # m
        BY <1>4, <3>1
      <3>3. QED
        BY <1>2, <1>6, <2>1, <3>2
    <2>2. CASE i # 1 /\ j # 1
      <3>1. i - 1 \in 1 .. Len(q) /\ j - 1 \in 1 .. Len(q) /\ q[i - 1] = q[j - 1]
        BY <1>1, <1>2, <1>6, <2>2
      <3>2. i - 1 = j - 1
        BY <3>1 DEF IsList
      <3>3. QED
        BY <1>2, <1>1, <3>2
    <2>3. QED
      BY <2>1, <2>2
  <1>7. IsList(memory2, m, p)
    BY <1>2, <1>3, <1>5, <1>6 DEF IsList
  <1>8. QED
    BY <1>7 DEF p

LEMMA EmptyLen ==
  ASSUME NEW q \in Seq(Msg)
  PROVE  q = <<>> <=> Len(q) = 0
  OBVIOUS

\* A list without its first message.
LEMMA ListPop ==
  ASSUME NEW memory, NEW memory2, NEW head, NEW q, IsList(memory, head, q), q # <<>>,
         \A x \in Members(q) \ {head} : memory2[x].priv = memory[x].priv
  PROVE  /\ head \in Members(q)
         /\ IsList(memory2, memory[head].priv, Tail(q))
         /\ Members(Tail(q)) = Members(q) \ {head}
         /\ Len(Tail(q)) = Len(q) - 1
         /\ memory[head].priv = NULL <=> Tail(q) = <<>>
  <1> DEFINE p == Tail(q)
  <1>1. q \in Seq(Msg) /\ Len(q) \in Nat /\ Len(q) # 0
    BY DEF IsList
  <1>2. /\ p \in Seq(Msg)
        /\ Len(p) = Len(q) - 1
        /\ \A i \in 1 .. Len(p) : p[i] = q[i + 1]
        /\ p = <<>> <=> Len(p) = 0
    <2>1. p \in Seq(Msg) /\ Len(p) = Len(q) - 1
      BY <1>1
    <2>2. \A i \in 1 .. Len(p) : p[i] = q[i + 1]
      BY <1>1
    <2> HIDE DEF p
    <2>3. p = <<>> <=> Len(p) = 0
      BY <2>1, EmptyLen
    <2>4. QED
      BY <2>1, <2>2, <2>3
  <1> HIDE DEF p
  <1>3. head = q[1] /\ 1 \in 1 .. Len(q)
    BY <1>1 DEF IsList
  <1>4. \A i \in 1 .. Len(q) : q[i] \in Members(q) /\ (i # 1 => q[i] # head)
    <2>1. \A i \in 1 .. Len(q) : q[i] \in Members(q)
      BY <1>1, MembersType
    <2>2. \A i \in 1 .. Len(q) : i # 1 => q[i] # head
      BY <1>3 DEF IsList
    <2>3. QED
      BY <2>1, <2>2
  <1>5. memory[head].priv = IF p = <<>> THEN NULL ELSE p[1]
    <2>1. memory[head].priv = IF 1 = Len(q) THEN NULL ELSE q[1 + 1]
      BY <1>3 DEF IsList
    <2>2. 1 # Len(q) => 1 \in 1 .. Len(p) /\ p[1] = q[1 + 1]
      BY <1>1, <1>2
    <2>3. 1 = Len(q) <=> p = <<>>
      BY <1>1, <1>2
    <2>4. QED
      BY <2>1, <2>2, <2>3
  <1>6. ASSUME NEW i \in 1 .. Len(p)
        PROVE  memory2[p[i]].priv = IF i = Len(p) THEN NULL ELSE p[i + 1]
    <2>1. i + 1 \in 1 .. Len(q) /\ i + 1 # 1 /\ p[i] = q[i + 1]
      BY <1>1, <1>2
    <2>2. memory2[p[i]].priv = memory[q[i + 1]].priv
      BY <1>4, <2>1
    <2>3. memory[q[i + 1]].priv = IF i + 1 = Len(q) THEN NULL ELSE q[i + 1 + 1]
      BY <2>1 DEF IsList
    <2>4. i # Len(p) => p[i + 1] = q[i + 1 + 1]
      BY <1>1, <1>2
    <2>5. i + 1 = Len(q) <=> i = Len(p)
      BY <1>1, <1>2
    <2>6. QED
      BY <2>2, <2>3, <2>4, <2>5
  <1>7. ASSUME NEW i \in 1 .. Len(p), NEW j \in 1 .. Len(p), p[i] = p[j]
        PROVE  i = j
    <2>1. i + 1 \in 1 .. Len(q) /\ j + 1 \in 1 .. Len(q) /\ q[i + 1] = q[j + 1]
      BY <1>1, <1>2, <1>7
    <2>2. i + 1 = j + 1
      BY <2>1 DEF IsList
    <2>3. QED
      BY <1>1, <1>2, <2>2
  <1>8. IsList(memory2, memory[head].priv, p)
    BY <1>2, <1>5, <1>6, <1>7 DEF IsList
  <1>9. Members(p) = Members(q) \ {head}
    <2>1. ASSUME NEW i \in 1 .. Len(p)  PROVE p[i] \in Members(q) \ {head}
      <3>1. i + 1 \in 1 .. Len(q) /\ i + 1 # 1 /\ p[i] = q[i + 1]
        BY <1>1, <1>2
      <3>2. QED
        BY <1>4, <3>1
    <2>2. ASSUME NEW i \in 1 .. Len(q), q[i] # head  PROVE q[i] \in Members(p)
      <3>1. i - 1 \in 1 .. Len(p) /\ i - 1 + 1 = i
        BY <1>1, <1>2, <1>3, <2>2
      <3>2. p[i - 1] = q[i]
        BY <1>2, <3>1
      <3>3. QED
        BY <3>1, <3>2 DEF Members
    <2>3. QED
      BY <2>1, <2>2 DEF Members
  <1>10. memory[head].priv = NULL <=> p = <<>>
    <2>1. p # <<>> => p[1] \in Msg
      BY <1>1, <1>2
    <2>2. QED
      BY <1>5, <2>1, NullAssumption
  <1>11. QED
    BY <1>2, <1>3, <1>4, <1>8, <1>9, <1>10 DEF p

LEMMA AppendMembers ==
  ASSUME NEW q \in Seq(Msg), NEW m \in Msg
  PROVE  /\ Members(Append(q, m)) = Members(q) \cup {m}
         /\ LastOf(Append(q, m)) = m
  <1> DEFINE p == Append(q, m)
  <1>1. /\ p \in Seq(Msg) /\ Len(q) \in Nat
        /\ Len(p) = Len(q) + 1
        /\ p[Len(p)] = m
        /\ \A i \in 1 .. Len(q) : p[i] = q[i]
    OBVIOUS
  <1> HIDE DEF p
  <1>2. p # <<>> /\ LastOf(p) = m
    BY <1>1 DEF LastOf
  <1>3. Members(p) = Members(q) \cup {m}
    <2>1. ASSUME NEW i \in 1 .. Len(p)  PROVE p[i] \in Members(q) \cup {m}
      <3>1. i = Len(p) \/ i \in 1 .. Len(q)
        BY <1>1
      <3>2. QED
        BY <1>1, <3>1 DEF Members
    <2>2. ASSUME NEW i \in 1 .. Len(q)  PROVE q[i] \in Members(p)
      <3>1. i \in 1 .. Len(p)
        BY <1>1
      <3>2. QED
        BY <1>1, <3>1 DEF Members
    <2>3. m \in Members(p)
      <3>1. Len(p) \in 1 .. Len(p)
        BY <1>1
      <3>2. QED
        BY <1>1, <3>1 DEF Members
    <2>4. QED
      BY <2>1, <2>2, <2>3 DEF Members
  <1>4. QED
    BY <1>2, <1>3 DEF p

\* A list with a message linked to its last one.
LEMMA ListAppend ==
  ASSUME NEW memory, NEW memory2, NEW head, NEW q, NEW m \in Msg,
         IsList(memory, head, q), m \notin Members(q), memory2[m].priv = NULL,
         q # <<>> => memory2[LastOf(q)].priv = m,
         \A x \in Members(q) \ {LastOf(q)} : memory2[x].priv = memory[x].priv
  PROVE  IsList(memory2, IF q = <<>> THEN m ELSE head, Append(q, m))
  <1> DEFINE p == Append(q, m)
  <1>1. q \in Seq(Msg) /\ Len(q) \in Nat /\ (q = <<>> <=> Len(q) = 0)
    BY DEF IsList
  <1>2. /\ p \in Seq(Msg)
        /\ Len(p) = Len(q) + 1
        /\ p[Len(p)] = m
        /\ \A i \in 1 .. Len(q) : p[i] = q[i]
    BY <1>1
  <1> HIDE DEF p
  <1>3. p # <<>>
    BY <1>1, <1>2
  <1>4. \A i \in 1 .. Len(q) : q[i] \in Members(q) /\ q[i] # m
    BY <1>1, MembersType
  <1>5. (IF q = <<>> THEN m ELSE head) = p[1]
    BY <1>1, <1>2 DEF IsList
  <1>6. ASSUME NEW i \in 1 .. Len(p)
        PROVE  memory2[p[i]].priv = IF i = Len(p) THEN NULL ELSE p[i + 1]
    <2>1. CASE i = Len(p)
      BY <1>2, <2>1
    <2>2. CASE i = Len(q) /\ i # Len(p)
      <3>1. q # <<>> /\ p[i] = q[Len(q)] /\ p[i + 1] = m
        BY <1>1, <1>2, <2>2
      <3>2. QED
        BY <2>2, <3>1 DEF LastOf
    <2>3. CASE i # Len(q) /\ i # Len(p)
      <3>1. i \in 1 .. Len(q) /\ i + 1 \in 1 .. Len(q) /\ Len(q) \in 1 .. Len(q)
        BY <1>1, <1>2, <2>3
      <3>2. p[i] = q[i] /\ p[i + 1] = q[i + 1] /\ q # <<>>
        BY <1>1, <1>2, <3>1
      <3>3. q[i] # LastOf(q)
        BY <2>3, <3>1, <3>2 DEF LastOf, IsList
      <3>4. memory2[q[i]].priv = memory[q[i]].priv
        BY <1>4, <3>1, <3>3
      <3>5. memory[q[i]].priv = q[i + 1]
        BY <2>3, <3>1 DEF IsList
      <3>6. QED
        BY <2>3, <3>2, <3>4, <3>5
    <2>4. QED
      BY <2>1, <2>2, <2>3
  <1>7. ASSUME NEW i \in 1 .. Len(p), NEW j \in 1 .. Len(p), p[i] = p[j]
        PROVE  i = j
    <2>1. \A k \in 1 .. Len(p) : k = Len(p) \/ (k \in 1 .. Len(q) /\ p[k] = q[k])
      BY <1>1, <1>2
    <2>2. CASE i \in 1 .. Len(q) /\ j \in 1 .. Len(q)
      <3>1. q[i] = q[j]
        BY <1>2, <1>7, <2>2
      <3>2. QED
        BY <2>2, <3>1 DEF IsList
    <2>3. CASE i = Len(p) \/ j = Len(p)
      BY <1>2, <1>4, <1>7, <2>1, <2>3
    <2>4. QED
      BY <2>1, <2>2, <2>3
  <1>8. IsList(memory2, IF q = <<>> THEN m ELSE head, p)
    BY <1>2, <1>3, <1>5, <1>6, <1>7 DEF IsList
  <1>9. QED
    BY <1>8 DEF p

-----------------------------------------------------------------------------
(* The invariant, for the sequences rq and sq that the queues stand for.   *)

\* Both queues of every hart are lists, counted and ended as the fields say.
ListsAre(rq, sq) ==
  /\ rq \in [Harts -> Seq(Msg)]
  /\ sq \in [Harts -> Seq(Msg)]
  /\ \A h \in Harts :
       /\ IsList(mem, req_head[h], rq[h])
       /\ IsList(mem, resp_head[h], sq[h])
       /\ req_size[h] = Len(rq[h])
       /\ resp_tail[h] = LastOf(sq[h])

\* A message is in one place: in the supervisor's hands or in one queue.
Apart(rq, sq, free) ==
  /\ \A m \in Msg : m \in free \/ \E h \in Harts : m \in Members(rq[h]) \cup Members(sq[h])
  /\ \A h \in Harts : \A m \in free : m \notin Members(rq[h]) /\ m \notin Members(sq[h])
  /\ \A h, k \in Harts : \A m \in Members(rq[h]) : m \notin Members(sq[k])
  /\ \A h, k \in Harts : \A m \in Members(rq[h]) : m \in Members(rq[k]) => h = k
  /\ \A h, k \in Harts : \A m \in Members(sq[h]) : m \in Members(sq[k]) => h = k

\* All that waits in a request queue is a UART READ.
OnlyReads(rq) ==
  \A h \in Harts : \A m \in Members(rq[h]) : mem[m].dev = "bcd" /\ mem[m].cmd = "READ"

QueuesAre(rq, sq) == ListsAre(rq, sq) /\ Apart(rq, sq, owned) /\ OnlyReads(rq)

\* The sequences are those a walk finds.
Requests == [h \in Harts |-> RequestQueue(h)]
Responses == [h \in Harts |-> ResponseQueue(h)]
QueueInv == QueuesAre(Requests, Responses)

\* The characters of the responses and of the FIFO: none is later than the last
\* one typed, and they are in order.
CharsAre(sq) ==
  /\ \A i \in 1 .. Len(rx) : rx[i] <= typed
  /\ \A i, j \in 1 .. Len(rx) : i < j => rx[i] < rx[j]
  /\ \A h \in Harts : \A m \in Members(sq[h]) :
       /\ mem[m].data <= typed
       /\ \A j \in 1 .. Len(rx) : mem[m].data >= 0 => mem[m].data < rx[j]
  /\ \A h \in Harts : \A i, j \in 1 .. Len(sq[h]) :
       i < j /\ mem[sq[h][i]].data >= 0 /\ mem[sq[h][j]].data >= 0
         => mem[sq[h][i]].data < mem[sq[h][j]].data
CharsInv == CharsAre(Responses)

LEMMA WalksReturn ==
  ASSUME NEW rq, NEW sq, ListsAre(rq, sq)
  PROVE  Requests = rq /\ Responses = sq
  <1>1. \A h \in Harts : RequestQueue(h) = rq[h] /\ ResponseQueue(h) = sq[h]
    BY ChainOfList DEF ListsAre, RequestQueue, ResponseQueue
  <1>2. QED
    BY <1>1 DEF ListsAre, Requests, Responses

LEMMA WalksReturnNext ==
  ASSUME NEW rq, NEW sq, ListsAre(rq, sq)'
  PROVE  Requests' = rq /\ Responses' = sq
  <1>1. \A h \in Harts : RequestQueue(h)' = rq[h] /\ ResponseQueue(h)' = sq[h]
    BY ChainOfList DEF ListsAre, RequestQueue, ResponseQueue
  <1>2. QED
    BY <1>1 DEF ListsAre, Requests, Responses

\* A step that leaves the messages and the queue heads alone.
LEMMA QueuesFrame ==
  ASSUME NEW rq, NEW sq, QueuesAre(rq, sq), UNCHANGED queueVars
  PROVE  QueuesAre(rq, sq)'
  BY DEF QueuesAre, ListsAre, Apart, OnlyReads, queueVars

\* What an answer does to memory.
LEMMA RespondWords ==
  ASSUME TypeOK, NEW h \in Harts, NEW m \in Msg, NEW w \in Words,
         Respond(h, m, w, mem), resp_tail[h] # m
  PROVE  /\ mem'[m].priv = NULL
         /\ mem'[m].dev = w.dev /\ mem'[m].cmd = w.cmd /\ mem'[m].data = w.data
         /\ resp_tail[h] # NULL => mem'[resp_tail[h]].priv = m
         /\ \A x \in Msg \ {m} :
              /\ mem'[x].dev = mem[x].dev /\ mem'[x].cmd = mem[x].cmd
              /\ mem'[x].data = mem[x].data
              /\ x # resp_tail[h] => mem'[x].priv = mem[x].priv
  <1> DEFINE linked == [mem EXCEPT ![m] = Unlinked(w)]
  <1>1. /\ mem \in [Msg -> Words]
        /\ resp_tail[h] = NULL \/ resp_tail[h] \in Msg
    BY DEF TypeOK, MsgPtr
  <1>2. linked \in [Msg -> Words]
    BY <1>1 DEF Unlinked, Words, MsgPtr
  <1>3. linked[m] = Unlinked(w) /\ \A x \in Msg \ {m} : linked[x] = mem[x]
    BY <1>1
  <1>4. /\ Unlinked(w).priv = NULL /\ Unlinked(w).dev = w.dev
        /\ Unlinked(w).cmd = w.cmd /\ Unlinked(w).data = w.data
    BY DEF Unlinked, Words
  <1>5. mem' = IF resp_tail[h] # NULL THEN [linked EXCEPT ![resp_tail[h]].priv = m] ELSE linked
    BY DEF Respond
  <1> HIDE DEF linked
  <1>6. CASE resp_tail[h] = NULL
    <2>1. mem' = linked
      BY <1>5, <1>6
    <2>2. QED
      BY <1>3, <1>4, <1>6, <2>1
  <1>7. CASE resp_tail[h] \in Msg
    <2>1. resp_tail[h] # NULL
      BY <1>7, NullAssumption
    <2>2. mem' = [linked EXCEPT ![resp_tail[h]] = [linked[resp_tail[h]] EXCEPT !.priv = m]]
      BY <1>5, <2>1
    <2>3. /\ mem'[resp_tail[h]] = [linked[resp_tail[h]] EXCEPT !.priv = m]
          /\ \A x \in Msg : x # resp_tail[h] => mem'[x] = linked[x]
      BY <1>2, <1>7, <2>2
    <2>4. linked[resp_tail[h]] \in Words
      BY <1>2, <1>7
    <2>5. /\ mem'[resp_tail[h]].priv = m
          /\ mem'[resp_tail[h]].dev = linked[resp_tail[h]].dev
          /\ mem'[resp_tail[h]].cmd = linked[resp_tail[h]].cmd
          /\ mem'[resp_tail[h]].data = linked[resp_tail[h]].data
      BY <2>3, <2>4 DEF Words
    <2>6. QED
      BY <1>3, <1>4, <2>3, <2>5
  <1>8. QED
    BY <1>1, <1>6, <1>7

\* Appending a message that is in no queue to the responses of hart h; rq are
\* the requests as the step leaves them.
LEMMA RespondQueues ==
  ASSUME TypeOK, NEW h \in Harts, NEW m \in Msg, NEW w \in Words,
         Respond(h, m, w, mem),
         NEW rq \in [Harts -> Seq(Msg)], NEW sq \in [Harts -> Seq(Msg)], NEW free \in SUBSET Msg,
         \A k \in Harts : /\ IsList(mem, req_head'[k], rq[k])
                          /\ req_size'[k] = Len(rq[k])
                          /\ IsList(mem, resp_head[k], sq[k])
                          /\ resp_tail[k] = LastOf(sq[k]),
         Apart(rq, sq, free \cup {m}), m \notin free, owned' = free,
         OnlyReads(rq)
  PROVE  QueuesAre(rq, [sq EXCEPT ![h] = Append(@, m)])'
  <1> DEFINE sq2 == [sq EXCEPT ![h] = Append(@, m)]
  <1>1. /\ \A k \in Harts : Members(rq[k]) \subseteq Msg /\ Members(sq[k]) \subseteq Msg
        /\ \A k \in Harts : m \notin Members(rq[k]) /\ m \notin Members(sq[k])
    BY MembersType DEF Apart
  <1>2. resp_tail[h] = LastOf(sq[h]) /\ (sq[h] = <<>> <=> resp_tail[h] = NULL)
        /\ (sq[h] # <<>> => LastOf(sq[h]) \in Members(sq[h]))
    <2>1. sq[h] \in Seq(Msg)
      OBVIOUS
    <2>2. sq[h] # <<>> => Len(sq[h]) \in 1 .. Len(sq[h])
      BY <2>1
    <2>3. sq[h] # <<>> => LastOf(sq[h]) \in Members(sq[h]) /\ LastOf(sq[h]) # NULL
      BY <1>1, <2>1, <2>2, MembersType, NullAssumption DEF LastOf
    <2>4. QED
      BY <2>3 DEF LastOf
  <1>3. resp_tail[h] # m
    BY <1>1, <1>2, NullAssumption
  <1>4. /\ mem'[m].priv = NULL
        /\ mem'[m].dev = w.dev /\ mem'[m].cmd = w.cmd /\ mem'[m].data = w.data
        /\ resp_tail[h] # NULL => mem'[resp_tail[h]].priv = m
        /\ \A x \in Msg \ {m} :
             /\ mem'[x].dev = mem[x].dev /\ mem'[x].cmd = mem[x].cmd
             /\ mem'[x].data = mem[x].data
             /\ x # resp_tail[h] => mem'[x].priv = mem[x].priv
    BY <1>3, RespondWords
  <1>5. /\ resp_tail' = [resp_tail EXCEPT ![h] = m]
        /\ resp_head' = IF resp_tail[h] # NULL THEN resp_head ELSE [resp_head EXCEPT ![h] = m]
    BY DEF Respond
  <1>6. \A k \in Harts : \A x \in Members(rq[k]) : mem'[x].priv = mem[x].priv
    <2>1. \A k \in Harts : \A x \in Members(rq[k]) : x \notin Members(sq[h])
      BY DEF Apart
    <2>2. \A k \in Harts : \A x \in Members(rq[k]) : x # resp_tail[h] /\ x \in Msg \ {m}
      BY <1>1, <1>2, <2>1, NullAssumption
    <2>3. QED
      BY <1>4, <2>2
  <1>7. \A k \in Harts : IsList(mem', req_head'[k], rq[k])
    BY <1>6, ListFrame
  <1>8. \A k \in Harts : k # h => IsList(mem', resp_head'[k], sq[k])
    <2>1. ASSUME NEW k \in Harts, k # h
          PROVE  \A x \in Members(sq[k]) : mem'[x].priv = mem[x].priv
      <3>1. \A x \in Members(sq[k]) : x \notin Members(sq[h])
        BY <2>1 DEF Apart
      <3>2. QED
        BY <1>1, <1>2, <1>4, <3>1, NullAssumption
    <2>2. \A k \in Harts : k # h => resp_head'[k] = resp_head[k]
      BY <1>5 DEF TypeOK
    <2>3. QED
      BY <2>1, <2>2, ListFrame
  <1>9. /\ IsList(mem', resp_head'[h], Append(sq[h], m))
        /\ Members(Append(sq[h], m)) = Members(sq[h]) \cup {m}
        /\ LastOf(Append(sq[h], m)) = m
    <2>1. \A x \in Members(sq[h]) \ {LastOf(sq[h])} : mem'[x].priv = mem[x].priv
      BY <1>1, <1>2, <1>4
    <2>2. sq[h] # <<>> => mem'[LastOf(sq[h])].priv = m
      BY <1>2, <1>4
    <2>3. resp_head'[h] = IF sq[h] = <<>> THEN m ELSE resp_head[h]
      BY <1>2, <1>5 DEF TypeOK
    <2>4. IsList(mem, resp_head[h], sq[h]) /\ m \notin Members(sq[h])
      BY <1>1
    <2>5. mem'[m].priv = NULL
      BY <1>4
    <2>6. /\ IsList(mem', IF sq[h] = <<>> THEN m ELSE resp_head[h], Append(sq[h], m))
          /\ Members(Append(sq[h], m)) = Members(sq[h]) \cup {m}
          /\ LastOf(Append(sq[h], m)) = m
      <3> DEFINE q == sq[h]
                 head == resp_head[h]
                 memory == mem
                 memory2 == mem'
      <3>1. /\ memory2[m].priv = NULL
            /\ q # <<>> => memory2[LastOf(q)].priv = m
            /\ \A x \in Members(q) \ {LastOf(q)} : memory2[x].priv = memory[x].priv
            /\ IsList(memory, head, q) /\ m \notin Members(q)
        BY <2>1, <2>2, <2>4, <2>5
      <3> HIDE DEF q, head, memory, memory2
      <3>2. IsList(memory2, IF q = <<>> THEN m ELSE head, Append(q, m))
        BY <3>1, ListAppend
      <3>3. QED
        BY <3>2, AppendMembers DEF q, head, memory, memory2
    <2>7. QED
      BY <2>3, <2>6
  <1>10. /\ sq2 \in [Harts -> Seq(Msg)]
         /\ sq2[h] = Append(sq[h], m)
         /\ \A k \in Harts : k # h => sq2[k] = sq[k]
    OBVIOUS
  <1>11. \A k \in Harts : resp_tail'[k] = LastOf(sq2[k])
    BY <1>5, <1>9, <1>10 DEF TypeOK
  <1>12. \A k \in Harts : \A x : x \in Members(sq2[k]) <=> x \in Members(sq[k]) \/ (k = h /\ x = m)
    BY <1>9, <1>10
  <1> HIDE DEF sq2
  <1>13. ListsAre(rq, sq2)'
    BY <1>7, <1>8, <1>9, <1>10, <1>11 DEF ListsAre
  <1>14. Apart(rq, sq2, owned)'
    <2>1. \A x \in Msg : x \in free \/ \E k \in Harts : x \in Members(rq[k]) \cup Members(sq2[k])
      BY <1>12 DEF Apart
    <2>2. \A k \in Harts : \A x \in free : x \notin Members(rq[k]) /\ x \notin Members(sq2[k])
      BY <1>12 DEF Apart
    <2>3. \A j, k \in Harts : \A x \in Members(rq[j]) : x \notin Members(sq2[k])
      BY <1>1, <1>12 DEF Apart
    <2>4. \A j, k \in Harts : \A x \in Members(rq[j]) : x \in Members(rq[k]) => j = k
      BY DEF Apart
    <2>5. \A j, k \in Harts : \A x \in Members(sq2[j]) : x \in Members(sq2[k]) => j = k
      BY <1>1, <1>12 DEF Apart
    <2>6. QED
      BY <2>1, <2>2, <2>3, <2>4, <2>5 DEF Apart
  <1>15. OnlyReads(rq)'
    BY <1>1, <1>4 DEF OnlyReads
  <1>16. QED
    BY <1>13, <1>14, <1>15 DEF QueuesAre, sq2

-----------------------------------------------------------------------------
(* What each handler does to the sequences.                                *)

LEMMA PostQueues ==
  ASSUME TypeOK, NEW rq, NEW sq, QueuesAre(rq, sq),
         NEW h \in Harts, NEW m \in Msg, UartRead(h, m)
  PROVE  QueuesAre([rq EXCEPT ![h] = <<m>> \o @], sq)'
  <1> DEFINE rq2 == [rq EXCEPT ![h] = <<m>> \o @]
             w == [Request("bcd", "READ") EXCEPT !.priv = req_head[h]]
  <1>1. /\ m \in owned /\ owned' = owned \ {m}
        /\ mem' = [mem EXCEPT ![m] = w]
        /\ req_head' = [req_head EXCEPT ![h] = m]
        /\ req_size' = [req_size EXCEPT ![h] = @ + 1]
        /\ UNCHANGED <<resp_head, resp_tail>>
    BY DEF UartRead
  <1>2. w.priv = req_head[h] /\ w.dev = "bcd" /\ w.cmd = "READ"
    BY DEF Request
  <1> HIDE DEF w
  <1>3. mem'[m] = w /\ \A x \in Msg \ {m} : mem'[x] = mem[x]
    BY <1>1 DEF TypeOK
  <1>4. ListsAre(rq, sq) /\ Apart(rq, sq, owned) /\ OnlyReads(rq)
    BY DEF QueuesAre
  <1>5. \A k \in Harts : /\ m \notin Members(rq[k]) /\ Members(rq[k]) \subseteq Msg
                         /\ m \notin Members(sq[k]) /\ Members(sq[k]) \subseteq Msg
    BY <1>1, <1>4, MembersType DEF Apart, ListsAre
  <1>6. \A k \in Harts : /\ IsList(mem', req_head[k], rq[k])
                         /\ IsList(mem', resp_head[k], sq[k])
    BY <1>3, <1>4, <1>5, ListFrame DEF ListsAre
  <1>7. /\ IsList(mem', m, <<m>> \o rq[h])
        /\ Members(<<m>> \o rq[h]) = Members(rq[h]) \cup {m}
        /\ Len(<<m>> \o rq[h]) = Len(rq[h]) + 1
    <2> DEFINE q == rq[h]
               head == req_head[h]
               memory == mem
               memory2 == mem'
    <2>1. /\ IsList(memory, head, q) /\ m \notin Members(q) /\ memory2[m].priv = head
          /\ \A x \in Members(q) : memory2[x].priv = memory[x].priv
      BY <1>2, <1>3, <1>4, <1>5 DEF ListsAre
    <2> HIDE DEF q, head, memory, memory2
    <2>2. IsList(memory2, m, <<m>> \o q)
      BY <2>1, ListPush
    <2>3. q \in Seq(Msg)
      BY <2>1 DEF IsList
    <2>4. QED
      BY <2>2, <2>3, PushMembers DEF q, head, memory, memory2
  <1>8. /\ rq2 \in [Harts -> Seq(Msg)]
        /\ rq2[h] = <<m>> \o rq[h]
        /\ \A k \in Harts : k # h => rq2[k] = rq[k]
    BY <1>4 DEF ListsAre
  <1>9. \A k \in Harts : \A x : x \in Members(rq2[k]) <=> x \in Members(rq[k]) \/ (k = h /\ x = m)
    BY <1>7, <1>8
  <1> HIDE DEF rq2
  <1>10. \A k \in Harts : IsList(mem', req_head'[k], rq2[k]) /\ req_size'[k] = Len(rq2[k])
    BY <1>1, <1>4, <1>6, <1>7, <1>8 DEF TypeOK, ListsAre
  <1>11. ListsAre(rq2, sq)'
    BY <1>1, <1>4, <1>6, <1>8, <1>10 DEF ListsAre
  <1>12. Apart(rq2, sq, owned)'
    <2>1. \A x \in Msg : x \in owned' \/ \E k \in Harts : x \in Members(rq2[k]) \cup Members(sq[k])
      BY <1>1, <1>4, <1>9 DEF Apart
    <2>2. \A k \in Harts : \A x \in owned' : x \notin Members(rq2[k]) /\ x \notin Members(sq[k])
      BY <1>1, <1>4, <1>9 DEF Apart
    <2>3. \A j, k \in Harts : \A x \in Members(rq2[j]) : x \notin Members(sq[k])
      BY <1>4, <1>5, <1>9 DEF Apart
    <2>4. \A j, k \in Harts : \A x \in Members(rq2[j]) : x \in Members(rq2[k]) => j = k
      BY <1>4, <1>5, <1>9 DEF Apart
    <2>5. \A j, k \in Harts : \A x \in Members(sq[j]) : x \in Members(sq[k]) => j = k
      BY <1>4 DEF Apart
    <2>6. QED
      BY <2>1, <2>2, <2>3, <2>4, <2>5 DEF Apart
  <1>13. OnlyReads(rq2)'
    BY <1>2, <1>3, <1>4, <1>5, <1>9 DEF OnlyReads
  <1>14. QED
    BY <1>11, <1>12, <1>13 DEF QueuesAre, rq2

LEMMA AnswerQueues ==
  ASSUME TypeOK, NEW rq, NEW sq, QueuesAre(rq, sq),
         NEW h \in Harts, NEW m \in Msg, NEW dev \in Dev, NEW cmd \in Cmd,
         m \in owned, owned' = owned \ {m},
         McallRespond(h, m, Request(dev, cmd), ACK)
  PROVE  QueuesAre(rq, [sq EXCEPT ![h] = Append(@, m)])'
  <1> DEFINE w == [Request(dev, cmd) EXCEPT !.data = ACK]
  <1>1. w \in Words
    BY RequestType DEF Words, Data
  <1>2. Respond(h, m, w, mem) /\ UNCHANGED <<req_head, req_size>>
    BY DEF McallRespond
  <1> HIDE DEF w
  <1>3. ListsAre(rq, sq) /\ OnlyReads(rq)
    BY DEF QueuesAre
  <1>4. Apart(rq, sq, (owned \ {m}) \cup {m})
    <2>1. (owned \ {m}) \cup {m} = owned
      OBVIOUS
    <2>2. QED
      BY <2>1 DEF QueuesAre
  <1>5. owned \ {m} \in SUBSET Msg /\ m \notin owned \ {m}
    BY DEF TypeOK
  <1>6. rq \in [Harts -> Seq(Msg)] /\ sq \in [Harts -> Seq(Msg)]
    BY <1>3 DEF ListsAre
  <1>7. \A k \in Harts : /\ IsList(mem, req_head'[k], rq[k])
                         /\ req_size'[k] = Len(rq[k])
                         /\ IsList(mem, resp_head[k], sq[k])
                         /\ resp_tail[k] = LastOf(sq[k])
    BY <1>2, <1>3 DEF ListsAre
  <1>8. QED
    BY <1>1, <1>2, <1>3, <1>4, <1>5, <1>6, <1>7, RespondQueues

LEMMA CollectQueues ==
  ASSUME TypeOK, NEW rq, NEW sq, QueuesAre(rq, sq),
         NEW h \in Harts, ReceiveResponse(h)
  PROVE  /\ QueuesAre(rq, [sq EXCEPT ![h] = Tail(@)])'
         /\ sq[h] # <<>>
         /\ resp_head[h] \in Members(sq[h])
         /\ Members(Tail(sq[h])) = Members(sq[h]) \ {resp_head[h]}
         /\ \A x \in Msg \ {resp_head[h]} : mem'[x] = mem[x]
  <1> DEFINE sq2 == [sq EXCEPT ![h] = Tail(@)]
             m == resp_head[h]
             next == mem[m].priv
  <1>1. /\ m # NULL
        /\ owned' = owned \cup {m}
        /\ mem' = [mem EXCEPT ![m] = Blank]
        /\ resp_head' = [resp_head EXCEPT ![h] = next]
        /\ resp_tail' = IF next = NULL THEN [resp_tail EXCEPT ![h] = NULL] ELSE resp_tail
        /\ UNCHANGED <<req_head, req_size>>
    BY DEF ReceiveResponse, NoMoreResponses
  <1>2. ListsAre(rq, sq) /\ Apart(rq, sq, owned) /\ OnlyReads(rq)
    BY DEF QueuesAre
  <1>3. IsList(mem, m, sq[h]) /\ sq[h] # <<>> /\ sq[h] \in Seq(Msg)
    BY <1>1, <1>2 DEF ListsAre, IsList
  <1>4. m \in Msg
    BY <1>1 DEF TypeOK, MsgPtr
  <1> HIDE DEF m
  <1>5. \A x \in Msg \ {m} : mem'[x] = mem[x]
    BY <1>1, <1>4 DEF TypeOK
  <1>6. \A k \in Harts : Members(rq[k]) \subseteq Msg /\ Members(sq[k]) \subseteq Msg
    BY <1>2, MembersType DEF ListsAre
  <1>7. /\ m \in Members(sq[h])
        /\ IsList(mem', next, Tail(sq[h]))
        /\ Members(Tail(sq[h])) = Members(sq[h]) \ {m}
        /\ next = NULL <=> Tail(sq[h]) = <<>>
    <2> DEFINE q == sq[h]
               memory == mem
               memory2 == mem'
    <2>1. /\ IsList(memory, m, q) /\ q # <<>>
          /\ \A x \in Members(q) \ {m} : memory2[x].priv = memory[x].priv
      BY <1>3, <1>5, <1>6
    <2> HIDE DEF q, memory, memory2
    <2>2. /\ m \in Members(q)
          /\ IsList(memory2, memory[m].priv, Tail(q))
          /\ Members(Tail(q)) = Members(q) \ {m}
          /\ memory[m].priv = NULL <=> Tail(q) = <<>>
      BY <2>1, ListPop
    <2>3. QED
      BY <2>2 DEF q, memory, memory2
  <1> HIDE DEF next
  <1>8. \A k \in Harts : m \notin Members(rq[k]) /\ (k # h => m \notin Members(sq[k]))
    BY <1>2, <1>7 DEF Apart
  <1>9. \A k \in Harts : /\ IsList(mem', req_head[k], rq[k])
                         /\ (k # h => IsList(mem', resp_head[k], sq[k]))
    BY <1>2, <1>5, <1>6, <1>8, ListFrame DEF ListsAre
  <1>10. /\ sq2 \in [Harts -> Seq(Msg)]
         /\ sq2[h] = Tail(sq[h])
         /\ \A k \in Harts : k # h => sq2[k] = sq[k]
    BY <1>2, <1>3 DEF ListsAre
  <1>11. \A k \in Harts : \A x : x \in Members(sq2[k]) <=> x \in Members(sq[k]) /\ ~ (k = h /\ x = m)
    BY <1>7, <1>8, <1>10
  <1> HIDE DEF sq2
  <1>12. \A k \in Harts : IsList(mem', resp_head'[k], sq2[k])
    BY <1>1, <1>7, <1>9, <1>10 DEF TypeOK
  <1>13. resp_tail'[h] = LastOf(sq2[h])
    <2>1. CASE next = NULL
      BY <1>1, <1>7, <1>10, <2>1 DEF TypeOK, LastOf
    <2>2. CASE next # NULL
      <3>1. Tail(sq[h]) # <<>> /\ Len(Tail(sq[h])) = Len(sq[h]) - 1 /\ Len(sq[h]) \in Nat
        BY <1>3, <1>7, <2>2
      <3>2. Tail(sq[h]) \in Seq(Msg)
        BY <1>3
      <3>3. Len(Tail(sq[h])) # 0
        BY <3>1, <3>2, EmptyLen
      <3>4. Tail(sq[h])[Len(Tail(sq[h]))] = sq[h][Len(sq[h])]
        BY <1>3, <3>1, <3>3
      <3>5. LastOf(Tail(sq[h])) = LastOf(sq[h])
        BY <1>3, <3>1, <3>4 DEF LastOf
      <3>6. QED
        BY <1>1, <1>2, <1>10, <2>2, <3>5 DEF ListsAre
    <2>3. QED
      BY <2>1, <2>2
  <1>14. \A k \in Harts : resp_tail'[k] = LastOf(sq2[k])
    BY <1>1, <1>2, <1>10, <1>13 DEF TypeOK, ListsAre
  <1>15. ListsAre(rq, sq2)'
    BY <1>1, <1>2, <1>9, <1>10, <1>12, <1>14 DEF ListsAre
  <1>16. Apart(rq, sq2, owned)'
    <2>1. \A x \in Msg : x \in owned' \/ \E k \in Harts : x \in Members(rq[k]) \cup Members(sq2[k])
      BY <1>1, <1>2, <1>11 DEF Apart
    <2>2. \A k \in Harts : \A x \in owned' : x \notin Members(rq[k]) /\ x \notin Members(sq2[k])
      BY <1>1, <1>2, <1>8, <1>11 DEF Apart
    <2>3. \A j, k \in Harts : \A x \in Members(rq[j]) : x \notin Members(sq2[k])
      BY <1>2, <1>11 DEF Apart
    <2>4. \A j, k \in Harts : \A x \in Members(rq[j]) : x \in Members(rq[k]) => j = k
      BY <1>2 DEF Apart
    <2>5. \A j, k \in Harts : \A x \in Members(sq2[j]) : x \in Members(sq2[k]) => j = k
      BY <1>2, <1>11 DEF Apart
    <2>6. QED
      BY <2>1, <2>2, <2>3, <2>4, <2>5 DEF Apart
  <1>17. OnlyReads(rq)'
    BY <1>2, <1>5, <1>6, <1>8 DEF OnlyReads
  <1>18. QED
    BY <1>3, <1>5, <1>7, <1>15, <1>16, <1>17 DEF QueuesAre, sq2, m

\* The newest request, m, gets the character that RBR returns.
ServesFirst(rq, h, m) ==
  /\ m \in Members(rq[h]) /\ Members(Tail(rq[h])) = Members(rq[h]) \ {m}
  /\ mem'[m].data = IF rx = <<>> THEN 0 ELSE Head(rx)
  /\ \A x \in Msg \ {m} : mem'[x].data = mem[x].data
  /\ rx # <<>> => rx' = Tail(rx)

\* Only the newest request is served, so the list is never cut in the middle.
LEMMA ServeQueues ==
  ASSUME TypeOK, NEW rq, NEW sq, QueuesAre(rq, sq),
         NEW h \in Harts, ServeRead(h)
  PROVE  \E m \in Msg :
             /\ QueuesAre([rq EXCEPT ![h] = Tail(@)], [sq EXCEPT ![h] = Append(@, m)])'
             /\ ServesFirst(rq, h, m)
  <1> DEFINE ch == IF rx = <<>> THEN 0 ELSE Head(rx)
             rq2 == [rq EXCEPT ![h] = Tail(@)]
  <1>1. ListsAre(rq, sq) /\ Apart(rq, sq, owned) /\ OnlyReads(rq)
    BY DEF QueuesAre
  <1>2. RequestQueue(h) = rq[h]
    BY <1>1, WalksReturn DEF Requests, ListsAre
  <1>3. /\ IsList(mem, req_head[h], rq[h]) /\ rq[h] \in Seq(Msg) /\ Len(rq[h]) \in Nat
        /\ req_size[h] = Len(rq[h])
        /\ \A k \in Harts : rq[k] \in Seq(Msg) /\ sq[k] \in Seq(Msg)
    <2>1. IsList(mem, req_head[h], rq[h]) /\ req_size[h] = Len(rq[h])
      BY <1>1 DEF ListsAre
    <2>2. \A k \in Harts : rq[k] \in Seq(Msg) /\ sq[k] \in Seq(Msg)
      BY <1>1 DEF ListsAre
    <2>3. QED
      BY <2>1, <2>2
  <1>4. ReadPositions(h) = 1 .. Len(rq[h])
    <2>1. \A i \in 1 .. Len(rq[h]) : mem[rq[h][i]].dev = "bcd" /\ mem[rq[h][i]].cmd = "READ"
      BY <1>1, <1>3, MembersType DEF OnlyReads
    <2>2. QED
      BY <1>2, <1>3, <2>1 DEF ReadPositions
  <1>5. PICK i \in ReadPositions(h), m \in Msg, prev \in MsgPtr :
          /\ \A j \in ReadPositions(h) : i <= j
          /\ m = RequestQueue(h)[i]
          /\ prev = IF i = 1 THEN NULL ELSE RequestQueue(h)[i - 1]
          /\ req_head' = IF prev = NULL THEN [req_head EXCEPT ![h] = mem[m].priv]
                                        ELSE req_head
          /\ Respond(h, m, [mem[m] EXCEPT !.data = ch],
                     IF prev = NULL THEN mem
                                    ELSE [mem EXCEPT ![prev].priv = mem[m].priv])
    BY DEF ServeRead
  <1>6. i = 1
    <2>1. 1 \in ReadPositions(h) /\ i \in 1 .. Len(rq[h])
      BY <1>3, <1>4
    <2>2. i <= 1
      BY <1>5, <2>1
    <2>3. QED
      BY <1>3, <2>1, <2>2
  <1>7. rq[h] # <<>> /\ Len(rq[h]) # 0
    BY <1>3, <1>4, <1>6, EmptyLen
  <1> DEFINE w == [mem[m] EXCEPT !.data = ch]
  <1>8. m = req_head[h] /\ prev = NULL
    BY <1>2, <1>3, <1>5, <1>6, <1>7 DEF IsList
  <1>9. /\ req_head' = [req_head EXCEPT ![h] = mem[m].priv]
        /\ Respond(h, m, w, mem)
    BY <1>5, <1>8
  <1>10. /\ req_size' = [req_size EXCEPT ![h] = @ - 1]
         /\ rx' = IF rx = <<>> THEN rx ELSE Tail(rx)
         /\ owned' = owned
    BY DEF ServeRead
  <1>11. ch \in Data
    <2>1. rx \in Seq(1 .. MaxChars)
      BY DEF TypeOK
    <2>2. rx # <<>> => Head(rx) \in 1 .. MaxChars
      BY <2>1, HeadTail
    <2>3. ch \in 0 .. MaxChars
      BY <2>2, BoundsAssumption
    <2>4. QED
      BY <2>3 DEF Data
  <1> HIDE DEF ch
  <1>12. w \in Words /\ w.data = ch
    <2>1. mem[m] \in Words
      BY <1>8 DEF TypeOK
    <2>2. QED
      BY <1>11, <2>1 DEF Words
  <1> HIDE DEF w
  <1>13. /\ m \in Members(rq[h])
         /\ IsList(mem, mem[m].priv, Tail(rq[h]))
         /\ Members(Tail(rq[h])) = Members(rq[h]) \ {m}
         /\ Len(Tail(rq[h])) = Len(rq[h]) - 1
         /\ Tail(rq[h]) \in Seq(Msg)
    <2> DEFINE q == rq[h]
               memory == mem
    <2>1. IsList(memory, m, q) /\ q # <<>> /\ q \in Seq(Msg)
      BY <1>3, <1>7, <1>8
    <2> HIDE DEF q, memory
    <2>2. /\ m \in Members(q)
          /\ IsList(memory, memory[m].priv, Tail(q))
          /\ Members(Tail(q)) = Members(q) \ {m}
          /\ Len(Tail(q)) = Len(q) - 1
      BY <2>1, ListPop
    <2>3. Tail(q) \in Seq(Msg)
      BY <2>1
    <2>4. QED
      BY <2>2, <2>3 DEF q, memory
  <1>14. /\ rq2 \in [Harts -> Seq(Msg)] /\ sq \in [Harts -> Seq(Msg)]
         /\ rq2[h] = Tail(rq[h])
         /\ \A k \in Harts : k # h => rq2[k] = rq[k]
    BY <1>1, <1>13 DEF ListsAre
  <1>15. \A k \in Harts : \A x : x \in Members(rq2[k]) <=> x \in Members(rq[k]) /\ x # m
    BY <1>1, <1>13, <1>14 DEF Apart
  <1> HIDE DEF rq2
  <1>16. \A k \in Harts : /\ IsList(mem, req_head'[k], rq2[k])
                          /\ req_size'[k] = Len(rq2[k])
                          /\ IsList(mem, resp_head[k], sq[k])
                          /\ resp_tail[k] = LastOf(sq[k])
    BY <1>1, <1>9, <1>10, <1>13, <1>14 DEF TypeOK, ListsAre
  <1>17. Apart(rq2, sq, owned \cup {m}) /\ m \notin owned
    <2>1. \A x \in Msg : x \in owned \cup {m} \/ \E k \in Harts : x \in Members(rq2[k]) \cup Members(sq[k])
      BY <1>1, <1>15 DEF Apart
    <2>2. m \notin owned /\ \A k \in Harts : m \notin Members(sq[k])
      BY <1>1, <1>13 DEF Apart
    <2>3. \A k \in Harts : \A x \in owned \cup {m} : x \notin Members(rq2[k]) /\ x \notin Members(sq[k])
      BY <1>1, <1>15, <2>2 DEF Apart
    <2>4. \A j, k \in Harts : \A x \in Members(rq2[j]) : x \notin Members(sq[k])
      BY <1>1, <1>15 DEF Apart
    <2>5. \A j, k \in Harts : \A x \in Members(rq2[j]) : x \in Members(rq2[k]) => j = k
      BY <1>1, <1>15 DEF Apart
    <2>6. \A j, k \in Harts : \A x \in Members(sq[j]) : x \in Members(sq[k]) => j = k
      BY <1>1 DEF Apart
    <2>7. QED
      BY <2>1, <2>2, <2>3, <2>4, <2>5, <2>6 DEF Apart
  <1>18. OnlyReads(rq2)
    BY <1>1, <1>15 DEF OnlyReads
  <1>19. owned \in SUBSET Msg /\ owned' = owned
    BY <1>10 DEF TypeOK
  <1>20. QueuesAre(rq2, [sq EXCEPT ![h] = Append(@, m)])'
    BY <1>8, <1>9, <1>12, <1>14, <1>16, <1>17, <1>18, <1>19, RespondQueues
  <1>21. resp_tail[h] # m
    <2>1. m \notin Members(sq[h]) /\ sq[h] \in Seq(Msg)
      BY <1>3, <1>17 DEF Apart
    <2>2. sq[h] # <<>> => Len(sq[h]) \in 1 .. Len(sq[h])
      BY <2>1
    <2>3. sq[h] # <<>> => LastOf(sq[h]) \in Members(sq[h])
      BY <2>1, <2>2, MembersType DEF LastOf
    <2>4. QED
      BY <1>8, <1>16, <2>1, <2>3, NullAssumption DEF LastOf
  <1>22. /\ mem'[m].data = w.data
         /\ \A x \in Msg \ {m} : mem'[x].data = mem[x].data
    BY <1>8, <1>9, <1>12, <1>21, RespondWords
  <1>23. QED
    BY <1>10, <1>12, <1>13, <1>20, <1>22 DEF ServesFirst, rq2, ch

LEMMA InitQueues ==
  ASSUME Init
  PROVE  QueuesAre([h \in Harts |-> <<>>], [h \in Harts |-> <<>>])
  <1>1. IsList(mem, NULL, <<>>) /\ Members(<<>>) = {} /\ LastOf(<<>>) = NULL /\ Len(<<>>) = 0
    BY DEF IsList, Members, LastOf
  <1>2. \A h \in Harts : [k \in Harts |-> <<>>][h] = <<>>
    OBVIOUS
  <1>3. ListsAre([h \in Harts |-> <<>>], [h \in Harts |-> <<>>])
    BY <1>1 DEF Init, ListsAre
  <1>4. Apart([h \in Harts |-> <<>>], [h \in Harts |-> <<>>], owned)
    BY <1>1 DEF Init, Apart
  <1>5. OnlyReads([h \in Harts |-> <<>>])
    BY <1>1 DEF OnlyReads
  <1>6. QED
    BY <1>3, <1>4, <1>5 DEF QueuesAre

-----------------------------------------------------------------------------
(* Every step moves at most one message, or takes one hart down.           *)

PanicsStay == \A k \in Harts : Panicked(k)' <=> Panicked(k)
Panicking(h) == ~ Panicked(h) /\ \A k \in Harts : Panicked(k)' <=> Panicked(k) \/ k = h

\* The characters in the messages other than m stay.
DataStay(m) == \A x \in Msg \ {m} : mem'[x].data = mem[x].data

Quiet(rq, sq, rq2, sq2) ==
  /\ rq2 = rq /\ sq2 = sq
  /\ mem' = mem
  /\ \/ UNCHANGED <<rx, typed>> /\ (PanicsStay \/ \E h \in Harts : Panicking(h))
     \/ Type /\ PanicsStay

Posted(rq, sq, rq2, sq2, h, m) ==
  /\ ~ Panicked(h) /\ PanicsStay
  /\ m \in owned
  /\ rq2 = [rq EXCEPT ![h] = <<m>> \o @] /\ sq2 = sq
  /\ DataStay(m) /\ UNCHANGED <<rx, typed>>

Answered(rq, sq, rq2, sq2, h, m) ==
  /\ ~ Panicked(h) /\ PanicsStay
  /\ m \in owned
  /\ rq2 = rq /\ sq2 = [sq EXCEPT ![h] = Append(@, m)]
  /\ DataStay(m) /\ mem'[m].data = ACK /\ UNCHANGED <<rx, typed>>

Collected(rq, sq, rq2, sq2, h) ==
  /\ ~ Panicked(h) /\ PanicsStay
  /\ rq2 = rq /\ sq2 = [sq EXCEPT ![h] = Tail(@)] /\ sq[h] # <<>>
  /\ \A x \in Members(Tail(sq[h])) : mem'[x].data = mem[x].data
  /\ \A k \in Harts \ {h} : \A x \in Members(sq[k]) : mem'[x].data = mem[x].data
  /\ UNCHANGED <<rx, typed>>

Served(rq, sq, rq2, sq2, h, m) ==
  /\ ~ Panicked(h) /\ PanicsStay
  /\ m \in Members(rq[h]) /\ Members(Tail(rq[h])) = Members(rq[h]) \ {m}
  /\ pc[h] = "irq_read"
  /\ rq2 = [rq EXCEPT ![h] = Tail(@)] /\ sq2 = [sq EXCEPT ![h] = Append(@, m)]
  /\ DataStay(m) /\ mem'[m].data = IF rx = <<>> THEN 0 ELSE Head(rx)
  /\ rx # <<>> => rx' = Tail(rx)
  /\ UNCHANGED typed

Moved(rq, sq, rq2, sq2) ==
  \/ Quiet(rq, sq, rq2, sq2)
  \/ \E h \in Harts :
       \/ \E m \in Msg : \/ Posted(rq, sq, rq2, sq2, h, m)
                         \/ Answered(rq, sq, rq2, sq2, h, m)
                         \/ Served(rq, sq, rq2, sq2, h, m)
       \/ Collected(rq, sq, rq2, sq2, h)

LEMMA PanicsGoto ==
  ASSUME TypeOK, NEW h \in Harts, NEW where, Goto(h, where), pc[h] \notin Panics
  PROVE  /\ where \in Panics => Panicking(h)
         /\ where \notin Panics => PanicsStay
  BY DEF TypeOK, Goto, Panicked, Panicking, PanicsStay

LEMMA PanicsUnchanged ==
  ASSUME UNCHANGED pc  PROVE PanicsStay
  BY DEF Panicked, PanicsStay

\* A step that leaves the queues and the UART alone.
LEMMA QuietStep ==
  ASSUME TypeOK, NEW rq, NEW sq, QueuesAre(rq, sq), NEW h \in Harts, NEW where,
         UNCHANGED queueVars, UNCHANGED <<rx, typed>>,
         UNCHANGED pc \/ (Goto(h, where) /\ pc[h] \notin Panics)
  PROVE  \E rq2, sq2 : QueuesAre(rq2, sq2)' /\ Moved(rq, sq, rq2, sq2)
  <1>1. QueuesAre(rq, sq)'
    BY QueuesFrame
  <1>2. PanicsStay \/ Panicking(h)
    BY PanicsGoto, PanicsUnchanged
  <1>3. Quiet(rq, sq, rq, sq)
    BY <1>2 DEF Quiet, queueVars
  <1>4. QED
    BY <1>1, <1>3 DEF Moved

LEMMA AnswerStep ==
  ASSUME TypeOK, NEW rq, NEW sq, QueuesAre(rq, sq),
         NEW h \in Harts, NEW m \in Msg, NEW dev \in Dev, NEW cmd \in Cmd,
         pc[h] = "S", UNCHANGED <<pc, rx, typed>>,
         m \in owned, owned' = owned \ {m},
         McallRespond(h, m, Request(dev, cmd), ACK)
  PROVE  \E rq2, sq2 : QueuesAre(rq2, sq2)' /\ Moved(rq, sq, rq2, sq2)
  <1> DEFINE w == [Request(dev, cmd) EXCEPT !.data = ACK]
  <1>1. QueuesAre(rq, [sq EXCEPT ![h] = Append(@, m)])'
    BY AnswerQueues
  <1>2. w \in Words /\ w.data = ACK
    BY RequestType DEF Words, Data, Request
  <1>3. Respond(h, m, w, mem)
    BY DEF McallRespond
  <1> HIDE DEF w
  <1>4. resp_tail[h] # m
    <2>1. sq[h] \in Seq(Msg) /\ m \notin Members(sq[h]) /\ resp_tail[h] = LastOf(sq[h])
      BY DEF QueuesAre, ListsAre, Apart
    <2>2. sq[h] # <<>> => Len(sq[h]) \in 1 .. Len(sq[h])
      BY <2>1
    <2>3. sq[h] # <<>> => LastOf(sq[h]) \in Members(sq[h])
      BY <2>1, <2>2, MembersType DEF LastOf
    <2>4. QED
      BY <2>1, <2>3, NullAssumption DEF LastOf
  <1>5. mem'[m].data = ACK /\ DataStay(m)
    BY <1>2, <1>3, <1>4, RespondWords DEF DataStay
  <1>6. Answered(rq, sq, rq, [sq EXCEPT ![h] = Append(@, m)], h, m)
    BY <1>5, PanicsUnchanged DEF Answered, Panicked, Panics
  <1>7. QED
    BY <1>1, <1>6 DEF Moved

LEMMA DeviceCallMoves ==
  ASSUME TypeOK, NEW rq, NEW sq, QueuesAre(rq, sq), NEW h \in Harts, DeviceCall(h)
  PROVE  \E rq2, sq2 : QueuesAre(rq2, sq2)' /\ Moved(rq, sq, rq2, sq2)
  <1> DEFINE Goal == \E rq2, sq2 : QueuesAre(rq2, sq2)' /\ Moved(rq, sq, rq2, sq2)
  <1> USE DEF uartVars, Panics
  <1>1. ASSUME NEW m \in Msg, RefuseRequest(h, m)  PROVE Goal
    <2>1. UNCHANGED queueVars /\ UNCHANGED <<rx, typed, pc>>
      BY <1>1 DEF RefuseRequest, vars, queueVars
    <2>2. QED
      BY <2>1, QuietStep
  <1>2. ASSUME NEW m \in Msg, UartRead(h, m)  PROVE Goal
    <2>1. QueuesAre([rq EXCEPT ![h] = <<m>> \o @], sq)'
      BY <1>2, PostQueues
    <2>2. /\ pc[h] = "S" /\ m \in owned /\ UNCHANGED <<pc, rx, typed>>
          /\ mem' = [mem EXCEPT ![m] = [Request("bcd", "READ") EXCEPT !.priv = req_head[h]]]
      BY <1>2 DEF UartRead
    <2>3. DataStay(m)
      BY <2>2 DEF DataStay, TypeOK
    <2>4. Posted(rq, sq, [rq EXCEPT ![h] = <<m>> \o @], sq, h, m)
      BY <2>2, <2>3, PanicsUnchanged DEF Posted, Panicked
    <2>5. QED
      BY <2>1, <2>4 DEF Moved
  <1>3. ASSUME NEW m \in Msg, AnswerAtOnce(h, m)  PROVE Goal
    <2>1. PICK s \in Sends : McallRespond(h, m, Request(s[1], s[2]), ACK)
      BY <1>3 DEF AnswerAtOnce
    <2>2. s[1] \in Dev /\ s[2] \in Cmd
      BY SendsAssumption
    <2>3. pc[h] = "S" /\ m \in owned /\ owned' = owned \ {m} /\ UNCHANGED <<pc, rx, typed>>
      BY <1>3 DEF AnswerAtOnce
    <2>4. QED
      BY <2>1, <2>2, <2>3, AnswerStep
  <1>4. ASSUME NEW m \in Msg, DiskIdentify(h, m)  PROVE Goal
    <2>1. /\ pc[h] = "S" /\ m \in owned /\ UNCHANGED <<rx, typed>>
          /\ \/ /\ owned' = owned \ {m} /\ UNCHANGED pc
                /\ McallRespond(h, m, Request("disk", "IDENTIFY"), ACK)
             \/ UNCHANGED queueVars /\ \E where : Goto(h, where)
      BY <1>4 DEF DiskIdentify
    <2>2. "disk" \in Dev /\ "IDENTIFY" \in Cmd
      BY DEF Dev, Cmd
    <2>3. QED
      BY <2>1, <2>2, AnswerStep, QuietStep
  <1>5. ASSUME NEW m \in Msg, DiskTransfer(h, m)  PROVE Goal
    <2>1. PICK s \in Sends :
            /\ pc[h] = "S" /\ m \in owned /\ UNCHANGED <<rx, typed>>
            /\ \/ /\ owned' = owned \ {m} /\ UNCHANGED pc
                  /\ McallRespond(h, m, Request(s[1], s[2]), ACK)
               \/ UNCHANGED queueVars /\ \E where : Goto(h, where)
      BY <1>5 DEF DiskTransfer
    <2>2. s[1] \in Dev /\ s[2] \in Cmd
      BY SendsAssumption
    <2>3. QED
      BY <2>1, <2>2, AnswerStep, QuietStep
  <1>6. ASSUME NEW m \in Msg, UnsupportedCommand(h, m)  PROVE Goal
    <2>1. /\ pc[h] = "S" /\ UNCHANGED queueVars /\ UNCHANGED <<rx, typed>>
          /\ Goto(h, "panic: bad command")
      BY <1>6 DEF UnsupportedCommand
    <2>2. QED
      BY <2>1, QuietStep
  <1>6a. ASSUME NEW m \in Msg, IdentifyMisaligned(h, m)  PROVE Goal
    <2>1. /\ pc[h] = "S" /\ UNCHANGED queueVars /\ UNCHANGED <<rx, typed>>
          /\ Goto(h, "panic: bad address")
      BY <1>6a DEF IdentifyMisaligned
    <2>2. QED
      BY <2>1, QuietStep
  <1>7. ASSUME ReceiveResponse(h)  PROVE Goal
    <2> DEFINE sq2 == [sq EXCEPT ![h] = Tail(@)]
    <2>1. /\ QueuesAre(rq, sq2)'
          /\ sq[h] # <<>>
          /\ resp_head[h] \in Members(sq[h])
          /\ Members(Tail(sq[h])) = Members(sq[h]) \ {resp_head[h]}
          /\ \A x \in Msg \ {resp_head[h]} : mem'[x] = mem[x]
      BY <1>7, CollectQueues
    <2>2. /\ pc[h] = "S" /\ UNCHANGED <<rx, typed>>
          /\ UNCHANGED pc \/ Goto(h, "dev_resp")
      BY <1>7 DEF ReceiveResponse, NoMoreResponses
    <2>3. PanicsStay
      <3>1. pc[h] \notin Panics /\ "dev_resp" \notin Panics
        BY <2>2
      <3>2. Goto(h, "dev_resp") => PanicsStay
        BY <3>1, PanicsGoto
      <3>3. QED
        BY <2>2, <3>2, PanicsUnchanged
    <2>4. /\ \A k \in Harts : Members(sq[k]) \subseteq Msg
          /\ \A k \in Harts \ {h} : resp_head[h] \notin Members(sq[k])
      BY <2>1, MembersType DEF QueuesAre, ListsAre, Apart
    <2>5. /\ \A x \in Members(Tail(sq[h])) : mem'[x].data = mem[x].data
          /\ \A k \in Harts \ {h} : \A x \in Members(sq[k]) : mem'[x].data = mem[x].data
      BY <2>1, <2>4
    <2>6. Collected(rq, sq, rq, sq2, h)
      BY <2>1, <2>2, <2>3, <2>5 DEF Collected, Panicked
    <2> HIDE DEF sq2
    <2>7. QED
      BY <2>1, <2>6 DEF Moved
  <1>8. ASSUME RecheckIpi(h)  PROVE Goal
    <2>1. /\ pc[h] = "dev_resp" /\ UNCHANGED queueVars /\ UNCHANGED <<rx, typed>>
          /\ Goto(h, "S")
      BY <1>8 DEF RecheckIpi
    <2>2. QED
      BY <2>1, QuietStep
  <1> HIDE DEF Goal
  <1>9. Goal
    BY <1>1, <1>2, <1>3, <1>4, <1>5, <1>6, <1>6a, <1>7, <1>8 DEF DeviceCall
  <1>10. QED
    BY <1>9 DEF Goal

LEMMA IpiCallMoves ==
  ASSUME TypeOK, NEW rq, NEW sq, QueuesAre(rq, sq), NEW h \in Harts, IpiCall(h)
  PROVE  \E rq2, sq2 : QueuesAre(rq2, sq2)' /\ Moved(rq, sq, rq2, sq2)
  <1> USE DEF uartVars, Panics
  <1>1. ASSUME NEW r, SendIpi(h, r)
        PROVE  /\ pc[h] = "S" /\ UNCHANGED queueVars /\ UNCHANGED <<rx, typed>>
               /\ UNCHANGED pc \/ Goto(h, "send_ipi")
    BY <1>1 DEF SendIpi
  <1>2. ASSUME RaiseIpi(h) \/ ClearIpi(h) \/ TakeIpi(h)
        PROVE  /\ pc[h] \in {"S", "send_ipi", "clear_ipi"}
               /\ UNCHANGED queueVars /\ UNCHANGED <<rx, typed>>
               /\ Goto(h, "S") \/ Goto(h, "clear_ipi")
    BY <1>2 DEF RaiseIpi, ClearIpi, TakeIpi
  <1>3. /\ pc[h] \notin Panics /\ UNCHANGED queueVars /\ UNCHANGED <<rx, typed>>
        /\ UNCHANGED pc \/ Goto(h, "S") \/ Goto(h, "send_ipi") \/ Goto(h, "clear_ipi")
    BY <1>1, <1>2 DEF IpiCall
  <1>4. QED
    BY <1>3, QuietStep

LEMMA InterruptMoves ==
  ASSUME TypeOK, NEW rq, NEW sq, QueuesAre(rq, sq), NEW h \in Harts, Interrupt(h)
  PROVE  \E rq2, sq2 : QueuesAre(rq2, sq2)' /\ Moved(rq, sq, rq2, sq2)
  <1> USE DEF uartVars, Panics
  <1>1. CASE ~ ServeRead(h)
    <2>1. /\ pc[h] \in {"S", "irq_check", "irq_read"}
          /\ UNCHANGED queueVars /\ UNCHANGED <<rx, typed>>
          /\ UNCHANGED pc \/ \E where : Goto(h, where)
      BY <1>1 DEF Interrupt, SoftInterrupt, IoInterrupt, CheckReadIrq, NoRecord
    <2>2. QED
      BY <2>1, QuietStep
  <1>2. CASE ServeRead(h)
    <2>1. PICK m \in Msg :
            /\ QueuesAre([rq EXCEPT ![h] = Tail(@)], [sq EXCEPT ![h] = Append(@, m)])'
            /\ ServesFirst(rq, h, m)
      BY <1>2, ServeQueues
    <2>2. pc[h] = "irq_read" /\ Goto(h, "S") /\ UNCHANGED typed
      BY <1>2 DEF ServeRead
    <2>3. PanicsStay
      <3>1. pc[h] \notin Panics /\ "S" \notin Panics
        BY <2>2
      <3>2. QED
        BY <2>2, <3>1, PanicsGoto
    <2>4. Served(rq, sq, [rq EXCEPT ![h] = Tail(@)], [sq EXCEPT ![h] = Append(@, m)], h, m)
      BY <2>1, <2>2, <2>3 DEF Served, ServesFirst, DataStay, Panicked
    <2>5. QED
      BY <2>1, <2>4 DEF Moved
  <1>3. QED
    BY <1>1, <1>2

LEMMA NextMoves ==
  ASSUME TypeOK, NEW rq, NEW sq, QueuesAre(rq, sq), [Next]_vars
  PROVE  \E rq2, sq2 : QueuesAre(rq2, sq2)' /\ Moved(rq, sq, rq2, sq2)
  <1>1. CASE Type
    <2>1. UNCHANGED <<pc, mem>> /\ UNCHANGED queueVars
      BY <1>1 DEF Type, queueVars
    <2>2. QueuesAre(rq, sq)'
      BY <2>1, QueuesFrame
    <2>3. Quiet(rq, sq, rq, sq)
      BY <1>1, <2>1, PanicsUnchanged DEF Quiet
    <2>4. QED
      BY <2>2, <2>3 DEF Moved
  <1>2. CASE UNCHANGED vars
    <2>1. UNCHANGED <<pc, rx, typed>> /\ UNCHANGED queueVars
      BY <1>2 DEF vars, queueVars
    <2>2. QED
      BY <2>1, QuietStep, ZeroHart
  <1>3. CASE \E h \in Harts : DeviceCall(h) \/ IpiCall(h) \/ Interrupt(h)
    BY <1>3, DeviceCallMoves, IpiCallMoves, InterruptMoves
  <1>4. QED
    BY <1>1, <1>2, <1>3 DEF Next

-----------------------------------------------------------------------------
(* The queues and the messages.                                            *)

\* The two queues of every hart stay proper lists of messages that are in no
\* other place, whatever the harts do to them.
THEOREM QueuesKept == Spec => []QueueInv
  <1>1. Init => QueueInv
    <2>1. ASSUME Init PROVE QueueInv
      <3>1. QueuesAre([h \in Harts |-> <<>>], [h \in Harts |-> <<>>])
        BY <2>1, InitQueues
      <3>2. Requests = [h \in Harts |-> <<>>] /\ Responses = [h \in Harts |-> <<>>]
        BY <3>1, WalksReturn DEF QueuesAre
      <3>3. QED
        BY <3>1, <3>2 DEF QueueInv
    <2>2. QED
      BY <2>1
  <1>2. TypeOK /\ QueueInv /\ [Next]_vars => QueueInv'
    <2>1. SUFFICES ASSUME TypeOK, QueueInv, [Next]_vars PROVE QueueInv'
      OBVIOUS
    <2>2. PICK rq, sq : rq = Requests /\ sq = Responses
      OBVIOUS
    <2>3. QueuesAre(rq, sq)
      BY <2>1, <2>2 DEF QueueInv
    <2>4. PICK rq2, sq2 : QueuesAre(rq2, sq2)' /\ Moved(rq, sq, rq2, sq2)
      BY <2>1, <2>3, NextMoves
    <2>5. Requests' = rq2 /\ Responses' = sq2
      BY <2>4, WalksReturnNext DEF QueuesAre
    <2>6. QED
      BY <2>4, <2>5 DEF QueueInv, QueuesAre, ListsAre, Apart, OnlyReads
  <1>3. QED
    BY <1>1, <1>2, TypeCorrect, PTL DEF Spec

\* The places a message is in.
In(m) == {p \in Places(m) :
            \/ p[1] = "owned"
            \/ p[1] = "request" /\ p[3] \in DOMAIN RequestQueue(p[2])
                                /\ RequestQueue(p[2])[p[3]] = m
            \/ p[1] = "response" /\ p[3] \in DOMAIN ResponseQueue(p[2])
                                 /\ ResponseQueue(p[2])[p[3]] = m}

LEMMA PlaceOf ==
  ASSUME NEW m, NEW p
  PROVE  p \in In(m) <=>
           \/ m \in owned /\ p = <<"owned">>
           \/ \E h \in Harts, i \in 1 .. Cardinality(Msg) + 1 :
                /\ p = <<"request", h, i>>
                /\ i \in DOMAIN RequestQueue(h) /\ RequestQueue(h)[i] = m
           \/ \E h \in Harts, i \in 1 .. Cardinality(Msg) + 1 :
                /\ p = <<"response", h, i>>
                /\ i \in DOMAIN ResponseQueue(h) /\ ResponseQueue(h)[i] = m
  <1>1. p \in Places(m) <=>
           \/ m \in owned /\ p = <<"owned">>
           \/ \E h \in Harts, i \in 1 .. Cardinality(Msg) + 1 : p = <<"request", h, i>>
           \/ \E h \in Harts, i \in 1 .. Cardinality(Msg) + 1 : p = <<"response", h, i>>
    BY DEF Places
  <1>2. \A h, i : /\ <<"request", h, i>>[1] = "request"
                  /\ <<"request", h, i>>[2] = h /\ <<"request", h, i>>[3] = i
                  /\ <<"response", h, i>>[1] = "response"
                  /\ <<"response", h, i>>[2] = h /\ <<"response", h, i>>[3] = i
    OBVIOUS
  <1>3. <<"owned">>[1] = "owned"
    OBVIOUS
  <1>4. QED
    BY <1>1, <1>2, <1>3 DEF In

\* A response queue holds a message at most once, and at most one queue does.
LEMMA OnePlace ==
  ASSUME NEW rq, NEW sq, QueuesAre(rq, sq), NEW m \in Msg
  PROVE  \E p : In(m) = {p}
  <1>1. Requests = rq /\ Responses = sq
    BY WalksReturn DEF QueuesAre
  <1>2. \A h \in Harts : RequestQueue(h) = rq[h] /\ ResponseQueue(h) = sq[h]
    BY <1>1 DEF Requests, Responses
  <1>3. \A h \in Harts : /\ rq[h] \in Seq(Msg) /\ sq[h] \in Seq(Msg)
                         /\ \A i, j \in 1 .. Len(rq[h]) : rq[h][i] = rq[h][j] => i = j
                         /\ \A i, j \in 1 .. Len(sq[h]) : sq[h][i] = sq[h][j] => i = j
    BY DEF QueuesAre, ListsAre, IsList
  <1>4. \A h \in Harts : /\ Len(rq[h]) <= Cardinality(Msg) /\ Len(sq[h]) <= Cardinality(Msg)
                         /\ Cardinality(Msg) \in Nat
                         /\ Len(rq[h]) \in Nat /\ DOMAIN rq[h] = 1 .. Len(rq[h])
                         /\ Len(sq[h]) \in Nat /\ DOMAIN sq[h] = 1 .. Len(sq[h])
    BY <1>3, ListBound
  <1>5. \A p : p \in In(m) <=>
          \/ m \in owned /\ p = <<"owned">>
          \/ \E h \in Harts : \E i \in 1 .. Len(rq[h]) : p = <<"request", h, i>> /\ rq[h][i] = m
          \/ \E h \in Harts : \E i \in 1 .. Len(sq[h]) : p = <<"response", h, i>> /\ sq[h][i] = m
    <2>1. \A h \in Harts : \A i \in 1 .. Len(rq[h]) : i \in 1 .. Cardinality(Msg) + 1
      BY <1>4
    <2>2. \A h \in Harts : \A i \in 1 .. Len(sq[h]) : i \in 1 .. Cardinality(Msg) + 1
      BY <1>4
    <2>3. QED
      BY <1>2, <1>4, <2>1, <2>2, PlaceOf
  <1>6. Apart(rq, sq, owned)
    BY DEF QueuesAre
  <1>7. \A h \in Harts : /\ \A i \in 1 .. Len(rq[h]) : rq[h][i] \in Members(rq[h])
                         /\ \A i \in 1 .. Len(sq[h]) : sq[h][i] \in Members(sq[h])
                         /\ \A x \in Members(rq[h]) : \E i \in 1 .. Len(rq[h]) : x = rq[h][i]
                         /\ \A x \in Members(sq[h]) : \E i \in 1 .. Len(sq[h]) : x = sq[h][i]
    BY <1>3, MembersType
  <1>8. CASE m \in owned
    <2>1. \A h \in Harts : m \notin Members(rq[h]) /\ m \notin Members(sq[h])
      BY <1>6, <1>8 DEF Apart
    <2>2. \A p : p \in In(m) <=> p = <<"owned">>
      BY <1>5, <1>7, <1>8, <2>1
    <2> DEFINE a == <<"owned">>
    <2>3. \A p : p \in In(m) <=> p = a
      BY <2>2
    <2> HIDE DEF a
    <2>4. In(m) = {a}
      BY <2>3
    <2>5. QED
      BY <2>4
  <1>9. ASSUME NEW h \in Harts, m \in Members(rq[h])  PROVE \E p : In(m) = {p}
    <2>1. m \notin owned /\ \A k \in Harts : m \notin Members(sq[k]) /\ (m \in Members(rq[k]) => k = h)
      BY <1>6, <1>9 DEF Apart
    <2>2. PICK i \in 1 .. Len(rq[h]) : m = rq[h][i]
      BY <1>7, <1>9
    <2>3. \A k \in Harts : \A j \in 1 .. Len(rq[k]) : rq[k][j] = m => k = h /\ j = i
      BY <1>3, <1>7, <2>1, <2>2
    <2>4. \A p : p \in In(m) <=> p = <<"request", h, i>>
      BY <1>5, <1>7, <2>1, <2>2, <2>3
    <2> DEFINE a == <<"request", h, i>>
    <2>5. \A p : p \in In(m) <=> p = a
      BY <2>4
    <2> HIDE DEF a
    <2>6. In(m) = {a}
      BY <2>5
    <2>7. QED
      BY <2>6
  <1>10. ASSUME NEW h \in Harts, m \in Members(sq[h])  PROVE \E p : In(m) = {p}
    <2>1. m \notin owned /\ \A k \in Harts : m \notin Members(rq[k]) /\ (m \in Members(sq[k]) => k = h)
      BY <1>6, <1>10 DEF Apart
    <2>2. PICK i \in 1 .. Len(sq[h]) : m = sq[h][i]
      BY <1>7, <1>10
    <2>3. \A k \in Harts : \A j \in 1 .. Len(sq[k]) : sq[k][j] = m => k = h /\ j = i
      BY <1>3, <1>7, <2>1, <2>2
    <2>4. \A p : p \in In(m) <=> p = <<"response", h, i>>
      BY <1>5, <1>7, <2>1, <2>2, <2>3
    <2> DEFINE a == <<"response", h, i>>
    <2>5. \A p : p \in In(m) <=> p = a
      BY <2>4
    <2> HIDE DEF a
    <2>6. In(m) = {a}
      BY <2>5
    <2>7. QED
      BY <2>6
  <1>11. QED
    BY <1>6, <1>8, <1>9, <1>10 DEF Apart

\* No message is lost, duplicated or answered twice, for any number of harts
\* and messages: each is in exactly one place, and the fields of hls_t agree
\* with the lists.
THEOREM MessagesKept == Spec => []MessagesConserved
  <1>1. QueueInv => MessagesConserved
    <2>1. SUFFICES ASSUME QueueInv PROVE MessagesConserved
      OBVIOUS
    <2>2. PICK rq, sq : rq = Requests /\ sq = Responses
      OBVIOUS
    <2>3. QueuesAre(rq, sq)
      BY <2>1, <2>2 DEF QueueInv
    <2>4. \A h \in Harts : RequestQueue(h) = rq[h] /\ ResponseQueue(h) = sq[h]
      BY <2>2 DEF Requests, Responses
    <2>5. QueuesWellFormed
      <3>1. \A h \in Harts : /\ req_size[h] = Len(rq[h])
                             /\ IsList(mem, resp_head[h], sq[h])
                             /\ resp_tail[h] = LastOf(sq[h])
        BY <2>3 DEF QueuesAre, ListsAre
      <3>2. \A h \in Harts : resp_head[h] = NULL <=> sq[h] = <<>>
        <4>1. \A h \in Harts : sq[h] \in Seq(Msg) /\ (sq[h] # <<>> => sq[h][1] \in Msg)
          BY <3>1 DEF IsList
        <4>2. QED
          BY <3>1, <4>1, NullAssumption DEF IsList
      <3>3. QED
        BY <2>4, <3>1, <3>2 DEF QueuesWellFormed, LastOf
    <2>6. \A m \in Msg : Cardinality(In(m)) = 1
      BY <2>3, OnePlace, FS_Singleton
    <2>7. QED
      BY <2>5, <2>6 DEF MessagesConserved, In
  <1>2. QED
    BY <1>1, QueuesKept, PTL

-----------------------------------------------------------------------------
(* The order of the characters.                                            *)

LEMMA TailIs ==
  ASSUME NEW S, NEW q \in Seq(S), q # <<>>
  PROVE  /\ Tail(q) \in Seq(S)
         /\ Len(q) \in Nat /\ Len(q) # 0
         /\ Len(Tail(q)) = Len(q) - 1
         /\ Head(q) = q[1]
         /\ \A i \in 1 .. Len(Tail(q)) : Tail(q)[i] = q[i + 1] /\ i + 1 \in 1 .. Len(q)
  OBVIOUS

LEMMA ElementsIn ==
  ASSUME NEW S, NEW q \in Seq(S)
  PROVE  Len(q) \in Nat /\ \A i \in 1 .. Len(q) : q[i] \in S
  OBVIOUS

\* The data words are numbers, and so are the characters.
LEMMA DataInt ==
  ASSUME TypeOK
  PROVE  /\ \A m \in Msg : mem[m].data \in Int
         /\ typed \in Int
         /\ rx \in Seq(1 .. MaxChars) /\ Len(rx) \in Nat
         /\ \A i \in 1 .. Len(rx) : rx[i] \in Int
  <1>1. \A m \in Msg : mem[m].data \in Data
    BY DEF TypeOK, Words
  <1>2. Data \subseteq Int
    BY BoundsAssumption DEF Data, ACK, REQUEST
  <1>3. rx \in Seq(1 .. MaxChars) /\ typed \in Int
    BY BoundsAssumption DEF TypeOK
  <1>4. Len(rx) \in Nat /\ \A i \in 1 .. Len(rx) : rx[i] \in 1 .. MaxChars
    BY <1>3, ElementsIn
  <1>5. \A i \in 1 .. Len(rx) : rx[i] \in Int
    BY <1>4
  <1>6. QED
    BY <1>1, <1>2, <1>3, <1>4, <1>5

\* The words change only outside the response queues; a character may arrive.
LEMMA CharsFrame ==
  ASSUME TypeOK, NEW sq \in [Harts -> Seq(Msg)], CharsAre(sq),
         \A h \in Harts : \A m \in Members(sq[h]) : mem'[m].data = mem[m].data,
         UNCHANGED <<rx, typed>> \/ Type
  PROVE  CharsAre(sq)'
  <1>1. \A h \in Harts : /\ Members(sq[h]) \subseteq Msg
                         /\ \A i \in 1 .. Len(sq[h]) : sq[h][i] \in Members(sq[h])
    BY MembersType
  <1>2. \A h \in Harts : \A i, j \in 1 .. Len(sq[h]) :
          i < j /\ mem'[sq[h][i]].data >= 0 /\ mem'[sq[h][j]].data >= 0
            => mem'[sq[h][i]].data < mem'[sq[h][j]].data
    BY <1>1 DEF CharsAre
  <1>3. CASE UNCHANGED <<rx, typed>>
    BY <1>2, <1>3 DEF CharsAre
  <1>4. CASE Type /\ rx' = rx
    <2>1. typed' = typed + 1
      BY <1>4 DEF Type
    <2>2. /\ \A i \in 1 .. Len(rx) : rx[i] <= typed'
          /\ \A h \in Harts : \A m \in Members(sq[h]) : mem'[m].data <= typed'
      BY <1>1, <2>1, DataInt DEF CharsAre
    <2>3. QED
      BY <1>2, <1>4, <2>2 DEF CharsAre
  <1>5. CASE Type /\ rx' = Append(rx, typed + 1)
    <2>1. typed' = typed + 1 /\ typed \in Int
      BY <1>5, DataInt DEF Type
    <2>2. /\ rx \in Seq(1 .. MaxChars) /\ typed + 1 \in 1 .. MaxChars
      BY <1>5, BoundsAssumption DEF Type, TypeOK
    <2>3. /\ Len(rx') = Len(rx) + 1 /\ Len(rx) \in Nat
          /\ \A i \in 1 .. Len(rx') : IF i = Len(rx') THEN rx'[i] = typed' ELSE i \in 1 .. Len(rx) /\ rx'[i] = rx[i]
      BY <1>5, <2>1, <2>2
    <2>4. \A i \in 1 .. Len(rx') : rx'[i] <= typed'
      BY <2>1, <2>3, DataInt DEF CharsAre
    <2>5. \A i, j \in 1 .. Len(rx') : i < j => rx'[i] < rx'[j]
      <3>1. SUFFICES ASSUME NEW i \in 1 .. Len(rx'), NEW j \in 1 .. Len(rx'), i < j
                     PROVE  rx'[i] < rx'[j]
        OBVIOUS
      <3>2. i \in 1 .. Len(rx) /\ rx'[i] = rx[i]
        BY <2>3, <3>1
      <3>3. CASE j = Len(rx')
        BY <2>1, <2>3, <3>2, <3>3, DataInt DEF CharsAre
      <3>4. CASE j # Len(rx')
        BY <2>3, <3>1, <3>2, <3>4 DEF CharsAre
      <3>5. QED
        BY <3>3, <3>4
    <2>6. \A h \in Harts : \A m \in Members(sq[h]) : mem'[m].data <= typed'
      BY <1>1, <2>1, DataInt DEF CharsAre
    <2>7. \A h \in Harts : \A m \in Members(sq[h]) : \A j \in 1 .. Len(rx') :
             mem'[m].data >= 0 => mem'[m].data < rx'[j]
      <3>1. SUFFICES ASSUME NEW h \in Harts, NEW m \in Members(sq[h]), NEW j \in 1 .. Len(rx'),
                            mem'[m].data >= 0
                     PROVE  mem'[m].data < rx'[j]
        OBVIOUS
      <3>2. mem'[m].data = mem[m].data /\ mem[m].data \in Int /\ mem[m].data <= typed
        BY <1>1, DataInt DEF CharsAre
      <3>3. CASE j = Len(rx')
        <4>1. rx'[j] = typed'
          BY <2>3, <3>3
        <4>2. QED
          BY <2>1, <3>2, <4>1
      <3>4. CASE j # Len(rx')
        BY <2>3, <3>1, <3>2, <3>4 DEF CharsAre
      <3>5. QED
        BY <3>3, <3>4
    <2>8. QED
      BY <1>2, <2>4, <2>5, <2>6, <2>7 DEF CharsAre
  <1>6. QED
    BY <1>3, <1>4, <1>5 DEF Type

\* Hart h gets the answer of m: 1, or the oldest character of the FIFO.
LEMMA CharsAppend ==
  ASSUME TypeOK, NEW sq \in [Harts -> Seq(Msg)], CharsAre(sq),
         NEW h \in Harts, NEW m \in Msg,
         \A k \in Harts : m \notin Members(sq[k]),
         DataStay(m), UNCHANGED typed,
         \/ mem'[m].data = ACK /\ rx' = rx
         \/ rx # <<>> /\ mem'[m].data = Head(rx) /\ rx' = Tail(rx)
  PROVE  CharsAre([sq EXCEPT ![h] = Append(@, m)])'
  <1> DEFINE sq2 == [sq EXCEPT ![h] = Append(@, m)]
             d == mem'[m].data
  <1>1. \A k \in Harts : /\ Members(sq[k]) \subseteq Msg
                         /\ sq[k] \in Seq(Msg) /\ Len(sq[k]) \in Nat
                         /\ \A i \in 1 .. Len(sq[k]) : sq[k][i] \in Members(sq[k])
    BY MembersType
  <1>2. \A k \in Harts : \A x \in Members(sq[k]) : mem'[x].data = mem[x].data /\ mem[x].data \in Int
    BY <1>1, DataInt DEF DataStay
  <1>3. /\ sq2[h] = Append(sq[h], m)
        /\ \A k \in Harts : k # h => sq2[k] = sq[k]
    OBVIOUS
  <1>4. /\ Members(Append(sq[h], m)) = Members(sq[h]) \cup {m}
        /\ Len(Append(sq[h], m)) = Len(sq[h]) + 1
        /\ \A i \in 1 .. Len(sq[h]) + 1 :
             IF i = Len(sq[h]) + 1 THEN Append(sq[h], m)[i] = m
             ELSE i \in 1 .. Len(sq[h]) /\ Append(sq[h], m)[i] = sq[h][i]
    BY <1>1, AppendMembers
  <1> HIDE DEF sq2
  <1>5. rx # <<>> /\ rx' = Tail(rx) =>
          /\ Len(rx') = Len(rx) - 1 /\ 1 \in 1 .. Len(rx) /\ Head(rx) = rx[1]
          /\ \A i \in 1 .. Len(rx') : rx'[i] = rx[i + 1] /\ i + 1 \in 1 .. Len(rx) /\ 1 < i + 1
    BY DataInt, TailIs
  <1>6. \A i \in 1 .. Len(rx') :
          \E j \in 1 .. Len(rx) : rx'[i] = rx[j] /\ (d >= 0 => d < rx[j])
    BY <1>5 DEF CharsAre, ACK
  <1>7. /\ \A i \in 1 .. Len(rx') : rx'[i] <= typed
        /\ \A i, j \in 1 .. Len(rx') : i < j => rx'[i] < rx'[j]
    <2>1. \A i \in 1 .. Len(rx') : rx'[i] <= typed
      BY <1>6 DEF CharsAre
    <2>2. \A i, j \in 1 .. Len(rx') : i < j => rx'[i] < rx'[j]
      <3>1. CASE rx' = rx
        BY <3>1 DEF CharsAre
      <3>2. CASE rx # <<>> /\ rx' = Tail(rx)
        <4>1. \A i, j \in 1 .. Len(rx') : i < j => i + 1 < j + 1
          OBVIOUS
        <4>2. QED
          BY <1>5, <3>2, <4>1 DEF CharsAre
      <3>3. QED
        BY <3>1, <3>2
    <2>3. QED
      BY <2>1, <2>2
  <1>8. /\ d <= typed
        /\ \A x \in Members(sq[h]) : mem[x].data >= 0 /\ d >= 0 => mem[x].data < d
    <2>1. CASE d = ACK
      <3>1. typed \in Nat
        BY BoundsAssumption DEF TypeOK
      <3>2. QED
        BY <2>1, <3>1 DEF ACK
    <2>2. CASE rx # <<>> /\ d = Head(rx) /\ rx' = Tail(rx)
      BY <1>5, <2>2 DEF CharsAre
    <2>3. QED
      BY <2>1, <2>2
  <1> HIDE DEF d
  <1>9. ASSUME NEW k \in Harts, NEW x \in Members(sq2[k])
        PROVE  /\ mem'[x].data <= typed
               /\ \A j \in 1 .. Len(rx') : mem'[x].data >= 0 => mem'[x].data < rx'[j]
    <2>1. CASE x = m
      BY <1>6, <1>8, <2>1 DEF d
    <2>2. CASE x # m
      <3>1. x \in Members(sq[k])
        BY <1>3, <1>4, <1>9, <2>2
      <3>2. mem'[x].data = mem[x].data
        BY <1>2, <3>1
      <3>3. QED
        BY <1>6, <3>1, <3>2 DEF CharsAre
    <2>3. QED
      BY <2>1, <2>2
  <1>10. ASSUME NEW k \in Harts, NEW i \in 1 .. Len(sq2[k]), NEW j \in 1 .. Len(sq2[k]),
                i < j, mem'[sq2[k][i]].data >= 0, mem'[sq2[k][j]].data >= 0
         PROVE  mem'[sq2[k][i]].data < mem'[sq2[k][j]].data
    <2>1. CASE i \in 1 .. Len(sq[k]) /\ j \in 1 .. Len(sq[k])
               /\ sq2[k][i] = sq[k][i] /\ sq2[k][j] = sq[k][j]
      <3>1. /\ mem'[sq2[k][i]].data = mem[sq[k][i]].data
            /\ mem'[sq2[k][j]].data = mem[sq[k][j]].data
        BY <1>1, <1>2, <2>1
      <3>2. QED
        BY <1>10, <2>1, <3>1 DEF CharsAre
    <2>2. CASE k = h /\ j = Len(sq[h]) + 1
      <3>1. sq2[k][j] = m /\ i \in 1 .. Len(sq[h]) /\ sq2[k][i] = sq[h][i]
        BY <1>1, <1>3, <1>4, <1>10, <2>2
      <3>2. sq[h][i] \in Members(sq[h])
        BY <1>1, <3>1
      <3>3. mem'[sq2[k][i]].data = mem[sq[h][i]].data /\ mem'[sq2[k][j]].data = d
        BY <1>2, <3>1, <3>2 DEF d
      <3>4. QED
        BY <1>8, <1>10, <3>2, <3>3
    <2>3. QED
      <3>1. CASE k # h
        BY <1>3, <2>1, <3>1
      <3>2. CASE k = h /\ j # Len(sq[h]) + 1
        <4>1. sq2[k] = Append(sq[h], m) /\ j \in 1 .. Len(sq[h]) + 1 /\ i \in 1 .. Len(sq[h]) + 1
          BY <1>3, <1>4, <3>2
        <4>2. j \in 1 .. Len(sq[h]) /\ sq2[k][j] = sq[h][j]
          BY <1>4, <3>2, <4>1
        <4>3. i # Len(sq[h]) + 1
          BY <1>1, <1>10, <4>1, <4>2
        <4>4. i \in 1 .. Len(sq[h]) /\ sq2[k][i] = sq[h][i]
          BY <1>4, <4>1, <4>3
        <4>5. QED
          BY <2>1, <3>2, <4>2, <4>4
      <3>3. QED
        BY <2>2, <3>1, <3>2
  <1>11. CharsAre(sq2)'
    BY <1>7, <1>9, <1>10 DEF CharsAre
  <1>12. QED
    BY <1>11 DEF sq2

\* The oldest response goes; what is left keeps its order.
LEMMA CharsCollect ==
  ASSUME TypeOK, NEW sq \in [Harts -> Seq(Msg)], CharsAre(sq),
         NEW h \in Harts, sq[h] # <<>>,
         \A x \in Members(Tail(sq[h])) : mem'[x].data = mem[x].data,
         \A k \in Harts \ {h} : \A x \in Members(sq[k]) : mem'[x].data = mem[x].data,
         UNCHANGED <<rx, typed>>
  PROVE  CharsAre([sq EXCEPT ![h] = Tail(@)])'
  <1> DEFINE sq2 == [sq EXCEPT ![h] = Tail(@)]
  <1>1. /\ sq2[h] = Tail(sq[h])
        /\ \A k \in Harts : k # h => sq2[k] = sq[k]
    OBVIOUS
  <1>2. \A i \in 1 .. Len(Tail(sq[h])) : /\ Tail(sq[h])[i] = sq[h][i + 1]
                                         /\ i + 1 \in 1 .. Len(sq[h])
    BY TailIs
  <1>3. /\ Tail(sq[h]) \in Seq(Msg)
        /\ \A k \in Harts : sq2[k] \in Seq(Msg)
    BY <1>1, TailIs
  <1> HIDE DEF sq2
  <1>4. \A k \in Harts : \A x \in Members(sq2[k]) : mem'[x].data = mem[x].data
    BY <1>1
  <1>5. \A k \in Harts : \A x \in Members(sq2[k]) : x \in Members(sq[k])
    <2>1. \A i \in 1 .. Len(Tail(sq[h])) : Tail(sq[h])[i] \in Members(sq[h])
      BY <1>2, MembersType
    <2>2. \A x \in Members(Tail(sq[h])) : x \in Members(sq[h])
      BY <2>1 DEF Members
    <2>3. QED
      BY <1>1, <2>2
  <1>6. \A k \in Harts : \A x \in Members(sq2[k]) :
           /\ mem'[x].data <= typed
           /\ \A j \in 1 .. Len(rx) : mem'[x].data >= 0 => mem'[x].data < rx[j]
    BY <1>4, <1>5 DEF CharsAre
  <1>7. ASSUME NEW k \in Harts, NEW i \in 1 .. Len(sq2[k]), NEW j \in 1 .. Len(sq2[k]),
               i < j, mem'[sq2[k][i]].data >= 0, mem'[sq2[k][j]].data >= 0
        PROVE  mem'[sq2[k][i]].data < mem'[sq2[k][j]].data
    <2>1. sq2[k][i] \in Members(sq2[k]) /\ sq2[k][j] \in Members(sq2[k])
      BY <1>3, MembersType
    <2>2. /\ mem'[sq2[k][i]].data = mem[sq2[k][i]].data
          /\ mem'[sq2[k][j]].data = mem[sq2[k][j]].data
      BY <1>4, <2>1
    <2>3. CASE k = h
      <3>1. /\ sq2[k][i] = sq[h][i + 1] /\ sq2[k][j] = sq[h][j + 1]
            /\ i + 1 \in 1 .. Len(sq[h]) /\ j + 1 \in 1 .. Len(sq[h]) /\ i + 1 < j + 1
        <4>1. sq2[k] = Tail(sq[h])
          BY <1>1, <2>3
        <4>2. i + 1 < j + 1
          BY <1>7
        <4>3. QED
          BY <1>2, <4>1, <4>2
      <3>2. mem[sq[h][i + 1]].data >= 0 /\ mem[sq[h][j + 1]].data >= 0
        BY <1>7, <2>2, <3>1
      <3>3. mem[sq[h][i + 1]].data < mem[sq[h][j + 1]].data
        BY <3>1, <3>2 DEF CharsAre
      <3>4. QED
        BY <2>2, <3>1, <3>3
    <2>4. CASE k # h
      BY <1>1, <1>7, <2>2, <2>4 DEF CharsAre
    <2>5. QED
      BY <2>3, <2>4
  <1>8. CharsAre(sq2)'
    BY <1>6, <1>7 DEF CharsAre
  <1>9. QED
    BY <1>8 DEF sq2

\* A step keeps the order, if RBR is only read when it holds a character.
LEMMA CharsMove ==
  ASSUME TypeOK, NEW rq, NEW sq, NEW rq2, NEW sq2, QueuesAre(rq, sq),
         CharsAre(sq), NoEmptyRead, Moved(rq, sq, rq2, sq2)
  PROVE  CharsAre(sq2)'
  <1>1. /\ sq \in [Harts -> Seq(Msg)] /\ Apart(rq, sq, owned)
        /\ \A k \in Harts : Members(sq[k]) \subseteq Msg
    BY MembersType DEF QueuesAre, ListsAre
  <1>2. CASE Quiet(rq, sq, rq2, sq2)
    <2>1. sq2 = sq /\ mem' = mem /\ (UNCHANGED <<rx, typed>> \/ Type)
      BY <1>2 DEF Quiet
    <2>2. QED
      BY <1>1, <2>1, CharsFrame
  <1>3. ASSUME NEW h \in Harts, NEW m \in Msg, Posted(rq, sq, rq2, sq2, h, m)
        PROVE  CharsAre(sq2)'
    <2>1. \A k \in Harts : \A x \in Members(sq[k]) : mem'[x].data = mem[x].data
      BY <1>1, <1>3 DEF Posted, DataStay, Apart
    <2>2. sq2 = sq /\ UNCHANGED <<rx, typed>>
      BY <1>3 DEF Posted
    <2>3. QED
      BY <1>1, <2>1, <2>2, CharsFrame
  <1>4. ASSUME NEW h \in Harts, NEW m \in Msg, Answered(rq, sq, rq2, sq2, h, m)
        PROVE  CharsAre(sq2)'
    <2>1. /\ sq2 = [sq EXCEPT ![h] = Append(@, m)]
          /\ DataStay(m) /\ mem'[m].data = ACK /\ UNCHANGED <<rx, typed>>
          /\ \A k \in Harts : m \notin Members(sq[k])
      BY <1>1, <1>4 DEF Answered, Apart
    <2>2. QED
      BY <1>1, <2>1, CharsAppend
  <1>5. ASSUME NEW h \in Harts, NEW m \in Msg, Served(rq, sq, rq2, sq2, h, m)
        PROVE  CharsAre(sq2)'
    <2>1. rx # <<>>
      BY <1>5 DEF Served, NoEmptyRead
    <2>2. /\ sq2 = [sq EXCEPT ![h] = Append(@, m)]
          /\ DataStay(m) /\ mem'[m].data = Head(rx) /\ rx' = Tail(rx) /\ UNCHANGED typed
      BY <1>5, <2>1 DEF Served
    <2>3. \A k \in Harts : m \notin Members(sq[k])
      BY <1>1, <1>5 DEF Served, Apart
    <2>4. QED
      BY <1>1, <2>1, <2>2, <2>3, CharsAppend
  <1>6. ASSUME NEW h \in Harts, Collected(rq, sq, rq2, sq2, h)
        PROVE  CharsAre(sq2)'
    <2>1. /\ sq2 = [sq EXCEPT ![h] = Tail(@)] /\ sq[h] # <<>>
          /\ \A x \in Members(Tail(sq[h])) : mem'[x].data = mem[x].data
          /\ \A k \in Harts \ {h} : \A x \in Members(sq[k]) : mem'[x].data = mem[x].data
          /\ UNCHANGED <<rx, typed>>
      BY <1>6 DEF Collected
    <2>2. QED
      BY <1>1, <2>1, CharsCollect
  <1>7. QED
    BY <1>2, <1>3, <1>4, <1>5, <1>6 DEF Moved

\* A console that one hart serves hands its characters to the supervisor in the
\* order they were typed, although each READ overtakes those that wait.
THEOREM CharsKeptInOrder == OneConsole /\ Spec => []CharsInOrder
  <1> SUFFICES ASSUME OneConsole PROVE Spec => []CharsInOrder
    OBVIOUS
  <1>1. Init => CharsInv
    <2>1. ASSUME Init PROVE CharsInv
      <3>1. QueuesAre([h \in Harts |-> <<>>], [h \in Harts |-> <<>>])
        BY <2>1, InitQueues
      <3>2. Responses = [h \in Harts |-> <<>>]
        BY <3>1, WalksReturn DEF QueuesAre
      <3>3. rx = <<>> /\ Len(<<>>) = 0 /\ Members(<<>>) = {}
        BY <2>1 DEF Init, Members
      <3>4. QED
        BY <3>2, <3>3 DEF CharsInv, CharsAre
    <2>2. QED
      BY <2>1
  <1>2. TypeOK /\ QueueInv /\ NoEmptyRead /\ CharsInv /\ [Next]_vars => CharsInv'
    <2>1. SUFFICES ASSUME TypeOK, QueueInv, NoEmptyRead, CharsInv, [Next]_vars PROVE CharsInv'
      OBVIOUS
    <2>2. PICK rq, sq : rq = Requests /\ sq = Responses
      OBVIOUS
    <2>3. QueuesAre(rq, sq) /\ CharsAre(sq)
      BY <2>1, <2>2 DEF QueueInv, CharsInv
    <2>4. PICK rq2, sq2 : QueuesAre(rq2, sq2)' /\ Moved(rq, sq, rq2, sq2)
      BY <2>1, <2>3, NextMoves
    <2>5. Responses' = sq2 /\ CharsAre(sq2)'
      BY <2>1, <2>3, <2>4, WalksReturnNext, CharsMove DEF QueuesAre
    <2>6. QED
      BY <2>5 DEF CharsInv, CharsAre
  <1>3. TypeOK /\ QueueInv /\ CharsInv => CharsInOrder
    <2>1. SUFFICES ASSUME TypeOK, QueueInv, CharsInv, NEW h \in Harts
                   PROVE  LET q == ResponseQueue(h)
                              chars == {i \in DOMAIN q : mem[q[i]].data >= 0}
                          IN  \A i \in chars :
                                /\ \A j \in chars : i < j => mem[q[i]].data < mem[q[j]].data
                                /\ \A j \in DOMAIN rx : mem[q[i]].data < rx[j]
      BY DEF CharsInOrder
    <2> DEFINE q == ResponseQueue(h)
    <2>2. Responses[h] = q /\ q \in Seq(Msg)
      BY <2>1 DEF QueueInv, QueuesAre, ListsAre, Responses
    <2> HIDE DEF q
    <2>3. /\ DOMAIN q = 1 .. Len(q)
          /\ \A i \in DOMAIN q : q[i] \in Members(q)
      BY <2>2, MembersType
    <2>4. DOMAIN rx = 1 .. Len(rx)
      BY <2>1, DataInt
    <2>5. QED
      BY <2>1, <2>2, <2>3, <2>4 DEF CharsInv, CharsAre, q
  <1>4. QED
    BY <1>1, <1>2, <1>3, TypeCorrect, QueuesKept, ConsoleNeverReadsEmpty, PTL DEF Spec

-----------------------------------------------------------------------------
(* The monitor implements the service.                                     *)

reads == [h \in Harts |-> {RequestQueue(h)[i] : i \in DOMAIN RequestQueue(h)}]
down == {h \in Harts : Panicked(h)}

LEMMA ReadsAre ==
  ASSUME NEW rq, NEW sq, QueuesAre(rq, sq)
  PROVE  reads = [h \in Harts |-> Members(rq[h])] /\ Responses = sq
  <1>1. Requests = rq /\ Responses = sq
    BY WalksReturn DEF QueuesAre
  <1>2. \A h \in Harts : RequestQueue(h) = rq[h] /\ DOMAIN rq[h] = 1 .. Len(rq[h])
    BY <1>1 DEF Requests, QueuesAre, ListsAre
  <1>3. QED
    BY <1>1, <1>2 DEF reads, Members

LEMMA ReadsAreNext ==
  ASSUME NEW rq, NEW sq, QueuesAre(rq, sq)'
  PROVE  reads' = [h \in Harts |-> Members(rq[h])] /\ Responses' = sq
  <1>1. Requests' = rq /\ Responses' = sq
    BY WalksReturnNext DEF QueuesAre
  <1>2. \A h \in Harts : RequestQueue(h)' = rq[h] /\ DOMAIN rq[h] = 1 .. Len(rq[h])
    BY <1>1 DEF Requests, QueuesAre, ListsAre
  <1>3. QED
    BY <1>1, <1>2 DEF reads, Members

\* A message the supervisor holds is free for the service.
LEMMA OwnedIsFree ==
  ASSUME NEW rq, NEW sq, QueuesAre(rq, sq), NEW m \in owned
  PROVE  Service!Free(m)
  <1>1. /\ reads = [h \in Harts |-> Members(rq[h])] /\ Responses = sq
        /\ \A h \in Harts : m \notin Members(rq[h]) /\ m \notin Members(sq[h])
        /\ \A h \in Harts : sq[h] \in Seq(Msg)
    BY ReadsAre DEF QueuesAre, Apart, ListsAre
  <1>2. \A h \in Harts : \A i \in DOMAIN sq[h] : sq[h][i] # m
    BY <1>1, MembersType
  <1>3. QED
    BY <1>1, <1>2 DEF Service!Free, Service!InAnswers, reads, Responses

\* Every move of a message is a step of the service, and so is a panic.
LEMMA MoveServes ==
  ASSUME NEW rq, NEW sq, NEW rq2, NEW sq2,
         QueuesAre(rq, sq), QueuesAre(rq2, sq2)', Moved(rq, sq, rq2, sq2)
  PROVE  Service!Next \/ UNCHANGED <<reads, Responses, down>>
  <1>1. /\ reads = [h \in Harts |-> Members(rq[h])] /\ Responses = sq
        /\ reads' = [h \in Harts |-> Members(rq2[h])] /\ Responses' = sq2
    BY ReadsAre, ReadsAreNext
  <1>2. /\ rq \in [Harts -> Seq(Msg)] /\ sq \in [Harts -> Seq(Msg)]
        /\ rq2 \in [Harts -> Seq(Msg)] /\ sq2 \in [Harts -> Seq(Msg)]
    BY DEF QueuesAre, ListsAre
  <1>3. PanicsStay => down' = down
    BY DEF PanicsStay, down
  <1>4. CASE Quiet(rq, sq, rq2, sq2)
    <2>1. reads' = reads /\ Responses' = Responses
      BY <1>1, <1>4 DEF Quiet
    <2>2. CASE PanicsStay
      BY <1>3, <2>1, <2>2
    <2>3. ASSUME NEW h \in Harts, Panicking(h)  PROVE Service!Next
      <3>1. h \notin down /\ down' = down \cup {h}
        BY <2>3 DEF Panicking, down
      <3>2. Service!GoDown(h)
        BY <2>1, <3>1 DEF Service!GoDown, reads, Responses, down
      <3>3. QED
        BY <3>2 DEF Service!Next
    <2>4. QED
      BY <1>4, <2>2, <2>3 DEF Quiet
  <1>5. ASSUME NEW h \in Harts, NEW m \in Msg, Posted(rq, sq, rq2, sq2, h, m)
        PROVE  Service!Next
    <2>1. /\ h \notin down /\ down' = down /\ m \in owned
          /\ rq2 = [rq EXCEPT ![h] = <<m>> \o @] /\ sq2 = sq
      BY <1>3, <1>5 DEF Posted, down
    <2>2. \A k \in Harts : Members(rq2[k]) = IF k = h THEN Members(rq[h]) \cup {m} ELSE Members(rq[k])
      BY <1>2, <2>1, PushMembers
    <2>3. reads' = [reads EXCEPT ![h] = @ \cup {m}]
      BY <1>1, <2>2
    <2>4. Service!PostRead(h, m)
      BY <1>1, <2>1, <2>3, OwnedIsFree DEF Service!PostRead, reads, Responses, down
    <2>5. QED
      BY <2>4 DEF Service!Next
  <1>6. ASSUME NEW h \in Harts, NEW m \in Msg, Answered(rq, sq, rq2, sq2, h, m)
        PROVE  Service!Next
    <2>1. /\ h \notin down /\ down' = down /\ m \in owned
          /\ rq2 = rq /\ sq2 = [sq EXCEPT ![h] = Append(@, m)]
      BY <1>3, <1>6 DEF Answered, down
    <2>2. m \notin Members(rq[h])
      BY <2>1 DEF QueuesAre, Apart
    <2>3. reads' = [reads EXCEPT ![h] = @ \ {m}]
      BY <1>1, <2>1, <2>2
    <2>4. Responses' = [Responses EXCEPT ![h] = Append(@, m)]
      BY <1>1, <2>1
    <2>5. Service!Answer(h, m)
      BY <2>1, <2>3, <2>4, OwnedIsFree DEF Service!Answer, reads, Responses, down
    <2>6. QED
      BY <2>5 DEF Service!Next
  <1>7. ASSUME NEW h \in Harts, NEW m \in Msg, Served(rq, sq, rq2, sq2, h, m)
        PROVE  Service!Next
    <2>1. /\ h \notin down /\ down' = down /\ m \in Members(rq[h])
          /\ Members(Tail(rq[h])) = Members(rq[h]) \ {m}
          /\ rq2 = [rq EXCEPT ![h] = Tail(@)] /\ sq2 = [sq EXCEPT ![h] = Append(@, m)]
      BY <1>3, <1>7 DEF Served, down
    <2>2. m \in reads[h]
      BY <1>1, <2>1
    <2>3. \A k \in Harts : Members(rq2[k]) = IF k = h THEN Members(rq[h]) \ {m} ELSE Members(rq[k])
      BY <1>2, <2>1
    <2>4. reads' = [reads EXCEPT ![h] = @ \ {m}]
      BY <1>1, <2>3
    <2>5. Responses' = [Responses EXCEPT ![h] = Append(@, m)]
      BY <1>1, <2>1
    <2>6. Service!Answer(h, m)
      BY <2>1, <2>2, <2>4, <2>5 DEF Service!Answer, reads, Responses, down
    <2>7. QED
      BY <2>6 DEF Service!Next
  <1>8. ASSUME NEW h \in Harts, Collected(rq, sq, rq2, sq2, h)
        PROVE  Service!Next
    <2>1. /\ h \notin down /\ down' = down
          /\ rq2 = rq /\ sq2 = [sq EXCEPT ![h] = Tail(@)] /\ sq[h] # <<>>
      BY <1>3, <1>8 DEF Collected, down
    <2>2. /\ reads' = reads
          /\ Responses' = [Responses EXCEPT ![h] = Tail(@)] /\ Responses[h] # <<>>
      BY <1>1, <2>1
    <2>3. Service!Collect(h)
      BY <2>1, <2>2 DEF Service!Collect, reads, Responses, down
    <2>4. QED
      BY <2>3 DEF Service!Next
  <1>9. QED
    BY <1>4, <1>5, <1>6, <1>7, <1>8 DEF Moved

\* The linked lists, the status bits and the interrupts implement the service
\* a supervisor relies on.
THEOREM MonitorImplementsService == Spec => ImplementsService
  <1>1. Init => Service!Init
    <2>1. ASSUME Init PROVE Service!Init
      <3>1. QueuesAre([h \in Harts |-> <<>>], [h \in Harts |-> <<>>])
        BY <2>1, InitQueues
      <3>2. /\ reads = [h \in Harts |-> Members([k \in Harts |-> <<>>][h])]
            /\ Responses = [h \in Harts |-> <<>>]
        BY <3>1, ReadsAre
      <3>3. reads = [h \in Harts |-> {}]
        BY <3>2 DEF Members
      <3>4. down = {}
        BY <2>1 DEF Init, down, Panicked, Panics
      <3>5. QED
        BY <3>2, <3>3, <3>4 DEF Service!Init, reads, Responses, down
    <2>2. QED
      BY <2>1
  <1>2. TypeOK /\ QueueInv /\ [Next]_vars => [Service!Next]_<<reads, Responses, down>>
    <2>1. SUFFICES ASSUME TypeOK, QueueInv, [Next]_vars
                   PROVE  Service!Next \/ UNCHANGED <<reads, Responses, down>>
      OBVIOUS
    <2>2. PICK rq, sq : rq = Requests /\ sq = Responses
      OBVIOUS
    <2>3. QueuesAre(rq, sq)
      BY <2>1, <2>2 DEF QueueInv
    <2>4. PICK rq2, sq2 : QueuesAre(rq2, sq2)' /\ Moved(rq, sq, rq2, sq2)
      BY <2>1, <2>3, NextMoves
    <2>5. QED
      BY <2>3, <2>4, MoveServes
  <1>3. QED
    BY <1>1, <1>2, TypeCorrect, QueuesKept, PTL
       DEF Spec, ImplementsService, Service!Spec, reads, Responses, down
=============================================================================
