----------------------------- MODULE SbiService -----------------------------
(***************************************************************************)
(* What the SBI device calls promise a supervisor, without the linked      *)
(* lists, the status bits or the UART: every message handed over is        *)
(* answered at most once and never handed back unanswered, responses come  *)
(* back on the hart that sent the request and in the order of the answers, *)
(* and a hart that has gone down changes nothing any more.                 *)
(***************************************************************************)
EXTENDS Sequences

CONSTANTS Harts, Msg

VARIABLES
  reads,    \* hart -> the messages that wait for a character
  answers,  \* hart -> the answered messages, oldest first
  down      \* the harts that have panicked

Init ==
  /\ reads = [h \in Harts |-> {}]
  /\ answers = [h \in Harts |-> <<>>]
  /\ down = {}

InAnswers(m) == \E h \in Harts : \E i \in DOMAIN answers[h] : answers[h][i] = m
Free(m) == ~InAnswers(m) /\ \A h \in Harts : m \notin reads[h]

PostRead(h, m) ==
  /\ h \notin down
  /\ Free(m)
  /\ reads' = [reads EXCEPT ![h] = @ \cup {m}]
  /\ UNCHANGED <<answers, down>>

Answer(h, m) ==
  /\ h \notin down
  /\ Free(m) \/ m \in reads[h]
  /\ reads' = [reads EXCEPT ![h] = @ \ {m}]
  /\ answers' = [answers EXCEPT ![h] = Append(@, m)]
  /\ UNCHANGED down

Collect(h) ==
  /\ h \notin down
  /\ answers[h] # <<>>
  /\ answers' = [answers EXCEPT ![h] = Tail(@)]
  /\ UNCHANGED <<reads, down>>

GoDown(h) ==
  /\ h \notin down
  /\ down' = down \cup {h}
  /\ UNCHANGED <<reads, answers>>

Next ==
  \E h \in Harts :
    \/ \E m \in Msg : PostRead(h, m) \/ Answer(h, m)
    \/ Collect(h)
    \/ GoDown(h)

Spec == Init /\ [][Next]_<<reads, answers, down>>
=============================================================================
