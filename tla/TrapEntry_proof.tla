--------------------------- MODULE TrapEntry_proof ---------------------------
(***************************************************************************)
(* Theorems about TrapEntry, for every depth of nesting: its variables     *)
(* keep their types, the stack pointers are ready whenever the hart is     *)
(* below the monitor, no timer is lost, and a program goes on as it was    *)
(* interrupted.                                                            *)
(***************************************************************************)
EXTENDS TrapEntry, SequenceTheorems, TLAPS

\* Whose stack pointer is where, at each place: on entry sp and mscratch are
\* exchanged; the dispatch saves the program's sp and frees mscratch.
Exchanged == sp = "frame" /\ mscratch = "program"
InFrame == sp = "frame" /\ mscratch = "frame" /\ regs_sp = "program"
Places == {"below", "check_double", "timer", "interrupt_supervisor", "dispatch",
           "handler", "nested", "eret", "back", "mrts"}
FrameInv ==
  /\ at \in Places
  /\ regs_sp = "program"
  /\ at = "below" => mscratch = "frame" /\ sp = "program"
  /\ at \in {"check_double", "timer", "interrupt_supervisor", "dispatch", "back"} => Exchanged
  /\ at \in {"handler", "eret"} => InFrame
  /\ at = "nested" => sp = "nested" /\ mscratch = "nested"
  /\ at = "mrts" => Exchanged \/ InFrame

\* What the mode stack holds of the interrupted program at each place.
Stack == [1 .. 4 -> Level]
Below == {l \in Level : l.prv # "M"}
Straight == {"check_double", "timer", "interrupt_supervisor", "dispatch", "handler",
             "eret", "back"}
OriginInv ==
  /\ mstatus \in Stack
  /\ origin \in Level \X Level
  /\ at = "below" => mstatus[1] \in Below
  /\ at # "below" => mstatus[1].prv = "M" /\ origin[1] \in Below
  /\ at \in Straight => origin = <<mstatus[2], mstatus[3]>>
  /\ at = "nested" => mstatus[2].prv = "M" /\ origin = <<mstatus[3], mstatus[4]>>
  /\ at = "mrts" =>
       /\ \/ mstatus[2] = origin[1]
          \/ cause = "fault" /\ mstatus[2] = [origin[1] EXCEPT !.ie = FALSE]
       /\ cause \in {"timer", "soft"} => origin[1] # [prv |-> "S", ie |-> FALSE]

CauseInv ==
  /\ cause \in Causes \cup {"none"}
  /\ at = "check_double" => cause = "fault"
  /\ at \in {"dispatch", "handler", "nested"} => cause \in {"emulated", "ecall", "io"}

\* What the supervisor has saved, with room for the handler being entered.
SavedInv ==
  /\ saved \in Seq(Below)
  /\ Len(saved) <= MaxNest + 1
  /\ at # "below" => Len(saved) <= MaxNest

TimerInv ==
  /\ {mtie, mtip, stip, deadline} \subseteq BOOLEAN
  /\ TimerNotLost

Inv == FrameInv /\ OriginInv /\ CauseInv /\ SavedInv /\ TimerInv

-----------------------------------------------------------------------------
(* Facts about the mode stack.                                             *)

LEMMA FieldSet ==
  ASSUME NEW P, NEW B, NEW l \in [prv : P, ie : B], NEW b \in B
  PROVE  [l EXCEPT !.ie = b] \in [prv : P, ie : B]
  OBVIOUS

LEMMA TurnedOff ==
  ASSUME NEW l \in Level
  PROVE  [l EXCEPT !.ie = FALSE] \in Level
  <1>1. FALSE \in BOOLEAN
    OBVIOUS
  <1>2. QED
    BY <1>1, FieldSet DEF Level

LEMMA FourIsSeq ==
  ASSUME NEW S, NEW s \in [1 .. 4 -> S]
  PROVE  s \in Seq(S) /\ Len(s) = 4
  <1>1. DOMAIN s = 1 .. 4 /\ \A i \in 1 .. 4 : s[i] \in S
    OBVIOUS
  <1>2. s = [i \in 1 .. 4 |-> s[i]]
    OBVIOUS
  <1>3. s \in Seq(S)
    BY <1>1, <1>2
  <1>4. DOMAIN s = 1 .. Len(s) /\ Len(s) \in Nat
    BY <1>3, LenProperties
  <1>5. 4 \in 1 .. Len(s) /\ Len(s) + 1 \notin 1 .. 4
    BY <1>1, <1>4
  <1>6. QED
    BY <1>3, <1>4, <1>5

LEMMA FourTuple ==
  ASSUME NEW S, NEW a \in S, NEW b \in S
  PROVE  <<a, b, b, b>> \in [1 .. 4 -> S] /\ <<a, b, b, b>>[1] = a
  OBVIOUS

LEMMA PairIsSeq ==
  ASSUME NEW S, NEW s \in S \X S
  PROVE  s \in Seq(S)
  <1>1. s = <<s[1], s[2]>> /\ s[1] \in S /\ s[2] \in S
    OBVIOUS
  <1>2. <<s[1], s[2]>> \in Seq(S)
    BY <1>1
  <1>3. QED
    BY <1>1, <1>2

LEMMA OneAndThree ==
  ASSUME NEW S, NEW s \in Seq(S), NEW t \in Seq(S), Len(s) = 1, Len(t) = 3
  PROVE  /\ s \o t \in Seq(S) /\ Len(s \o t) = 4
         /\ (s \o t)[1] = s[1]
         /\ \A i \in 2 .. 4 : (s \o t)[i] = t[i - 1]
  <1>1. /\ s \o t \in Seq(S)
        /\ Len(s \o t) = Len(s) + Len(t)
        /\ \A i \in 1 .. Len(s) + Len(t) :
             (s \o t)[i] = IF i <= Len(s) THEN s[i] ELSE t[i - Len(s)]
    BY ConcatProperties
  <1>2. QED
    BY <1>1

LEMMA PushIs ==
  ASSUME NEW S, NEW s \in [1 .. 4 -> S], NEW e \in S
  PROVE  /\ <<e>> \o SubSeq(s, 1, 3) \in [1 .. 4 -> S]
         /\ (<<e>> \o SubSeq(s, 1, 3))[1] = e
         /\ \A i \in 2 .. 4 : (<<e>> \o SubSeq(s, 1, 3))[i] = s[i - 1]
  <1> DEFINE top == <<e>>
             rest == SubSeq(s, 1, 3)
  <1>1. rest \in Seq(S) /\ Len(rest) = 3 /\ \A i \in 1 .. 3 : rest[i] = s[i]
    BY SubSeqProperties
  <1>2. top \in Seq(S) /\ Len(top) = 1 /\ top[1] = e
    OBVIOUS
  <1> HIDE DEF top, rest
  <1>3. /\ top \o rest \in Seq(S) /\ Len(top \o rest) = 4
        /\ (top \o rest)[1] = top[1]
        /\ \A i \in 2 .. 4 : (top \o rest)[i] = rest[i - 1]
    BY <1>1, <1>2, OneAndThree
  <1>4. top \o rest \in [1 .. 4 -> S]
    BY <1>3, LenProperties
  <1>5. \A i \in 2 .. 4 : rest[i - 1] = s[i - 1]
    BY <1>1
  <1>6. /\ top \o rest \in [1 .. 4 -> S]
        /\ (top \o rest)[1] = e
        /\ \A i \in 2 .. 4 : (top \o rest)[i] = s[i - 1]
    BY <1>2, <1>3, <1>4, <1>5
  <1>7. QED
    BY <1>6 DEF top, rest

LEMMA AppendLen ==
  ASSUME NEW S, NEW s \in Seq(S), NEW x \in S
  PROVE  Append(s, x) \in Seq(S) /\ Len(Append(s, x)) = Len(s) + 1
  <1>1. Len(Append(s, x)) = Len(s) + 1 /\ Len(s) \in Nat
    OBVIOUS
  <1>2. QED
    BY <1>1

LEMMA AppendKeeps ==
  ASSUME NEW S, NEW s \in Seq(S), NEW x \in S, NEW i \in 1 .. Len(s)
  PROVE  Append(s, x)[i] = s[i]
  OBVIOUS

LEMMA ThreeAndOne ==
  ASSUME NEW S, NEW t \in Seq(S), NEW e \in S, Len(t) = 3
  PROVE  /\ Append(t, e) \in Seq(S) /\ Len(Append(t, e)) = 4
         /\ \A i \in 1 .. 3 : Append(t, e)[i] = t[i]
  <1>1. Append(t, e) \in Seq(S) /\ Len(Append(t, e)) = Len(t) + 1
    BY AppendLen, Zenon
  <1>2. \A i \in 1 .. Len(t) : Append(t, e)[i] = t[i]
    BY AppendKeeps, Zenon
  <1>3. 1 .. Len(t) = 1 .. 3 /\ Len(t) + 1 = 4
    OBVIOUS
  <1>4. QED
    BY <1>1, <1>2, <1>3, Zenon

LEMMA PopIs ==
  ASSUME NEW S, NEW s \in [1 .. 4 -> S], NEW e \in S
  PROVE  /\ Append(Tail(s), e) \in [1 .. 4 -> S]
         /\ \A i \in 1 .. 3 : Append(Tail(s), e)[i] = s[i + 1]
  <1> DEFINE rest == Tail(s)
  <1>1. s \in Seq(S) /\ Len(s) = 4
    BY FourIsSeq
  <1>2. Len(<< >>) = 0
    OBVIOUS
  <1>3. 4 # 0
    OBVIOUS
  <1>4. s # << >>
    BY <1>1, <1>2, <1>3, Zenon
  <1>5. /\ rest \in Seq(S) /\ Len(rest) = Len(s) - 1
        /\ \A i \in 1 .. Len(rest) : rest[i] = s[i + 1]
    BY <1>1, <1>4, HeadTailProperties, Zenon
  <1> HIDE DEF rest
  <1>6. rest \in Seq(S) /\ Len(rest) = 3 /\ \A i \in 1 .. 3 : rest[i] = s[i + 1]
    BY <1>1, <1>5
  <1>7. /\ Append(rest, e) \in Seq(S) /\ Len(Append(rest, e)) = 4
        /\ \A i \in 1 .. 3 : Append(rest, e)[i] = rest[i]
    BY <1>6, ThreeAndOne
  <1>8. Append(rest, e) \in [1 .. 4 -> S]
    BY <1>7, LenProperties
  <1>9. QED
    BY <1>6, <1>7, <1>8 DEF rest

LEMMA TopTwo ==
  ASSUME NEW S, NEW s \in [1 .. 4 -> S]
  PROVE  SubSeq(s, 1, 2) = <<s[1], s[2]>> /\ SubSeq(s, 1, 2) \in S \X S
  <1> DEFINE two == SubSeq(s, 1, 2)
             pair == <<s[1], s[2]>>
  <1>1. two \in Seq(S) /\ Len(two) = 2 /\ \A i \in 1 .. 2 : two[i] = s[i]
    BY SubSeqProperties
  <1>2. pair \in S \X S
    OBVIOUS
  <1>3. pair \in Seq(S) /\ Len(pair) = 2 /\ \A i \in 1 .. 2 : pair[i] = s[i]
    OBVIOUS
  <1> HIDE DEF two, pair
  <1>4. two = pair
    BY <1>1, <1>3, SeqEqual
  <1>5. QED
    BY <1>2, <1>4 DEF two, pair

-----------------------------------------------------------------------------
(* The same for the stack of the hart.                                     *)

LEMMA Pushed ==
  ASSUME mstatus \in Stack, NEW prv \in Modes, mstatus' = Push(prv)
  PROVE  /\ mstatus' \in Stack
         /\ mstatus'[1] = [prv |-> prv, ie |-> FALSE]
         /\ \A i \in 2 .. 4 : mstatus'[i] = mstatus[i - 1]
  <1> DEFINE l == [prv |-> prv, ie |-> FALSE]
  <1>1. l \in Level
    BY DEF Level
  <1>2. mstatus' = <<l>> \o SubSeq(mstatus, 1, 3)
    BY DEF Push, Depth
  <1> HIDE DEF l
  <1>3. mstatus \in [1 .. 4 -> Level]
    BY DEF Stack
  <1>4. /\ <<l>> \o SubSeq(mstatus, 1, 3) \in [1 .. 4 -> Level]
        /\ (<<l>> \o SubSeq(mstatus, 1, 3))[1] = l
        /\ \A i \in 2 .. 4 : (<<l>> \o SubSeq(mstatus, 1, 3))[i] = mstatus[i - 1]
    BY <1>1, <1>3, PushIs
  <1>5. QED
    BY <1>2, <1>4, Zenon DEF Stack, l

LEMMA Popped ==
  ASSUME mstatus \in Stack
  PROVE  /\ Pop \in Stack
         /\ \A i \in 1 .. 3 : Pop[i] = mstatus[i + 1]
  <1>1. [prv |-> "U", ie |-> TRUE] \in Level
    BY DEF Level, Modes
  <1>2. QED
    BY <1>1, PopIs DEF Stack, Pop

-----------------------------------------------------------------------------
(* The initial state.                                                      *)

LEMMA InitInv == Init => Inv
  <1> SUFFICES ASSUME Init PROVE Inv
    OBVIOUS
  <1>1. FrameInv
    BY DEF Init, FrameInv, Places
  <1>2. /\ mstatus[1] = [prv |-> "S", ie |-> FALSE] /\ mstatus \in Stack
    <2> DEFINE s == [prv |-> "S", ie |-> FALSE]
               u == [prv |-> "U", ie |-> TRUE]
    <2>1. s \in Level /\ u \in Level
      BY DEF Level, Modes
    <2>2. mstatus = <<s, u, u, u>>
      BY DEF Init
    <2> HIDE DEF s, u
    <2>3. mstatus \in Stack /\ mstatus[1] = s
      BY <2>1, <2>2, FourTuple DEF Stack
    <2>4. QED
      BY <2>3 DEF s
  <1>3. origin \in Level \X Level
    BY <1>2, TopTwo DEF Init, Stack
  <1>4. OriginInv
    BY <1>2, <1>3 DEF Init, OriginInv, Below, Level, Modes, Straight
  <1>5. CauseInv
    BY DEF Init, CauseInv
  <1>6. SavedInv
    BY NestAssumption DEF Init, SavedInv
  <1>7. TimerInv
    BY DEF Init, TimerInv, TimerNotLost
  <1>8. QED
    BY <1>1, <1>4, <1>5, <1>6, <1>7 DEF Inv

-----------------------------------------------------------------------------
(* The steps below the monitor.                                            *)

LEMMA SetInterruptsStep == Inv /\ SetInterrupts => Inv'
  <1> SUFFICES ASSUME Inv, SetInterrupts PROVE Inv'
    OBVIOUS
  <1>1. FrameInv' /\ CauseInv' /\ SavedInv' /\ TimerInv'
    BY DEF Inv, SetInterrupts, FrameInv, CauseInv, SavedInv, TimerInv, TimerNotLost, timer,
           Exchanged, InFrame
  <1>2. mstatus' \in Stack /\ mstatus'[1] \in Below
    <2> DEFINE ie == ~mstatus[1].ie
               top == [mstatus[1] EXCEPT !.ie = ie]
    <2>1. /\ mstatus \in Stack /\ mstatus[1] \in Below
          /\ mstatus' = [mstatus EXCEPT ![1] = top]
      BY DEF Inv, SetInterrupts, OriginInv
    <2>2. mstatus[1] \in Level /\ mstatus[1].prv # "M" /\ ie \in BOOLEAN
      BY <2>1 DEF Below
    <2> HIDE DEF ie
    <2>3. top \in Level
      BY <2>2, FieldSet DEF Level
    <2>4. top.prv = mstatus[1].prv
      BY <2>2 DEF Level
    <2> HIDE DEF top
    <2>5. mstatus' \in Stack /\ mstatus'[1] = top
      BY <2>1, <2>3 DEF Stack
    <2>6. QED
      BY <2>2, <2>3, <2>4, <2>5 DEF Below
  <1>3. OriginInv'
    BY <1>2 DEF Inv, SetInterrupts, OriginInv, Straight
  <1>4. QED
    BY <1>1, <1>3 DEF Inv

LEMMA LastSaved ==
  ASSUME NEW S, NEW s \in Seq(S), s # << >>
  PROVE  /\ s[Len(s)] \in S /\ Len(s) \in Nat \ {0}
         /\ SubSeq(s, 1, Len(s) - 1) \in Seq(S)
         /\ Len(SubSeq(s, 1, Len(s) - 1)) = Len(s) - 1
  <1>1. Len(s) \in Nat \ {0} /\ \A i \in 1 .. Len(s) : s[i] \in S
    BY EmptySeq, ElementOfSeq
  <1>2. \A i \in 1 .. Len(s) - 1 : s[i] \in S
    BY <1>1
  <1> DEFINE n == Len(s) - 1
             rest == SubSeq(s, 1, n)
  <1>3. n \in Nat /\ \A i \in 1 .. n : s[i] \in S
    BY <1>1, <1>2
  <1> HIDE DEF n
  <1>4. rest \in Seq(S) /\ Len(rest) = IF 1 <= n THEN n - 1 + 1 ELSE 0
    BY <1>3, SubSeqProperties
  <1>5. Len(rest) = n
    BY <1>3, <1>4
  <1>6. s[Len(s)] \in S
    BY <1>1
  <1>7. QED
    BY <1>1, <1>4, <1>5, <1>6 DEF n

LEMMA SretStep == Inv /\ Sret => Inv'
  <1> SUFFICES ASSUME Inv, Sret PROVE Inv'
    OBVIOUS
  <1>1. /\ at = "below" /\ saved \in Seq(Below) /\ mstatus \in Stack
        /\ Len(saved) <= MaxNest + 1
    BY DEF Inv, Sret, SavedInv, OriginInv
  <1>2. FrameInv' /\ CauseInv' /\ TimerInv'
    BY DEF Inv, Sret, FrameInv, CauseInv, TimerInv, TimerNotLost, timer, Exchanged, InFrame
  <1>3. SavedInv'
    <2>1. CASE saved = << >>
      BY <1>1, <2>1 DEF Sret, SavedInv
    <2>2. CASE saved # << >>
      BY <1>1, <2>2, LastSaved, NestAssumption DEF Sret, SavedInv
    <2>3. QED
      BY <2>1, <2>2
  <1> DEFINE back == IF saved = << >> THEN [prv |-> "U", ie |-> TRUE] ELSE saved[Len(saved)]
  <1>4. back \in Below
    <2>1. CASE saved = << >>
      BY <2>1 DEF Below, Level, Modes
    <2>2. CASE saved # << >>
      BY <1>1, <2>2, LastSaved
    <2>3. QED
      BY <2>1, <2>2
  <1>5. mstatus' = [Pop EXCEPT ![1] = back] /\ UNCHANGED <<at, cause, origin>>
    BY DEF Sret
  <1> HIDE DEF back
  <1>6. mstatus' \in Stack /\ mstatus'[1] = back
    BY <1>1, <1>4, <1>5, Popped DEF Stack, Below
  <1>7. OriginInv'
    BY <1>1, <1>4, <1>5, <1>6 DEF Inv, OriginInv, Straight
  <1>8. QED
    BY <1>2, <1>3, <1>7 DEF Inv

LEMMA TickStep == Inv /\ Tick => Inv'
  BY DEF Inv, Tick, FrameInv, OriginInv, CauseInv, SavedInv, TimerInv, TimerNotLost,
         Exchanged, InFrame

-----------------------------------------------------------------------------
(* The way in.                                                             *)

LEMMA TrapStep ==
  ASSUME Inv, NEW c \in Causes, Trap(c)
  PROVE  Inv'
  <1>1. /\ at = "below" /\ cause' = c /\ at' = Route(c) /\ mstatus' = Push("M")
        /\ origin' = SubSeq(mstatus, 1, 2) /\ sp' = mscratch /\ mscratch' = sp
        /\ UNCHANGED <<regs_sp, timer, saved>>
    BY DEF Trap
  <1>2. mstatus \in Stack /\ mstatus[1] \in Below
    BY <1>1 DEF Inv, OriginInv
  <1>3. /\ at' \in {"check_double", "mrts", "timer", "interrupt_supervisor", "dispatch"}
        /\ c = "fault" => at' \in {"check_double", "mrts"}
        /\ at' = "check_double" => c = "fault"
        /\ at' = "mrts" => c = "fault"
        /\ at' = "dispatch" => c \in {"emulated", "ecall", "io"}
    BY <1>1 DEF Causes, Interrupts, Route
  <1>4. FrameInv'
    BY <1>1, <1>3 DEF Inv, FrameInv, Places, Exchanged, InFrame
  <1>5. CauseInv'
    BY <1>1, <1>3 DEF CauseInv
  <1>6. SavedInv'
    <2>1. Len(saved) < MaxNest + 1
      BY NestAssumption DEF Inv, SavedInv, Trap
    <2>2. Len(saved) \in Nat
      BY LenProperties DEF Inv, SavedInv
    <2>3. QED
      BY <1>1, <2>1, <2>2, NestAssumption DEF Inv, SavedInv
  <1>7. TimerInv'
    BY <1>1, <1>3 DEF Inv, TimerInv, TimerNotLost, timer
  <1>8. OriginInv'
    <2>1. "M" \in Modes
      BY DEF Modes
    <2>2. /\ mstatus' \in Stack /\ mstatus'[1] = [prv |-> "M", ie |-> FALSE]
          /\ \A i \in 2 .. 4 : mstatus'[i] = mstatus[i - 1]
      BY <1>1, <1>2, <2>1, Pushed
    <2>3. mstatus'[2] = mstatus[1] /\ mstatus'[3] = mstatus[2]
      BY <2>2
    <2>4. origin' = <<mstatus[1], mstatus[2]>> /\ origin' \in Level \X Level
      BY <1>1, <1>2, TopTwo DEF Stack
    <2>5. origin'[1] = mstatus[1]
      BY <2>4
    <2>6. mstatus'[1].prv = "M"
      BY <2>2
    <2>7. QED
      BY <1>1, <1>2, <1>3, <2>2, <2>3, <2>4, <2>5, <2>6 DEF OriginInv, Straight
  <1>9. QED
    BY <1>4, <1>5, <1>6, <1>7, <1>8 DEF Inv

LEMMA PostTimerStep == Inv /\ PostTimer => Inv'
  BY DEF Inv, PostTimer, entryVars, FrameInv, OriginInv, CauseInv, SavedInv, TimerInv,
         TimerNotLost, Exchanged, InFrame, Places, Straight

LEMMA InterruptSupervisorStep == Inv /\ InterruptSupervisor => Inv'
  <1> SUFFICES ASSUME Inv, InterruptSupervisor PROVE Inv'
    OBVIOUS
  <1>1. /\ at = "interrupt_supervisor" /\ at' \in {"back", "mrts"}
        /\ at' = "mrts" => ~InterruptsOff
        /\ UNCHANGED <<mstatus, cause, sp, mscratch, regs_sp, saved, origin>>
    BY DEF InterruptSupervisor, entryVars
  <1>2. FrameInv' /\ CauseInv' /\ SavedInv' /\ TimerInv'
    BY <1>1 DEF Inv, InterruptSupervisor, FrameInv, CauseInv, SavedInv, TimerInv,
                TimerNotLost, timer, Exchanged, InFrame, Places
  <1>3. origin[1] = mstatus[2]
    BY <1>1 DEF Inv, OriginInv, Straight
  <1>4. at' = "mrts" => origin[1] # [prv |-> "S", ie |-> FALSE]
    BY <1>1, <1>3 DEF InterruptsOff
  <1>5. OriginInv'
    BY <1>1, <1>3, <1>4 DEF Inv, OriginInv, Straight
  <1>6. QED
    BY <1>2, <1>5 DEF Inv

LEMMA CheckDoubleStep == Inv /\ CheckDouble => Inv'
  <1> SUFFICES ASSUME Inv, CheckDouble PROVE Inv'
    OBVIOUS
  <1>1. /\ at = "check_double" /\ at' = "mrts" /\ cause = "fault"
        /\ UNCHANGED <<cause, sp, mscratch, regs_sp, saved, origin>>
    BY DEF Inv, CauseInv, CheckDouble, entryVars
  <1>2. FrameInv' /\ CauseInv' /\ SavedInv' /\ TimerInv'
    BY <1>1 DEF Inv, CheckDouble, FrameInv, CauseInv, SavedInv, TimerInv,
                TimerNotLost, timer, Exchanged, InFrame, Places
  <1>3. mstatus \in Stack /\ origin[1] = mstatus[2] /\ mstatus[1].prv = "M"
    BY <1>1 DEF Inv, OriginInv, Straight
  <1>4. /\ mstatus' \in Stack /\ mstatus'[1] = mstatus[1]
        /\ mstatus'[2] \in {mstatus[2], [mstatus[2] EXCEPT !.ie = FALSE]}
    <2> DEFINE u == [prv |-> "U", ie |-> FALSE]
               off == [mstatus[2] EXCEPT !.ie = FALSE]
    <2>1. mstatus' = [mstatus EXCEPT ![3] = u, ![2] = off] \/ mstatus' = mstatus
      BY DEF CheckDouble
    <2>2. u \in Level
      BY DEF Level, Modes
    <2>3. off \in Level
      BY <1>3, TurnedOff DEF Stack
    <2> HIDE DEF u, off
    <2>4. CASE mstatus' = [mstatus EXCEPT ![3] = u, ![2] = off]
      <3>1. mstatus' \in Stack
        BY <1>3, <2>2, <2>3, <2>4 DEF Stack
      <3>2. mstatus'[1] = mstatus[1] /\ mstatus'[2] = off
        BY <1>3, <2>4 DEF Stack
      <3>3. QED
        BY <3>1, <3>2 DEF off
    <2>5. CASE mstatus' = mstatus
      BY <1>3, <2>5
    <2>6. QED
      BY <2>1, <2>4, <2>5
  <1>5. OriginInv'
    BY <1>1, <1>3, <1>4 DEF Inv, OriginInv, Straight
  <1>6. QED
    BY <1>2, <1>5 DEF Inv

LEMMA DispatchStep == Inv /\ Dispatch => Inv'
  BY DEF Inv, Dispatch, FrameInv, OriginInv, CauseInv, SavedInv, TimerInv, timer,
         TimerNotLost, Exchanged, InFrame, Places, Straight

-----------------------------------------------------------------------------
(* The handlers.                                                           *)

LEMMA NestedTrapStep == Inv /\ NestedTrap => Inv'
  <1> SUFFICES ASSUME Inv, NestedTrap PROVE Inv'
    OBVIOUS
  <1>1. /\ at = "handler" /\ at' = "nested" /\ mstatus' = Push("M")
        /\ sp' = "nested" /\ mscratch' = "nested"
        /\ UNCHANGED <<cause, regs_sp, timer, saved, origin>>
    BY DEF NestedTrap
  <1>2. FrameInv' /\ CauseInv' /\ SavedInv' /\ TimerInv'
    BY <1>1 DEF Inv, FrameInv, CauseInv, SavedInv, TimerInv, TimerNotLost, timer, Exchanged,
                InFrame, Places
  <1>3. /\ mstatus \in Stack /\ mstatus[1].prv = "M" /\ "M" \in Modes
        /\ origin = <<mstatus[2], mstatus[3]>> /\ origin[1] \in Below
        /\ origin \in Level \X Level
    BY <1>1 DEF Inv, OriginInv, Straight, Modes
  <1>4. /\ mstatus' \in Stack /\ mstatus'[1] = [prv |-> "M", ie |-> FALSE]
        /\ \A i \in 2 .. 4 : mstatus'[i] = mstatus[i - 1]
    BY <1>1, <1>3, Pushed
  <1>5. /\ mstatus'[2] = mstatus[1] /\ mstatus'[3] = mstatus[2] /\ mstatus'[4] = mstatus[3]
        /\ mstatus'[1].prv = "M"
    BY <1>4
  <1>6. OriginInv'
    BY <1>1, <1>3, <1>4, <1>5 DEF OriginInv, Straight
  <1>7. QED
    BY <1>2, <1>6 DEF Inv

LEMMA NestedReturnStep == Inv /\ NestedReturn => Inv'
  <1> SUFFICES ASSUME Inv, NestedReturn PROVE Inv'
    OBVIOUS
  <1>1. /\ at = "nested" /\ at' = "handler" /\ mstatus' = Pop
        /\ sp' = "frame" /\ mscratch' = "frame"
        /\ UNCHANGED <<cause, regs_sp, timer, saved, origin>>
    BY DEF NestedReturn, ScratchRestored
  <1>2. FrameInv' /\ CauseInv' /\ SavedInv' /\ TimerInv'
    BY <1>1 DEF Inv, FrameInv, CauseInv, SavedInv, TimerInv, TimerNotLost, timer, Exchanged,
                InFrame, Places
  <1>3. /\ mstatus \in Stack /\ mstatus[2].prv = "M"
        /\ origin = <<mstatus[3], mstatus[4]>> /\ origin[1] \in Below
        /\ origin \in Level \X Level
    BY <1>1 DEF Inv, OriginInv
  <1>4. mstatus' \in Stack /\ \A i \in 1 .. 3 : mstatus'[i] = mstatus[i + 1]
    BY <1>1, <1>3, Popped
  <1>5. mstatus'[1] = mstatus[2] /\ mstatus'[2] = mstatus[3] /\ mstatus'[3] = mstatus[4]
    BY <1>4
  <1>6. OriginInv'
    BY <1>1, <1>3, <1>4, <1>5 DEF OriginInv, Straight
  <1>7. QED
    BY <1>2, <1>6 DEF Inv

LEMMA SetTimerStep == Inv /\ SetTimer => Inv'
  BY DEF Inv, SetTimer, entryVars, FrameInv, OriginInv, CauseInv, SavedInv, TimerInv,
         TimerNotLost, Exchanged, InFrame, Places, Straight

LEMMA HandleStep == Inv /\ Handle => Inv'
  <1> SUFFICES ASSUME Inv, Handle PROVE Inv'
    OBVIOUS
  <1>1. /\ at = "handler" /\ at' \in {"eret", "mrts"}
        /\ cause \in {"emulated", "ecall", "io"}
        /\ UNCHANGED <<mstatus, timer, cause, sp, mscratch, regs_sp, saved, origin>>
    BY DEF Inv, CauseInv, Handle, entryVars
  <1>2. FrameInv' /\ CauseInv' /\ SavedInv' /\ TimerInv'
    BY <1>1 DEF Inv, FrameInv, CauseInv, SavedInv, TimerInv, TimerNotLost, timer, Exchanged,
                InFrame, Places
  <1>3. OriginInv'
    BY <1>1 DEF Inv, OriginInv, Straight
  <1>4. QED
    BY <1>2, <1>3 DEF Inv

-----------------------------------------------------------------------------
(* The ways out.  Both exchange or restore the stack pointers.             *)

LEMMA SpRestored ==
  ASSUME FrameInv, at \in {"eret", "back", "mrts"}, RestoreSp
  PROVE  sp' = "program" /\ mscratch' = "frame"
  BY DEF FrameInv, RestoreSp, Dispatched, Exchanged, InFrame

\* What eret leaves on top of the stack is what the program had.
LEMMA EretResumes ==
  ASSUME Inv, Eret
  PROVE  /\ mstatus' \in Stack /\ mstatus'[1] \in Below
         /\ SubSeq(mstatus', 1, 2) = origin
  <1>1. at \in {"eret", "back"} /\ mstatus' = Pop
    BY DEF Eret
  <1>2. mstatus \in Stack /\ origin = <<mstatus[2], mstatus[3]>> /\ origin[1] \in Below
    BY <1>1 DEF Inv, OriginInv, Straight
  <1>3. mstatus' \in Stack /\ \A i \in 1 .. 3 : mstatus'[i] = mstatus[i + 1]
    BY <1>1, <1>2, Popped
  <1>4. mstatus'[1] = mstatus[2] /\ mstatus'[2] = mstatus[3]
    BY <1>3
  <1>5. SubSeq(mstatus', 1, 2) = <<mstatus'[1], mstatus'[2]>>
    BY <1>3, TopTwo DEF Stack
  <1>6. QED
    BY <1>2, <1>3, <1>4, <1>5

LEMMA EretStep == Inv /\ Eret => Inv'
  <1> SUFFICES ASSUME Inv, Eret PROVE Inv'
    OBVIOUS
  <1>1. /\ at \in {"eret", "back"} /\ at' = "below" /\ cause' = "none" /\ RestoreSp
        /\ UNCHANGED <<regs_sp, timer, saved, origin>>
    BY DEF Eret
  <1>2. sp' = "program" /\ mscratch' = "frame"
    BY <1>1, SpRestored DEF Inv
  <1>3. FrameInv' /\ CauseInv' /\ TimerInv'
    BY <1>1, <1>2 DEF Inv, FrameInv, CauseInv, TimerInv, TimerNotLost, timer, Exchanged,
                      InFrame, Places
  <1>4. SavedInv'
    BY <1>1 DEF Inv, SavedInv
  <1>5. OriginInv'
    BY <1>1, EretResumes DEF Inv, OriginInv, Straight
  <1>6. QED
    BY <1>3, <1>4, <1>5 DEF Inv

LEMMA MrtsStep == Inv /\ Mrts => Inv'
  <1> SUFFICES ASSUME Inv, Mrts PROVE Inv'
    OBVIOUS
  <1>1. /\ at = "mrts" /\ at' = "below" /\ cause' = "none" /\ RestoreSp
        /\ mstatus' = [mstatus EXCEPT ![1] = [prv |-> "S", ie |-> FALSE]]
        /\ saved' = Append(saved, mstatus[2])
        /\ UNCHANGED <<regs_sp, timer, origin>>
    BY DEF Mrts
  <1>2. sp' = "program" /\ mscratch' = "frame"
    BY <1>1, SpRestored DEF Inv
  <1>3. FrameInv' /\ CauseInv' /\ TimerInv'
    BY <1>1, <1>2 DEF Inv, FrameInv, CauseInv, TimerInv, TimerNotLost, timer, Exchanged,
                      InFrame, Places
  <1>4. [prv |-> "S", ie |-> FALSE] \in Below
    BY DEF Below, Level, Modes
  <1>5. mstatus \in Stack /\ origin[1] \in Below
    BY <1>1 DEF Inv, OriginInv
  <1>6. mstatus[2] \in Below
    BY <1>1, <1>5 DEF Inv, OriginInv, Below, Level, Stack
  <1>7. SavedInv'
    <2>1. saved \in Seq(Below) /\ Len(saved) <= MaxNest
      BY <1>1 DEF Inv, SavedInv
    <2>2. Append(saved, mstatus[2]) \in Seq(Below)
      BY <1>6, <2>1, AppendLen
    <2>3. Len(Append(saved, mstatus[2])) = Len(saved) + 1 /\ Len(saved) \in Nat
      BY <1>6, <2>1, AppendLen, LenProperties
    <2>4. QED
      BY <1>1, <2>1, <2>2, <2>3, NestAssumption DEF SavedInv
  <1>8. mstatus' \in Stack /\ mstatus'[1] \in Below
    BY <1>1, <1>4, <1>5 DEF Stack, Below
  <1>9. OriginInv'
    BY <1>1, <1>8 DEF Inv, OriginInv, Straight
  <1>10. QED
    BY <1>3, <1>7, <1>9 DEF Inv

-----------------------------------------------------------------------------
LEMMA InvKept == Inv /\ [Next]_vars => Inv'
  <1> SUFFICES ASSUME Inv, [Next]_vars PROVE Inv'
    OBVIOUS
  <1>1. CASE SetInterrupts BY <1>1, SetInterruptsStep
  <1>2. CASE Sret BY <1>2, SretStep
  <1>3. CASE Tick BY <1>3, TickStep
  <1>4. CASE NestedTrap BY <1>4, NestedTrapStep
  <1>5. CASE PostTimer BY <1>5, PostTimerStep
  <1>6. CASE InterruptSupervisor BY <1>6, InterruptSupervisorStep
  <1>7. CASE CheckDouble BY <1>7, CheckDoubleStep
  <1>8. CASE Dispatch BY <1>8, DispatchStep
  <1>9. CASE NestedReturn BY <1>9, NestedReturnStep
  <1>10. CASE SetTimer BY <1>10, SetTimerStep
  <1>11. CASE Handle BY <1>11, HandleStep
  <1>12. CASE Eret BY <1>12, EretStep
  <1>13. CASE Mrts BY <1>13, MrtsStep
  <1>14. ASSUME NEW c \in Causes, Trap(c) PROVE Inv'
    BY <1>14, TrapStep
  <1>15. CASE UNCHANGED vars
    BY <1>15 DEF vars, timer, Inv, FrameInv, OriginInv, CauseInv, SavedInv, TimerInv,
                 TimerNotLost, Exchanged, InFrame, Straight
  <1>16. QED
    BY <1>1, <1>2, <1>3, <1>4, <1>5, <1>6, <1>7, <1>8, <1>9, <1>10, <1>11, <1>12, <1>13,
       <1>14, <1>15 DEF Next, Monitor

\* Everything above holds in every reachable state.
THEOREM InvAlways == Spec => []Inv
  <1>1. QED
    BY InitInv, InvKept, PTL DEF Spec

\* Every variable keeps its type; machine mode is where the monitor is.
THEOREM TypeCorrect == Spec => []TypeOK
  <1>1. Inv => TypeOK
    <2> SUFFICES ASSUME Inv PROVE TypeOK
      OBVIOUS
    <2>1. mstatus \in [1 .. Depth -> Level] /\ (mstatus[1].prv = "M" <=> at # "below")
      BY DEF Inv, OriginInv, Stack, Depth, Below
    <2>2. /\ at \in Places /\ cause \in Causes \cup {"none"}
          /\ {sp, mscratch, regs_sp} \subseteq {"program", "frame", "nested"}
      BY DEF Inv, FrameInv, CauseInv, Exchanged, InFrame, Places
    <2>3. saved \in Seq(Level) /\ Len(saved) <= MaxNest + 1
      <3>1. Below \subseteq Level
        BY DEF Below
      <3>2. QED
        BY <3>1, SeqMonotonic DEF Inv, SavedInv
    <2>4. origin \in Seq(Level)
      BY PairIsSeq DEF Inv, OriginInv
    <2>5. QED
      BY <2>1, <2>2, <2>3, <2>4 DEF Inv, TimerInv, TypeOK, Places
  <1>2. QED
    BY <1>1, InvAlways, PTL

\* Whichever way the hart left the monitor, and even if the monitor was
\* entered from itself, the next entry finds the frame in mscratch.
THEOREM ScratchAlwaysReady == Spec => []ScratchReady
  <1>1. Inv => ScratchReady
    BY DEF Inv, FrameInv, ScratchReady
  <1>2. QED
    BY <1>1, InvAlways, PTL

\* While the supervisor waits for a timer, it is enabled, posted, or about to be.
THEOREM TimersKept == Spec => []TimerNotLost
  <1>1. Inv => TimerNotLost
    BY DEF Inv, TimerInv
  <1>2. QED
    BY <1>1, InvAlways, PTL

\* A step out of the monitor.
Leaves ==
  at # "below" /\ at' = "below" =>
    IF at = "mrts"
    THEN /\ \/ mstatus'[2] = origin[1]
            \/ cause = "fault" /\ mstatus'[2] = [origin[1] EXCEPT !.ie = FALSE]
         /\ cause \in {"timer", "soft"} => origin[1] # [prv |-> "S", ie |-> FALSE]
    ELSE SubSeq(mstatus', 1, 2) = origin

\* A program goes on as it was, or its supervisor is told what it was; an
\* interrupt does not enter a supervisor that has interrupts off.
THEOREM ResumesAsInterrupted == Spec => LeavesAsEntered
  <1>1. Inv /\ [Next]_vars => [Leaves]_vars
    <2> SUFFICES ASSUME Inv, [Next]_vars, at # "below", at' = "below" PROVE Leaves
      BY DEF Leaves
    <2>1. Eret \/ Mrts
      BY DEF Next, Monitor, SetInterrupts, Sret, Tick, NestedTrap, PostTimer,
             InterruptSupervisor, CheckDouble, Dispatch, NestedReturn, SetTimer, Handle,
             Trap, vars
    <2>2. CASE Eret
      BY <2>2, EretResumes DEF Leaves, Eret
    <2>3. CASE Mrts
      <3>1. at = "mrts" /\ mstatus' = [mstatus EXCEPT ![1] = [prv |-> "S", ie |-> FALSE]]
        BY <2>3 DEF Mrts
      <3>2. mstatus'[2] = mstatus[2]
        BY <3>1 DEF Inv, OriginInv, Stack
      <3>3. QED
        BY <3>1, <3>2 DEF Inv, OriginInv, Leaves
    <2>4. QED
      BY <2>1, <2>2, <2>3
  <1>2. [][Leaves]_vars <=> LeavesAsEntered
    BY DEF Leaves, LeavesAsEntered
  <1>3. QED
    BY <1>1, <1>2, InvAlways, PTL DEF Spec
=============================================================================
