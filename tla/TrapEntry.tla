----------------------------- MODULE TrapEntry ------------------------------
(***************************************************************************)
(* How one hart enters the monitor and leaves it again (bbl/mentry.S, the  *)
(* dispatch and the timer of bbl/mtrap.c).  The hardware keeps the modes   *)
(* it came from, with their interrupt enables, on the stack PRV, PRV1,     *)
(* PRV2, PRV3 of mstatus; a trap pushes, eret pops, mrts turns a trap to   *)
(* the machine into a trap to the supervisor.  The monitor runs with       *)
(* interrupts off, but the emulation of an instruction may fault in it.    *)
(*                                                                         *)
(* The supervisor is external: it turns interrupts on and off, saves PRV1  *)
(* and IE1 when it is entered and puts them back before it returns, and    *)
(* sets timers.                                                            *)
(***************************************************************************)
EXTENDS Integers, Sequences

CONSTANT MaxNest  \* handlers the supervisor has in progress when an exception
                  \* is raised, at most; an interrupt may come one deeper

ASSUME NestAssumption == MaxNest \in Nat \ {0}

Modes == {"U", "S", "M"}
Level == [prv : Modes, ie : BOOLEAN]
Depth == 4

VARIABLES
  mstatus,   \* the stack; level 1 is the present mode
  at,        \* where the hart is in the monitor, or "below" it
  cause,     \* what it was entered for
  sp,        \* whose stack it points to: program, frame, nested
  mscratch,
  regs_sp,   \* the saved sp of the integer context
  mtie,      \* mie.MTIP
  mtip, stip, \* mip.MTIP, mip.STIP
  deadline,  \* whether the supervisor waits for a timer it has set
  saved,     \* what the supervisor saved, one level for each handler in progress
  origin     \* history: the two top levels when the monitor was entered

timer == <<mtie, mtip, stip, deadline>>
vars == <<mstatus, at, cause, sp, mscratch, regs_sp, timer, saved, origin>>

Push(prv) == <<[prv |-> prv, ie |-> FALSE]>> \o SubSeq(mstatus, 1, Depth - 1)
Pop == Append(Tail(mstatus), [prv |-> "U", ie |-> TRUE])

Init ==
  /\ mstatus = <<[prv |-> "S", ie |-> FALSE], [prv |-> "U", ie |-> TRUE],
                 [prv |-> "U", ie |-> TRUE], [prv |-> "U", ie |-> TRUE]>>
  /\ at = "below" /\ cause = "none"
  /\ sp = "program" /\ mscratch = "frame" /\ regs_sp = "program"
  /\ mtie = FALSE /\ mtip = FALSE /\ stip = FALSE /\ deadline = FALSE
  /\ saved = << >> /\ origin = SubSeq(mstatus, 1, 2)

-----------------------------------------------------------------------------
(* The program below the monitor.                                          *)

Mode == mstatus[1].prv

\* The supervisor turns its interrupts on or off.
SetInterrupts ==
  /\ at = "below" /\ Mode = "S"
  /\ mstatus' = [mstatus EXCEPT ![1].ie = ~@]
  /\ UNCHANGED <<at, cause, sp, mscratch, regs_sp, timer, saved, origin>>

\* It ends a handler, or starts the user program.
Sret ==
  /\ at = "below" /\ Mode = "S"
  /\ LET back == IF saved = << >> THEN [prv |-> "U", ie |-> TRUE]
                 ELSE saved[Len(saved)]
     IN mstatus' = [Pop EXCEPT ![1] = back]
  /\ saved' = IF saved = << >> THEN saved ELSE SubSeq(saved, 1, Len(saved) - 1)
  /\ UNCHANGED <<at, cause, sp, mscratch, regs_sp, timer, origin>>

\* The clock reaches mtimecmp.
Tick ==
  /\ deadline /\ ~mtip
  /\ mtip' = TRUE
  /\ UNCHANGED <<mstatus, at, cause, sp, mscratch, regs_sp, mtie, stip, deadline, saved,
                 origin>>

\* What may trap: exceptions the supervisor handles, and the ones the monitor
\* does; the supervisor's call; interrupts of the monitor, which it cannot
\* mask below machine mode, and the supervisor's own, which it can.
MayTrap(c) ==
  CASE c \in {"fault", "emulated"} -> TRUE
    [] c = "ecall" -> Mode = "S"
    [] c = "timer" -> (mtip /\ mtie) \/ (stip /\ (Mode = "U" \/ mstatus[1].ie))
    [] c \in {"soft", "io"} -> TRUE

Interrupts == {"timer", "soft", "io"}

\* mentry: where each cause goes first.
Route(c) ==
  CASE c = "fault" -> IF Mode = "S" THEN "check_double" ELSE "mrts"
    [] c = "timer" -> "timer"
    [] c = "soft" -> "interrupt_supervisor"
    [] c \in {"emulated", "ecall", "io"} -> "dispatch"

Trap(c) ==
  /\ at = "below" /\ MayTrap(c)
  /\ Len(saved) < IF c \in Interrupts THEN MaxNest + 1 ELSE MaxNest
  /\ mstatus' = Push("M")
  /\ cause' = c
  /\ at' = Route(c)
  /\ sp' = mscratch /\ mscratch' = sp
  /\ origin' = SubSeq(mstatus, 1, 2)
  /\ UNCHANGED <<regs_sp, timer, saved>>

-----------------------------------------------------------------------------
(* The entry code.                                                         *)

entryVars == <<cause, sp, mscratch, regs_sp, saved, origin>>

\* Mutant: the interrupt is left enabled and the supervisor is not told.
PostTimerUntold ==
  /\ at = "timer"
  /\ mtip' = FALSE /\ mtie' = FALSE /\ UNCHANGED stip
  /\ at' = "interrupt_supervisor"
  /\ UNCHANGED <<mstatus, deadline, entryVars>>

\* A timer interrupt is posted to the supervisor, and not taken again until
\* the next mcall_set_timer.
PostTimer ==
  /\ at = "timer"
  /\ mtip' = FALSE /\ mtie' = FALSE /\ stip' = TRUE
  /\ at' = "interrupt_supervisor"
  /\ UNCHANGED <<mstatus, deadline, entryVars>>

\* Mutant: the interrupt enable of the supervisor is not looked at.
InterruptsOffAlways == mstatus[2].prv = "S" \/ ~mstatus[2].ie
InterruptsOff == mstatus[2].prv = "S" /\ ~mstatus[2].ie

InterruptSupervisor ==
  /\ at = "interrupt_supervisor"
  /\ at' = IF InterruptsOff THEN "back" ELSE "mrts"
  /\ UNCHANGED <<mstatus, timer, entryVars>>

\* A supervisor that was entered from itself is told it came from user mode.
Doubled == mstatus[3].prv \in {"S", "M"}
\* Mutant: the mask names PRV1.
CheckDoublePrv1 ==
  /\ at = "check_double"
  /\ mstatus' = IF Doubled
                THEN [mstatus EXCEPT ![2] = [prv |-> "U", ie |-> FALSE]]
                ELSE mstatus
  /\ at' = "mrts"
  /\ UNCHANGED <<timer, entryVars>>

CheckDouble ==
  /\ at = "check_double"
  /\ mstatus' = IF Doubled
                THEN [mstatus EXCEPT ![3] = [prv |-> "U", ie |-> FALSE], ![2].ie = FALSE]
                ELSE mstatus
  /\ at' = "mrts"
  /\ UNCHANGED <<timer, entryVars>>

\* The registers go to the frame, and so does mscratch.
Dispatch ==
  /\ at = "dispatch"
  /\ regs_sp' = mscratch /\ mscratch' = sp
  /\ at' = "handler"
  /\ UNCHANGED <<mstatus, cause, sp, timer, saved, origin>>

-----------------------------------------------------------------------------
(* The handlers.                                                           *)

\* An unprivileged access of an emulation faults: the monitor is entered from
\* itself, on the same stack, below the frame.
NestedTrap ==
  /\ at = "handler" /\ cause = "emulated"
  /\ mstatus' = Push("M")
  /\ sp' = "nested" /\ mscratch' = "nested"
  /\ at' = "nested"
  /\ UNCHANGED <<cause, regs_sp, timer, saved, origin>>

\* Mutants: mscratch is left at the nested frame; the way back jumps, and does
\* not pop.
ScratchLeft == mscratch
ScratchRestored == "frame"

NestedJump ==
  /\ at = "nested"
  /\ mscratch' = ScratchRestored
  /\ UNCHANGED mstatus
  /\ sp' = "frame"
  /\ at' = "handler"
  /\ UNCHANGED <<cause, regs_sp, timer, saved, origin>>

\* trap_from_machine_mode, machine_page_fault: past the access, with t0 zero.
NestedReturn ==
  /\ at = "nested"
  /\ mscratch' = ScratchRestored
  /\ mstatus' = Pop
  /\ sp' = "frame"
  /\ at' = "handler"
  /\ UNCHANGED <<cause, regs_sp, timer, saved, origin>>

\* mcall_set_timer; whether the hardware keeps an old MTIP is not known.
SetTimer ==
  /\ at = "handler" /\ cause = "ecall"
  /\ deadline' = TRUE
  /\ mtip' \in {FALSE, mtip} /\ stip' = FALSE /\ mtie' = TRUE
  /\ at' = "eret"
  /\ UNCHANGED <<mstatus, entryVars>>

\* Every other handler: the trap is dealt with, or is the supervisor's.
Handle ==
  /\ at = "handler"
  /\ at' \in IF cause = "emulated" THEN {"eret", "mrts"} ELSE {"eret"}
  /\ UNCHANGED <<mstatus, timer, entryVars>>

-----------------------------------------------------------------------------
(* The ways out.                                                           *)

\* Before the dispatch sp and mscratch are exchanged again; after it sp comes
\* from the frame.
Dispatched == mscratch = "frame"
RestoreSp ==
  IF Dispatched
  THEN sp' = regs_sp /\ UNCHANGED mscratch
  ELSE sp' = mscratch /\ mscratch' = sp

Eret ==
  /\ at \in {"eret", "back"}
  /\ mstatus' = Pop
  /\ RestoreSp
  /\ at' = "below" /\ cause' = "none"
  /\ UNCHANGED <<regs_sp, timer, saved, origin>>

Mrts ==
  /\ at = "mrts"
  /\ mstatus' = [mstatus EXCEPT ![1] = [prv |-> "S", ie |-> FALSE]]
  /\ RestoreSp
  /\ at' = "below" /\ cause' = "none"
  /\ saved' = Append(saved, mstatus[2])
  /\ UNCHANGED <<regs_sp, timer, origin>>

-----------------------------------------------------------------------------
Causes == {"fault", "emulated", "ecall"} \cup Interrupts

Monitor == \/ PostTimer \/ InterruptSupervisor \/ CheckDouble \/ Dispatch
           \/ NestedReturn \/ SetTimer \/ Handle \/ Eret \/ Mrts

Next == \/ SetInterrupts \/ Sret \/ Tick \/ NestedTrap \/ Monitor
        \/ \E c \in Causes : Trap(c)

Spec == Init /\ [][Next]_vars

TurnOn == SetInterrupts /\ ~mstatus[1].ie

\* The hart runs, an emulation makes finitely many accesses, an interrupt that
\* is possible again and again is taken, and the supervisor's handlers end and
\* do not keep interrupts off for ever.
LiveSpec == /\ Spec
            /\ WF_vars(Monitor) /\ SF_vars(Handle) /\ SF_vars(Trap("timer"))
            /\ SF_vars(Sret) /\ SF_vars(TurnOn)

-----------------------------------------------------------------------------
TypeOK ==
  /\ mstatus \in [1 .. Depth -> Level]
  /\ at \in {"below", "check_double", "timer", "interrupt_supervisor", "dispatch",
             "handler", "nested", "eret", "back", "mrts"}
  /\ mstatus[1].prv = "M" <=> at # "below"
  /\ cause \in Causes \cup {"none"}
  /\ {sp, mscratch, regs_sp} \subseteq {"program", "frame", "nested"}
  /\ {mtie, mtip, stip, deadline} \subseteq BOOLEAN
  /\ saved \in Seq(Level) /\ Len(saved) <= MaxNest + 1
  /\ origin \in Seq(Level)

\* Below the monitor the stack pointers are where the next entry expects them,
\* whichever way the hart came out and however the monitor was re-entered.
ScratchReady == at = "below" => mscratch = "frame" /\ sp = "program"

\* A program the monitor interrupts goes on with the mode and the interrupt
\* enables it had, or its supervisor is told what they were; a double fault
\* alone may tell it interrupts were off.  And an interrupt does not enter a
\* supervisor that has interrupts off.
LeavesAsEntered ==
  [][at # "below" /\ at' = "below" =>
       IF at = "mrts"
       THEN /\ \/ mstatus'[2] = origin[1]
               \/ cause = "fault" /\ mstatus'[2] = [origin[1] EXCEPT !.ie = FALSE]
            /\ cause \in {"timer", "soft"} => origin[1] # [prv |-> "S", ie |-> FALSE]
       ELSE SubSeq(mstatus', 1, 2) = origin]_vars

\* A timer the supervisor has set can always still fire, or is posted to it.
TimerNotLost == deadline => mtie \/ stip \/ at = "timer"

\* A posted timer interrupt is delivered, unless the supervisor sets another.
TimerDelivered == stip ~> (at = "mrts" /\ cause = "timer") \/ ~stip
=============================================================================
