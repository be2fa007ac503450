------------------------------ MODULE ExecTick ------------------------------
(***************************************************************************)
(* The minor-cycle executive of src/src/exec/exec_core.c.                   *)
(*                                                                         *)
(* Two actors share two counters and no lock.  The timer interrupt         *)
(* (exec_on_minor_tick) preempts the loop between any two of its reads and *)
(* runs to completion; the loop (exec_wait_for_minor_tick, exec_resync)    *)
(* reads the tick counter and, some instructions later, the major counter. *)
(* Each action of the loop is the code between two reads of shared state.  *)
(* The cycle counter that times the body is left out.                      *)
(***************************************************************************)
EXTENDS Integers

CONSTANTS
    MinorPerMajor,  \* QIRAN_MINOR_PER_MAJOR, 25 in the code
    CounterModulus, \* where s_isr_ticks and s_isr_majors wrap, 2^32 in the code
    MaxTicks        \* bound of the model: interrupts delivered

ASSUME MinorPerMajorAssumption == MinorPerMajor \in Nat \ {0, 1}
ASSUME CounterAssumption       == CounterModulus \in Nat \ {0, 1}
ASSUME MaxTicksAssumption      == MaxTicks \in Nat

VARIABLES
    loopAt,          \* where the loop is
    isrTicks,        \* s_isr_ticks, written by the interrupt only
    isrMajors,       \* s_isr_majors, written by the interrupt only
    isrPosition,     \* s_isr_position, written by the interrupt only
    consumed,        \* s_consumed
    consumedMajors,  \* s_consumed_majors
    elapsed,         \* s_elapsed_minor
    slot,            \* s_slot
    majorDue,        \* s_major_due
    majorCycles,     \* s_major_cycles
    overrunEvents,   \* s_overrun_events
    overrunLost,     \* s_overrun_lost
    overrunWorst,    \* s_overrun_worst
    \* History, read by no action of the code:
    now,             \* interrupts taken, without the wrap
    executed,        \* minor cycles the loop began
    discarded,       \* ticks exec_resync threw away
    flaggedUpTo,     \* boundaries that reached the loop or were discarded
    boundaryRaced    \* a tick fell between the two reads of exec_resync

isrVars   == <<isrTicks, isrMajors, isrPosition, now>>
statVars  == <<overrunEvents, overrunLost, overrunWorst>>
majorVars == <<consumedMajors, majorDue, majorCycles, flaggedUpTo>>
tickVars  == <<consumed, elapsed, slot>>
ghostVars == <<executed, discarded, boundaryRaced>>
execVars == <<loopAt, isrVars, statVars, majorVars, tickVars, ghostVars>>

-----------------------------------------------------------------------------
(* Unsigned arithmetic of the counters, and the loop's view of them. *)

Wrap(x) == x % CounterModulus

DiffSaturating(a, b) == IF a >= b THEN a - b ELSE 0   \* seeded fault
Diff(a, b) == (a - b) % CounterModulus
Pending    == Diff(isrTicks, consumed)

\* Seeded fault: the slot is moved one step per wait.
SlotOneStep(pending)   == (slot + 1) % MinorPerMajor

\* advance(): the slot is brought back below MinorPerMajor by repeated
\* subtraction, and elapsed time takes every pending tick.
SlotAfter(pending) == (slot + pending) % MinorPerMajor
Advance(pending) ==
    /\ slot' = SlotAfter(pending)
    /\ elapsed' = elapsed + pending

\* No difference of two counters survives a lag of a whole wrap: the code is
\* written for loops that return within 2^32 ticks (2.7 years).
LagRepresentable == (now + 1) - elapsed < CounterModulus

-----------------------------------------------------------------------------
ExecInit ==
    /\ loopAt = "wait"
    /\ isrTicks = 0 /\ isrMajors = 0 /\ isrPosition = 0
    /\ consumed = 0 /\ consumedMajors = 0
    /\ elapsed = 0 /\ slot = 0
    /\ majorDue = FALSE /\ majorCycles = 0
    /\ overrunEvents = 0 /\ overrunLost = 0 /\ overrunWorst = 0
    /\ now = 0 /\ executed = 0 /\ discarded = 0
    /\ flaggedUpTo = 0 /\ boundaryRaced = FALSE

\* exec_on_minor_tick(), in interrupt context: it may land between any two
\* actions of the loop.
Tick ==
    /\ now < MaxTicks
    /\ LagRepresentable
    /\ now' = now + 1
    /\ isrTicks' = Wrap(isrTicks + 1)
    /\ IF isrPosition + 1 >= MinorPerMajor
       THEN isrPosition' = 0 /\ isrMajors' = Wrap(isrMajors + 1)
       ELSE isrPosition' = isrPosition + 1 /\ isrMajors' = isrMajors
    /\ boundaryRaced' = (boundaryRaced \/ loopAt = "resync")
    /\ UNCHANGED <<loopAt, statVars, majorVars, tickVars, executed, discarded>>

\* exec_wait_for_minor_tick() with nothing pending: it waits for an interrupt.
WaitForInterrupt ==
    /\ loopAt = "wait"
    /\ Pending = 0
    /\ UNCHANGED execVars

\* exec_wait_for_minor_tick(), from the read that finds a tick pending to the
\* advance of the slot: every tick but one is lost and counted as such.
CollectTicks ==
    /\ loopAt = "wait"
    /\ Pending # 0
    /\ LET lost == Pending - 1 IN
       /\ overrunLost' = overrunLost + lost
       /\ overrunEvents' = overrunEvents + (IF lost > 0 THEN 1 ELSE 0)
       /\ overrunWorst' = IF lost > overrunWorst THEN lost ELSE overrunWorst
    /\ consumed' = isrTicks
    /\ Advance(Pending)
    /\ executed' = executed + 1
    /\ loopAt' = "majors"
    /\ UNCHANGED <<isrVars, majorVars, discarded, boundaryRaced>>

\* Seeded fault: the boundary is taken from the slot.
MajorSeenBySlot == slot = 0

\* The major counter moved since it was last looked at.
MajorSeen == isrMajors # consumedMajors

\* The end of exec_wait_for_minor_tick(): any change of the major counter makes
\* one major cycle due, however many boundaries it stands for.  The first
\* cycle goes on to main.c's first_cycle(), the others to the loop body.
CollectMajors ==
    /\ loopAt = "majors"
    /\ IF MajorSeen
       THEN /\ consumedMajors' = isrMajors
            /\ majorDue' = TRUE
            /\ majorCycles' = majorCycles + 1
            /\ flaggedUpTo' = now \div MinorPerMajor
       ELSE UNCHANGED majorVars
    /\ loopAt' = IF executed = 1 THEN "first" ELSE "body"
    /\ UNCHANGED <<isrVars, statVars, tickVars, ghostVars>>

\* exec_resync(), called once at the end of first_cycle(): up to the copy of
\* the tick counter ...
ResyncTicks ==
    /\ loopAt = "first"
    /\ Advance(Pending)
    /\ consumed' = isrTicks
    /\ discarded' = discarded + Pending
    /\ flaggedUpTo' = now \div MinorPerMajor
    /\ loopAt' = "resync"
    /\ UNCHANGED <<isrVars, statVars, consumedMajors, majorDue, majorCycles,
                   executed, boundaryRaced>>

\* ... and from the read of the major counter to its end.
ResyncMajors ==
    /\ loopAt = "resync"
    /\ consumedMajors' = isrMajors
    /\ majorDue' = FALSE
    /\ loopAt' = "body"
    /\ UNCHANGED <<isrVars, statVars, tickVars, ghostVars, majorCycles, flaggedUpTo>>

\* The loop body of main.c ends and exec_wait_for_minor_tick() is called again.
FinishBody ==
    /\ loopAt = "body"
    /\ majorDue' = FALSE
    /\ loopAt' = "wait"
    /\ UNCHANGED <<isrVars, statVars, tickVars, ghostVars,
                   consumedMajors, majorCycles, flaggedUpTo>>

Loop == WaitForInterrupt \/ CollectTicks \/ CollectMajors \/ ResyncTicks \/ ResyncMajors \/ FinishBody
ExecNext == Tick \/ Loop

\* The timer owes the program nothing; the processor runs the loop.
ExecSpec     == ExecInit /\ [][ExecNext]_execVars
ExecFairSpec == ExecSpec /\ WF_execVars(Loop)

-----------------------------------------------------------------------------
FlagTypes ==
    /\ loopAt \in {"wait", "majors", "first", "resync", "body"}
    /\ majorDue \in BOOLEAN /\ boundaryRaced \in BOOLEAN

CountTypes ==
    /\ isrTicks \in 0 .. CounterModulus - 1 /\ isrMajors \in 0 .. CounterModulus - 1
    /\ isrPosition \in 0 .. MinorPerMajor - 1
    /\ consumed \in 0 .. CounterModulus - 1 /\ consumedMajors \in 0 .. CounterModulus - 1
    /\ slot \in 0 .. MinorPerMajor - 1
    /\ elapsed \in Nat /\ majorCycles \in Nat /\ flaggedUpTo \in Nat
    /\ overrunEvents \in Nat /\ overrunLost \in Nat /\ overrunWorst \in Nat
    /\ now \in Nat /\ executed \in Nat /\ discarded \in Nat

\* The types of the executive's state: in particular the slot stays a slot and
\* the counters stay within their width.
ExecTypeOK == FlagTypes /\ CountTypes

\* Every tick the timer delivered is in exactly one place: begun as a minor
\* cycle, lost and counted as an overrun, discarded by the resync, or still
\* pending; neither the race with the interrupt nor the wrap of the counters
\* loses one or counts one twice.
NoTickLost ==
    now = executed + overrunLost + discarded + Pending

\* exec_slot() is phase locked to real time: whatever was lost or discarded,
\* the slot together with the pending ticks is the interrupt's own position
\* in the major cycle.
SlotPhaseLocked ==
    (slot + Pending) % MinorPerMajor = isrPosition

\* Every boundary that the minor-cycle count has passed was offered to the loop
\* (as one major cycle, however many were passed at once) or discarded by the
\* resync, unless a tick fell inside the resync itself.
BoundaryReachesLoop ==
    (loopAt = "body" /\ ~boundaryRaced) => elapsed \div MinorPerMajor <= flaggedUpTo

\* A boundary counted by the interrupt makes a major cycle due as soon as the
\* loop comes round, or is absorbed by the resync.
BoundaryServed ==
    (isrMajors # consumedMajors) ~> (majorDue \/ loopAt = "resync")

=============================================================================
