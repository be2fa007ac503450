------------------------------- MODULE Mission -------------------------------
(***************************************************************************)
(* The stage sequencer, src/src/mission/mission_seq.c, driving the fault   *)
(* service of Fdir in the fixed order of main.c's loop: tasks before it    *)
(* and after it may report faults of their own, mission_seq_step runs      *)
(* once, and error_handling_service makes its pass at the end.             *)
(*                                                                         *)
(* What a stage's step function returns is the stage owner's affair: any   *)
(* result, with any fault class the stage is allowed to name.  Interrupts  *)
(* that report inside mission_seq_step have the effect of reporting just   *)
(* before it, so the step is one action.                                   *)
(***************************************************************************)
EXTENDS Fdir

CONSTANTS
    StageCount,     \* STAGE_COUNT; stages are 1 .. StageCount, 1 is STAGE_BOOT
    StageFault,     \* k_stage[].fault
    NamedFaults,    \* classes the step of a stage may name instead
    Budgeted,       \* stages whose k_stage[].budget is a parameter
    Registered,     \* stages with a step function
    SpadStage,      \* STAGE_SPAD_ENABLE
    TimeoutClass,   \* QIRAN_FAULT_STAGE_TIMEOUT
    TaskClasses     \* classes other tasks of the loop report

Stage == 1 .. StageCount

ASSUME StageAssumption ==
    /\ StageCount \in Nat \ {0} /\ SpadStage \in Stage
    /\ StageFault \in [Stage -> Class]
    /\ NamedFaults \in [Stage -> SUBSET Class]
    /\ Budgeted \subseteq Stage /\ Registered \subseteq Stage
    /\ TimeoutClass \in Class /\ TaskClasses \subseteq Class
    /\ SpadStage < StageCount
\* k_policy: only critical classes carry a limit.
ASSUME OnlyCriticalLimited == \A c \in Class : Limit[c] # 0 => c \in Critical

VARIABLES
    turn,       \* which part of the minor cycle runs next
    stage,      \* s_stage
    attempts,   \* s_attempts
    timedOut,   \* s_timed_out
    overdue,    \* the stage has been current for longer than its budget
    stalled,    \* s_stalled
    aborted,    \* s_aborted
    payload,    \* s_payload; reported to the observer, decided on nowhere
    returns,    \* s_reentries of mission_seq.c
    \* History:
    stallCause,   \* why the sequence stalled: result and class
    done          \* stages finished since the sequence last went back to them

seqVars == <<stage, attempts, timedOut, overdue, stalled, aborted, payload,
             returns, stallCause, done>>
vars == <<fdirVars, turn, seqVars>>

NotStalled == [result |-> "none", fault |-> 0]
Status     == {"nonoperational", "operational"}

-----------------------------------------------------------------------------
\* mission_seq_init(): step functions are registered after it and before the
\* first step.
MissionInit ==
    /\ FdirInit
    /\ turn = "tasks"
    /\ stage = 1 /\ attempts = 0
    /\ timedOut = FALSE /\ overdue = FALSE
    /\ stalled = FALSE /\ aborted = FALSE
    /\ payload = "nonoperational"
    /\ returns = 0
    /\ stallCause = NotStalled
    /\ done = {}

\* enter(): the clock of the stage starts again.
Enter(s) ==
    /\ stage' = s
    /\ timedOut' = FALSE /\ overdue' = FALSE

Stall(result, fault) ==
    /\ stalled' = TRUE
    /\ stallCause' = [result |-> result, fault |-> fault]
    /\ UNCHANGED <<stage, timedOut, overdue>>

\* The classes a stage may end an attempt with.
FaultsOf(s) == {StageFault[s]} \cup NamedFaults[s]

-----------------------------------------------------------------------------
(* One result of a step each.  Each of them decides on the whole state of   *)
(* the sequencer; what it reports is counted by the fault service at once.  *)
(* What the step function itself may have called is in Step.                *)

Working ==
    /\ UNCHANGED <<stage, attempts, stalled, returns, stallCause, done>>
    /\ NoEscalation
    /\ UNCHANGED <<timedOut, overdue, serviced, occurrences, flag, elevated,
                   clearedAt, reentries>>

MoreStages      == stage < StageCount
LeavesDetectors == stage = SpadStage

\* STEP_DONE.
Done(fault) ==
    /\ Clear(fault)
    /\ attempts' = 0
    /\ LeavesDetectors => payload' = "operational"
    /\ done' = done \cup {stage}
    /\ IF MoreStages THEN Enter(stage + 1) ELSE UNCHANGED <<stage, timedOut, overdue>>
    /\ NoEscalation
    /\ UNCHANGED <<stalled, returns, stallCause, reentries>>

\* Seeded fault: the limit is looked up before this failure is counted.
SpentBefore(fault) == ExhaustedAfter(fault, 0)

\* svc_fdir_retries_exhausted() right after svc_fdir_report().
Spent(fault) == ExhaustedAfter(fault, 1)

\* STEP_RETRY.
Retry(fault) ==
    /\ attempts' = attempts + 1
    /\ Report(fault)
    /\ IF Spent(fault)
       THEN Stall("retry", fault)
       ELSE Enter(stage) /\ UNCHANGED <<stalled, stallCause>>
    /\ UNCHANGED <<returns, done, serviced, occurrences, flag, elevated, clearedAt,
                   reentries, escalations, undelivered, linkFailures>>

\* Seeded fault: a step may name any stage to go on from.
AnyStage(backTo) == TRUE

\* out.back_to >= s_stage is refused.
Backwards(backTo) == backTo < stage

\* STEP_BACK.  The report and, past the allowance, the escalation of its cause
\* happen in this order; both only add to what is reported.
Back(backTo, fault, linkUp) ==
    IF Backwards(backTo)
    THEN /\ attempts' = 0
         /\ returns' = returns + 1
         /\ reentries' = reentries + 1
         /\ LET failed  == PastAllowance /\ fault \notin LogOnly /\ ~linkUp
                counted == AddOne(reported, fault)
            IN  /\ reported' = IF failed THEN AddOne(counted, LinkClass) ELSE counted
                /\ escalations' = IF PastAllowance THEN AddOne(escalations, fault)
                                                   ELSE escalations
                /\ undelivered' = undelivered + (IF failed THEN 1 ELSE 0)
                /\ linkFailures' = linkFailures + (IF failed THEN 1 ELSE 0)
         /\ Enter(backTo)
         /\ done' = {s \in done : s < backTo}
         /\ UNCHANGED <<stalled, stallCause, serviced, occurrences, flag, elevated,
                        clearedAt>>
    ELSE /\ Report(fault)
         /\ Stall("back", fault)
         /\ UNCHANGED <<attempts, returns, done, serviced, occurrences, flag,
                        elevated, clearedAt, reentries, escalations, undelivered,
                        linkFailures>>

\* STEP_ABORT, and any value that is no result at all.
Abandon(fault) ==
    /\ Report(fault)
    /\ Stall("abort", fault)
    /\ UNCHANGED <<attempts, returns, done, serviced, occurrences, flag, elevated,
                   clearedAt, reentries, escalations, undelivered, linkFailures>>

-----------------------------------------------------------------------------
\* check_budget(), the first thing mission_seq_step() does once the stage's time
\* is up: reported once per entry.
BudgetChecked == overdue => timedOut

CheckBudget ==
    /\ turn = "control"
    /\ ~stalled /\ ~aborted /\ ~BudgetChecked
    /\ Report(TimeoutClass)
    /\ timedOut' = TRUE
    /\ UNCHANGED <<turn, stage, attempts, overdue, stalled, aborted, payload,
                   returns, stallCause, done, serviced, recordVars, escalations,
                   undelivered, reentries, passVars, clearedAt, linkFailures>>

\* mission_seq_step() of a sequence that is held, or of a stage nobody supplied.
Held ==
    /\ turn = "control"
    /\ stalled \/ aborted \/ (stage \notin Registered /\ BudgetChecked)
    /\ turn' = "fdir"
    /\ UNCHANGED <<fdirVars, seqVars>>

\* mission_seq_step() of a stage with a step function.  The function may abort the
\* run and set the payload's status before it returns, and whatever it returns is
\* applied all the same: an abort, then a status, leave any pair of the two.
Step(fault) ==
    /\ turn = "control"
    /\ ~stalled /\ ~aborted /\ stage \in Registered /\ BudgetChecked
    /\ aborted' \in BOOLEAN /\ payload' \in Status
    /\ \/ Working
       \/ Done(fault)
       \/ MayReport(1) /\ Retry(fault)
       \/ /\ MayReport(1) /\ reentries < MaxReentries
          /\ \E backTo \in Stage, linkUp \in BOOLEAN : Back(backTo, fault, linkUp)
       \/ MayReport(1) /\ Abandon(fault)
    /\ turn' = "fdir"
    /\ UNCHANGED <<bySeverity, passVars>>

\* Tasks before the sequencer (completions are taken in the INTERRUPTS slot) and
\* between it and the fault service (the DATA_PATH slot).
TaskReports(c) ==
    /\ turn \in {"tasks", "fdir"}
    /\ TaskReport(c)
    /\ UNCHANGED <<turn, seqVars>>

\* Time passes the stage's budget while other tasks run.
BudgetPasses ==
    /\ turn = "tasks"
    /\ stage \in Budgeted /\ ~overdue
    /\ overdue' = TRUE
    /\ UNCHANGED <<fdirVars, turn, stage, attempts, timedOut, stalled, aborted,
                   payload, returns, stallCause, done>>

\* Any other task of the loop, before the sequencer or after it.
InTask == turn = "tasks" \/ (turn = "fdir" /\ cursor = 0)

\* mission_abort(), called by main.c when boot fails and by any task.
Abort ==
    /\ InTask /\ ~aborted
    /\ aborted' = TRUE
    /\ payload' = "nonoperational"
    /\ UNCHANGED <<fdirVars, turn, stage, attempts, timedOut, overdue, stalled,
                   returns, stallCause, done>>

\* mission_payload_status_set(): any status, by whoever changes the hardware.
SetPayload(status) ==
    /\ InTask
    /\ payload' = status
    /\ UNCHANGED <<fdirVars, turn, stage, attempts, timedOut, overdue, stalled,
                   aborted, returns, stallCause, done>>

TasksDone ==
    /\ turn = "tasks"
    /\ turn' = "control"
    /\ UNCHANGED <<fdirVars, seqVars>>

\* error_handling_service(), after the sequencer in the same cycle.
FdirPass ==
    /\ turn = "fdir"
    /\ \/ BeginPass([c \in CollectedClasses |-> 0])
       \/ cursor # 0 /\ ServiceStep
    /\ turn' = IF cursor > ClassCount THEN "tasks" ELSE "fdir"
    /\ UNCHANGED seqVars

Interrupts(c) ==
    /\ InterruptReport(c)
    /\ UNCHANGED <<turn, seqVars>>

MissionStep == Held \/ CheckBudget \/ \E c \in FaultsOf(stage) : Step(c)

MissionNext ==
    \/ \E c \in TaskClasses : TaskReports(c)
    \/ \E c \in InterruptClasses : Interrupts(c)
    \/ BudgetPasses \/ Abort \/ \E status \in Status : SetPayload(status)
    \/ TasksDone \/ MissionStep \/ FdirPass

MissionSpec ==
    /\ MissionInit /\ [][MissionNext]_vars
    /\ WF_vars(TasksDone \/ MissionStep \/ FdirPass)

-----------------------------------------------------------------------------
\* Types of the sequencer (those of the fault service are Fdir's).
MissionTypeOK ==
    /\ turn \in {"tasks", "control", "fdir"}
    /\ stage \in Stage /\ attempts \in Nat /\ returns \in Nat
    /\ timedOut \in BOOLEAN /\ overdue \in BOOLEAN
    /\ stalled \in BOOLEAN /\ aborted \in BOOLEAN
    /\ payload \in Status
    /\ stallCause \in [result : {"none", "retry", "back", "abort"},
                       fault : Class \cup {0}]
    /\ done \subseteq Stage

\* FW-30: a stage whose faults all carry a limit never makes an attempt more than
\* the limits allow, whichever of its faults it names and whatever the data path
\* or an interrupt adds to their counts.
Spare        == [c \in Class |-> Limit[c] - 1]
Allowance(s) == SumFunctionOnSet(Spare, FaultsOf(s)) + 1
AttemptsBounded ==
    (\A c \in FaultsOf(stage) : Limit[c] # 0) => attempts <= Allowance(stage)

\* A stage that spent its retries is escalated in the very cycle it stalls: when
\* the next cycle starts its class is elevated.
StallIsEscalated ==
    turn = "tasks" /\ stallCause.result = "retry" => elevated[stallCause.fault]

\* mission_seq.h:67-70 as it stands, for every stall: the flag reporting it has gone
\* out when the next cycle starts.  A stage that aborts, or names a stage it cannot
\* go back to, reports its class once, which is no escalation of a class whose
\* limit is more than one, and the code refutes it.
EveryStallIsFlagged ==
    turn = "tasks" /\ stallCause.result # "none" => escalations[stallCause.fault] > 0

\* Every stage before the current one was finished since the sequence last
\* returned to it or to one before it: no result, legal or not, skips a stage.
NothingSkipped == 1 .. stage - 1 \subseteq done

=============================================================================
