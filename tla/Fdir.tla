-------------------------------- MODULE Fdir --------------------------------
(***************************************************************************)
(* Fault detection, isolation and recovery: src/src/svc/svc_fdir.c.        *)
(*                                                                         *)
(* Any context reports a fault by incrementing a counter; one pass of      *)
(* error_handling_service per minor cycle classifies what is new, class by *)
(* class in the order of their identifiers, and escalates over the RS485   *)
(* link, whose failure is itself a fault class reported during the pass.   *)
(* Interrupts report between any two steps of the pass.                    *)
(*                                                                         *)
(* The counters are 32-bit and never cleared; they are compared by         *)
(* difference, so their wrap (4 * 10^9 reports) is left out.  The detail   *)
(* word and the tick of a report are left out: nothing is decided on them. *)
(***************************************************************************)
EXTENDS Integers, FiniteSets, FiniteSetsExt

CONSTANTS
    ClassCount,        \* QIRAN_FAULT_COUNT - 1: classes are 1 .. ClassCount
    Severe,            \* classes of QIRAN_SEV_SEVERE
    Critical,          \* classes of QIRAN_SEV_CRITICAL
    Limit,             \* k_policy[c].limit, zero for none
    LogOnly,           \* classes escalated by the log alone
    LinkClass,         \* QIRAN_FAULT_HK_TRANSMIT
    InterruptClasses,  \* classes interrupt handlers report
    CollectedClasses,  \* classes collect_platform_counters reports
    ClearedClasses,    \* classes of boot steps and mission stages
    ReentryLimit,      \* QIRAN_REENTRY_LIMIT
    MaxReports,        \* bound of the model: reports of the environment
    MaxReentries       \* bound of the model

Class == 1 .. ClassCount

ASSUME ClassAssumption ==
    /\ ClassCount \in Nat
    /\ Severe \subseteq Class /\ Critical \subseteq Class
    /\ Severe \cap Critical = {}
    /\ LogOnly \subseteq Class /\ InterruptClasses \subseteq Class
    /\ CollectedClasses \subseteq Class /\ ClearedClasses \subseteq Class
    /\ LinkClass \in Class
ASSUME LimitAssumption ==
    /\ Limit \in [Class -> Nat]
    /\ ReentryLimit \in Nat /\ MaxReports \in Nat /\ MaxReentries \in Nat

VARIABLES
    reported,     \* s_reported: written by any context
    serviced,     \* s_serviced
    occurrences,  \* s_record[].occurrences
    flag,         \* s_record[].flag
    elevated,     \* s_record[].elevated
    escalations,  \* s_record[].escalations
    bySeverity,   \* the contribution of each class to s_by_severity
    undelivered,  \* s_undelivered
    reentries,    \* s_reentries
    cursor,       \* i of error_handling_service, 0 outside a pass
    seen,         \* its local copy of s_reported[i]
    \* History:
    clearedAt,    \* reports made when the class was last cleared
    linkFailures  \* deliveries that failed

recordVars == <<occurrences, flag, elevated, bySeverity>>
passVars   == <<cursor, seen>>
fdirVars   == <<reported, serviced, recordVars, escalations, undelivered,
                reentries, passVars, clearedAt, linkFailures>>

-----------------------------------------------------------------------------
Zero == [c \in Class |-> 0]

FdirInit ==
    /\ reported = Zero /\ serviced = Zero
    /\ occurrences = Zero /\ bySeverity = Zero /\ escalations = Zero
    /\ flag = [c \in Class |-> FALSE] /\ elevated = [c \in Class |-> FALSE]
    /\ undelivered = 0 /\ reentries = 0
    /\ cursor = 0 /\ seen = 0
    /\ clearedAt = Zero /\ linkFailures = 0

\* Increments of s_reported are guarded, so none is lost to an interrupt.
AddOne(counter, c) == [counter EXCEPT ![c] = @ + 1]

Unserviced(c) == reported[c] - serviced[c]

\* svc_fdir_occurrences(): what the service has not got round to counts too.
Occurrences(c) == occurrences[c] + Unserviced(c)

\* Whether svc_fdir_retries_exhausted() would say so after n more reports.
ExhaustedAfter(c, n) == Limit[c] # 0 /\ Occurrences(c) + n >= Limit[c]

\* escalate(): the link takes the flag or the request, or does not; a failure
\* is counted here and reported by the link under its own class.
Escalate(c, linkUp) ==
    LET delivered == c \in LogOnly \/ linkUp IN
    /\ escalations' = AddOne(escalations, c)
    /\ undelivered' = undelivered + (IF delivered THEN 0 ELSE 1)
    /\ linkFailures' = linkFailures + (IF delivered THEN 0 ELSE 1)
    /\ reported' = IF delivered THEN reported ELSE AddOne(reported, LinkClass)

NoEscalation == UNCHANGED <<escalations, undelivered, linkFailures, reported>>

\* svc_fdir_report() from the loop.
Report(c) == reported' = AddOne(reported, c)

\* svc_fdir_clear(): what is reported and not yet serviced goes with it.
Clear(c) ==
    /\ serviced' = [serviced EXCEPT ![c] = reported[c]]
    /\ occurrences' = [occurrences EXCEPT ![c] = 0]
    /\ flag' = [flag EXCEPT ![c] = FALSE]
    /\ elevated' = [elevated EXCEPT ![c] = FALSE]
    /\ clearedAt' = [clearedAt EXCEPT ![c] = reported[c]]

\* svc_fdir_reentry_note(): past the limit every return escalates its cause.
PastAllowance == reentries + 1 > ReentryLimit

ReentryNote(c, linkUp) ==
    /\ reentries' = reentries + 1
    /\ IF PastAllowance THEN Escalate(c, linkUp) ELSE NoEscalation

-----------------------------------------------------------------------------
(* error_handling_service(). *)

\* It first reports what the platform counters gained since the last pass: one
\* report per overrun, one per other counter that moved.
BeginPass(gained) ==
    /\ cursor = 0
    /\ reported' = [c \in Class |->
           reported[c] + (IF c \in CollectedClasses THEN gained[c] ELSE 0)]
    /\ cursor' = 1
    /\ UNCHANGED <<serviced, recordVars, escalations, undelivered, reentries,
                   seen, clearedAt, linkFailures>>

\* reported = s_reported[i]; a class with nothing new is passed over.
ReadClass ==
    /\ cursor \in Class /\ seen = 0
    /\ IF Unserviced(cursor) = 0
       THEN cursor' = cursor + 1 /\ seen' = 0
       ELSE cursor' = cursor /\ seen' = reported[cursor]
    /\ UNCHANGED <<reported, serviced, recordVars, escalations, undelivered,
                   reentries, clearedAt, linkFailures>>

\* Seeded faults: the counter is read again, the store is forgotten, and a limit is
\* one too high.
ServicedAgain  == reported[cursor]
ServicedBefore == serviced[cursor]
EscalatesAbove(count) ==
    \/ cursor \in Severe
    \/ cursor \in Critical /\ Limit[cursor] # 0 /\ count > Limit[cursor]
                           /\ ~elevated[cursor]

\* What counts as serviced is what was read, not what is reported by now.
ServicedNow == seen

\* The tier rule of classify(): severe at once, critical once, at its limit.
Escalates(count) ==
    \/ cursor \in Severe
    \/ cursor \in Critical /\ Limit[cursor] # 0 /\ count >= Limit[cursor]
                           /\ ~elevated[cursor]

\* classify() of the class under the cursor.
Classify(linkUp) ==
    /\ cursor \in Class /\ seen # 0
    /\ LET new   == seen - serviced[cursor]
           count == occurrences[cursor] + new
       IN  /\ serviced' = [serviced EXCEPT ![cursor] = ServicedNow]
           /\ occurrences' = [occurrences EXCEPT ![cursor] = count]
           /\ flag' = [flag EXCEPT ![cursor] = TRUE]
           /\ bySeverity' = [bySeverity EXCEPT ![cursor] = @ + new]
           /\ elevated' = [elevated EXCEPT
                  ![cursor] = @ \/ (cursor \in Critical /\ Escalates(count))]
           /\ IF Escalates(count) THEN Escalate(cursor, linkUp) ELSE NoEscalation
    /\ cursor' = cursor + 1
    /\ seen' = 0
    /\ UNCHANGED <<reentries, clearedAt>>

EndPass ==
    /\ cursor > ClassCount
    /\ cursor' = 0
    /\ UNCHANGED <<reported, serviced, recordVars, escalations, undelivered,
                   reentries, seen, clearedAt, linkFailures>>

ServiceStep ==
    \/ ReadClass
    \/ \E linkUp \in BOOLEAN : Classify(linkUp)
    \/ EndPass

-----------------------------------------------------------------------------
(* The service among arbitrary clients, for this module's own checks. *)

EnvironmentReports == MapThenSumSet(LAMBDA c : reported[c], Class) - linkFailures
MayReport(n)       == EnvironmentReports + n <= MaxReports

\* An interrupt handler reports, at any point of the loop.
InterruptReport(c) ==
    /\ MayReport(1)
    /\ Report(c)
    /\ UNCHANGED <<serviced, recordVars, escalations, undelivered, reentries,
                   passVars, clearedAt, linkFailures>>

\* A task of the loop reports, outside the pass.
TaskReport(c) ==
    /\ cursor = 0
    /\ MayReport(1)
    /\ Report(c)
    /\ UNCHANGED <<serviced, recordVars, escalations, undelivered, reentries,
                   passVars, clearedAt, linkFailures>>

\* A boot step or a stage clears its class after success.
TaskClear(c) ==
    /\ c \in ClearedClasses
    /\ cursor = 0
    /\ Clear(c)
    /\ UNCHANGED <<reported, bySeverity, escalations, undelivered, reentries,
                   passVars, linkFailures>>

\* A stage sends the sequence back.
TaskReentry(c, linkUp) ==
    /\ cursor = 0
    /\ reentries < MaxReentries
    /\ ReentryNote(c, linkUp)
    /\ UNCHANGED <<serviced, recordVars, passVars, clearedAt>>

Pass ==
    \/ \E gained \in [CollectedClasses -> 0 .. 2] :
           /\ MayReport(MapThenSumSet(LAMBDA c : gained[c], CollectedClasses))
           /\ BeginPass(gained)
    \/ ServiceStep

Next ==
    \/ \E c \in InterruptClasses : InterruptReport(c)
    \/ \E c \in Class : TaskReport(c) \/ TaskClear(c)
    \/ \E c \in Class, linkUp \in BOOLEAN : TaskReentry(c, linkUp)
    \/ Pass

Init == FdirInit

\* A pass runs in every minor cycle and visits every class.
Spec == Init /\ [][Next]_fdirVars /\ WF_fdirVars(Pass)

-----------------------------------------------------------------------------
\* Types: no count is ever driven below zero by the differences it is made of.
TypeOK ==
    /\ {reported, serviced, occurrences, escalations, bySeverity, clearedAt}
           \subseteq [Class -> Nat]
    /\ {flag, elevated} \subseteq [Class -> BOOLEAN]
    /\ undelivered \in Nat /\ reentries \in Nat /\ linkFailures \in Nat
    /\ cursor \in 0 .. ClassCount + 1 /\ seen \in Nat

\* The count a retry decision is taken on is every report since the class was
\* last cleared, whether or not the pass has reached the class and whatever an
\* interrupt reports meanwhile.
CountIsExact ==
    \A c \in Class : Occurrences(c) = reported[c] - clearedAt[c]

\* No report is classified twice, whenever it arrives during the pass.
ClassifiedOnce ==
    \A c \in Class : bySeverity[c] + Unserviced(c) <= reported[c]

\* A critical class is elevated exactly when what was classified since its clear
\* has reached its limit: no pass forgets to elevate, none elevates early.
ElevatedAtLimit ==
    \A c \in Class :
        elevated[c] <=> /\ c \in Critical /\ Limit[c] # 0
                        /\ occurrences[c] >= Limit[c]

\* A class that reaches its limit is escalated or cleared: no order of reports,
\* passes and interrupts leaves a spent limit without its escalation.
LimitEscalates ==
    \A c \in Critical :
        ExhaustedAfter(c, 0) ~> (elevated[c] \/ ~ExhaustedAfter(c, 0))

=============================================================================
