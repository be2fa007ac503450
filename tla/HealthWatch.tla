----------------------------- MODULE HealthWatch -----------------------------
(***************************************************************************)
(* Health monitors and the watchdog they gate: src/src/svc/svc_health.c    *)
(* and svc_watchdog.c.  health_check runs the monitors that are due,       *)
(* health_consolidate forms the verdict, watchdog_tickle_if_healthy kicks  *)
(* or does not; the device expires a fixed time after the last kick.       *)
(***************************************************************************)
EXTENDS Integers

CONSTANTS
    MonitorCount,   \* s_count
    Period,         \* s_monitor[].period, in minor cycles
    Tolerance,      \* s_monitor[].tolerance
    Gating,         \* monitors of SVC_HEALTH_GATING
    Timeout         \* QIRAN_WATCHDOG_TIMEOUT_MINOR_CYCLES

Monitor == 1 .. MonitorCount

ASSUME MonitorAssumption ==
    /\ MonitorCount \in Nat
    /\ Period \in [Monitor -> Nat \ {0}] /\ Tolerance \in [Monitor -> Nat]
    /\ Gating \subseteq Monitor
    /\ Timeout \in Nat \ {0}

VARIABLES
    countdown,     \* s_monitor[].countdown
    consecutive,   \* s_monitor[].consecutive, counted up to past its tolerance
    verdict,       \* s_state
    unkicked       \* minor cycles since the device was last kicked

healthVars == <<countdown, consecutive, verdict, unkicked>>

\* svc_health_register() in the order of registration: monitors that share a
\* period start in different cycles.
FirstCountdown == [m \in Monitor |-> ((m - 1) % Period[m]) + 1]

HealthInit ==
    /\ countdown = FirstCountdown
    /\ consecutive = [m \in Monitor |-> 0]
    /\ verdict = "healthy"
    /\ unkicked = 0

\* After a processor reset the device is armed afresh.
HealthRestart ==
    /\ countdown' = FirstCountdown
    /\ consecutive' = [m \in Monitor |-> 0]
    /\ verdict' = "healthy"
    /\ unkicked' = 0

Due(m) == countdown[m] <= 1

\* Past its tolerance a monitor contributes, however much farther it counts.
FailuresInARow(m, passed) ==
    IF passed THEN 0
    ELSE IF consecutive[m] > Tolerance[m] THEN consecutive[m] ELSE consecutive[m] + 1

\* health_check(), given what each monitor that is due finds.
Check(passed) ==
    /\ countdown' = [m \in Monitor |-> IF Due(m) THEN Period[m] ELSE countdown[m] - 1]
    /\ consecutive' = [m \in Monitor |->
           IF Due(m) THEN FailuresInARow(m, passed[m]) ELSE consecutive[m]]
    /\ UNCHANGED <<verdict, unkicked>>

\* Seeded fault: an advisory monitor counts too.
ContributesAnyClass(m) == consecutive[m] > Tolerance[m]

Contributing(m) == m \in Gating /\ consecutive[m] > Tolerance[m]

\* health_consolidate().
Consolidate ==
    /\ verdict' = IF \E m \in Monitor : Contributing(m) THEN "failed" ELSE "healthy"
    /\ UNCHANGED <<countdown, consecutive, unkicked>>

\* Seeded fault: the kick is unconditional.
KicksAlways == TRUE

Kicks == verdict = "healthy"

\* watchdog_tickle_if_healthy().
Tickle ==
    /\ unkicked' = IF Kicks THEN 0 ELSE unkicked
    /\ UNCHANGED <<countdown, consecutive, verdict>>

\* Time passes at the device.
Elapse(cycles) ==
    /\ unkicked' = unkicked + cycles
    /\ UNCHANGED <<countdown, consecutive, verdict>>

Expired == unkicked >= Timeout
=============================================================================
