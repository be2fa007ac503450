----------------------------- MODULE Supervision -----------------------------
(***************************************************************************)
(* Who watches the software: the configuration block and its check, the    *)
(* health monitors, the watchdog and the housekeeping frame that tells the *)
(* observer the payload still executes, in the order main.c's loop calls   *)
(* them.  The check of the configuration is one of the gating monitors,    *)
(* so ConfigStore and HealthWatch meet in health_check; the interval of    *)
(* the frame is one of the parameters an upset may hit.                    *)
(*                                                                         *)
(* The environment: a cycle may begin late, which is an overrun; upsets    *)
(* hit the block between any two slots; a command sets or saves            *)
(* parameters; the store, an advisory monitor and the link answer or not.  *)
(***************************************************************************)
EXTENDS ConfigStore, HealthWatch, HkLink

CONSTANTS
    PeriodParam,    \* CFG_HK_PERIOD_MS
    Timing,         \* the monitor exec_timing
    Integrity,      \* the monitor config_integrity
    MaxExtra,       \* bound of the model: minor cycles an overrun lasts
    MaxUpsets       \* bound of the model: upsets between two resets

ASSUME SupervisionAssumption ==
    /\ PeriodParam \in Param /\ Value \subseteq Int
    /\ Legal[PeriodParam] \subseteq Nat \ {0}
    /\ AgeBound \in Nat
    /\ Gating = {Timing, Integrity} /\ Timing # Integrity
    /\ Period[Timing] = 1 /\ Tolerance[Integrity] >= 1
    /\ MaxExtra \in Nat /\ MaxUpsets \in Nat

VARIABLES
    slot,        \* which task of the cycle runs next
    late,        \* the cycle began with an overrun exec_timing has yet to see
    \* History:
    lateFor,     \* minor cycles since exec_timing last passed, up to Timeout
    upsets,      \* upsets since the last reset
    sinceUpset,  \* cycles since the last upset, up to one more than Settling
    lapsed       \* a check since the last reset left a value outside its limits

worldVars == <<late, lateFor, upsets, sinceUpset, lapsed>>
vars == <<configVars, healthVars, hkVars, slot, worldVars>>

\* An upset is looked for once in this many cycles.
Settling == Period[Integrity]

Init ==
    /\ ConfigInit /\ HealthInit /\ HkInit
    /\ slot = "start"
    /\ late = FALSE /\ lateFor = 0 /\ upsets = 0 /\ sinceUpset = Settling + 1
    /\ lapsed = FALSE

-----------------------------------------------------------------------------
(* The loop. *)

\* subsystem_init() and first_cycle() after power-on or a processor reset.
Start ==
    /\ slot \in {"start", "expired"}
    /\ \E answers \in BOOLEAN : StartUp(answers)
    /\ HealthRestart /\ HkRestart
    /\ slot' = "tick"
    /\ late' = FALSE /\ lateFor' = 0 /\ upsets' = 0 /\ sinceUpset' = Settling + 1
    /\ lapsed' = FALSE

\* exec_wait_for_minor_tick(): extra ticks are an overrun.  The device does not
\* wait for the loop.
Tick(extra) ==
    /\ slot = "tick"
    /\ Elapse(1 + extra) /\ AgeBy(1 + extra)
    /\ late' = (extra > 0)
    /\ lateFor' = IF lateFor + 1 + extra > Timeout THEN Timeout ELSE lateFor + 1 + extra
    /\ sinceUpset' = IF sinceUpset > Settling THEN sinceUpset ELSE sinceUpset + 1
    /\ slot' = IF Expired' THEN "expired" ELSE "health"
    /\ UNCHANGED <<configVars, upsets, lapsed>>

\* The live values outside their limits.
Illegal == {p \in Param : ~InRange(p, value[p])}

\* health_check(): the check of the configuration corrects what it finds.
HealthCheck(answers) ==
    /\ slot = "health"
    /\ \E others \in [Monitor \ {Timing, Integrity} -> BOOLEAN] :
           Check([m \in Monitor |-> CASE m = Timing    -> ~late
                                     [] m = Integrity -> Intact
                                     [] OTHER         -> others[m]])
    /\ IF Due(Integrity) THEN Verify(answers) ELSE UNCHANGED configVars
    /\ lapsed' = (lapsed \/ (Due(Integrity) /\ Illegal' # {}))
    /\ lateFor' = IF late THEN lateFor ELSE 0
    /\ slot' = "comms"
    /\ UNCHANGED <<hkVars, late, upsets, sinceUpset>>

Comms ==
    /\ slot = "comms"
    /\ Transmit
    /\ slot' = "command"
    /\ UNCHANGED <<configVars, healthVars, worldVars>>

\* comm_cmd_service(): at most one command that touches the configuration.
Command ==
    /\ slot = "command"
    /\ \/ UNCHANGED configVars
       \/ \E p \in Param, v \in Value : Set(p, v)
       \/ Save
    /\ slot' = "consolidate"
    /\ UNCHANGED <<healthVars, hkVars, worldVars>>

HealthConsolidate ==
    /\ slot = "consolidate"
    /\ Consolidate
    /\ slot' = "telemetry"
    /\ UNCHANGED <<configVars, hkVars, worldVars>>

Telemetry ==
    /\ slot = "telemetry"
    /\ Stage(value[PeriodParam])
    /\ slot' = "watchdog"
    /\ UNCHANGED <<configVars, healthVars, worldVars>>

Watchdog ==
    /\ slot = "watchdog"
    /\ Tickle
    /\ slot' = "tick"
    /\ UNCHANGED <<configVars, hkVars, worldVars>>

Upset ==
    /\ slot \notin {"start", "expired"}
    /\ upsets < MaxUpsets
    /\ FlipChecksum \/ \E p \in Param, v \in Value : FlipValue(p, v)
    /\ upsets' = upsets + 1 /\ sinceUpset' = 0
    /\ UNCHANGED <<healthVars, hkVars, slot, late, lateFor, lapsed>>

Loop ==
    \/ Start
    \/ \E extra \in 0 .. MaxExtra : Tick(extra)
    \/ \E answers \in BOOLEAN : HealthCheck(answers)
    \/ Comms \/ Command \/ HealthConsolidate \/ Telemetry \/ Watchdog

Next == Loop \/ Upset

\* The loop runs on; nothing is assumed of upsets, commands or lateness.
Spec == Init /\ [][Next]_vars /\ WF_vars(Loop)

-----------------------------------------------------------------------------
Slots == {"start", "tick", "health", "comms", "command", "consolidate", "telemetry",
          "watchdog", "expired"}

\* What each variable may hold: no countdown or count of failures leaves its range.
TypeOK ==
    /\ value \in Block /\ meant \in Block /\ summed \in Block \cup {NoBlock}
    /\ image \in Image \cup {Blank, NoStore} /\ locked \in BOOLEAN
    /\ sealed \subseteq Param /\ kept \subseteq Param /\ lapsed \in BOOLEAN
    /\ countdown \in [Monitor -> Nat] /\ consecutive \in [Monitor -> Nat]
    /\ \A m \in Monitor : /\ countdown[m] \in 1 .. Period[m]
                          /\ consecutive[m] <= Tolerance[m] + 1
    /\ verdict \in {"healthy", "failed"} /\ unkicked \in Nat
    /\ attempted \in BOOLEAN /\ staged \in BOOLEAN /\ late \in BOOLEAN
    /\ age \in 0 .. AgeBound
    /\ slot \in Slots /\ lateFor \in 0 .. Timeout /\ upsets \in 0 .. MaxUpsets
    /\ sinceUpset \in 0 .. Settling + 1

\* svc_health.c:67-70 and FW-12: the processor is reset by the watchdog only after
\* two upsets, or when exec_timing found every cycle of a whole timeout late, or
\* when a check left a value outside its limits, which an image of an earlier
\* build makes it do.  Any number of failures of advisory monitors never do it.
NoResetWithoutCause ==
    slot = "expired" => upsets >= 2 \/ lateFor >= Timeout \/ lapsed

\* The same without the image of an earlier build, which refutes it: the check finds
\* again and again the value it kept itself.
OneUpsetNeverResets ==
    slot = "expired" => upsets >= 2 \/ lateFor >= Timeout

\* svc_health.c:32-36: software that goes on missing its deadlines is reset.
PersistentLatenessResets == []<>(~late \/ slot = "expired")

\* Once upsets and overruns stop the verdict becomes healthy for good, whatever
\* the advisory monitors find: nothing is withheld from software that recovered.
HealthyAgain ==
    <>[](~late /\ sinceUpset > Settling) => <>[](verdict = "healthy")

\* FW-20: a live value outside its limits is gone within one period of the check,
\* however it got there, a command having set other parameters meanwhile, unless
\* the store answered with an image that lacks the parameter.
IllegalIsRepaired ==
    \A p \in Illegal : sinceUpset <= Settling \/ p \in kept

\* FW-20 as it stands, for images of earlier builds too.  read_params() keeps the
\* live value of what an image lacks, which in a check is the value just found
\* corrupted and not its default (svc_config.c:216-219), and the code refutes it.
IllegalIsGone == Illegal # {} => sinceUpset <= Settling

\* FW-20: a live value that nobody set, legal or not, is gone within one period of
\* the check, but for the two ways in which a checksum is recomputed over it: a
\* command set another parameter first (svc_config.c:183), or a correction came
\* from an image that lacks it (svc_config.c:241).
FlipIsFound ==
    \A p \in Disturbed : sinceUpset <= Settling \/ p \in sealed \cup kept

\* FW-20 as it stands: the checksum catches a flip that leaves the value legal.  A
\* command that sets another parameter before the next check refutes it.
EveryFlipIsFound == Disturbed # {} => sinceUpset <= Settling

\* comm_rs485_hk.c:110-115: between two attempts to send housekeeping never
\* lies more than the longest legal interval, but for one period of the check
\* after an upset that may have hit the interval itself, or as long as an image
\* that lacks the interval keeps it so.
SilenceIsRepaired ==
    slot = "watchdog" =>
        \/ \E longest \in Legal[PeriodParam] : age < longest
        \/ sinceUpset <= Settling
        \/ PeriodParam \in kept

=============================================================================
