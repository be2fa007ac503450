--------------------------------- MODULE Boot ---------------------------------
(***************************************************************************)
(* The way from reset to the cyclic loop: plat_early_init and              *)
(* boot_and_init (src/src/plat/plat_boot.c), the steps boot runs           *)
(* (plat_safe_outputs.c, plat_post.c, plat_devinit.c) and first_cycle of   *)
(* main.c, over the fault service of Fdir.  A step is retried in place;    *)
(* the occurrence count of its fault class is its retry counter, and the   *)
(* pass that escalates a spent limit is made by the boot sequence itself.  *)
(*                                                                         *)
(* What the steps call is external: an output, a device, a self test or a  *)
(* hook succeeds or fails, differently at each attempt.  So are the link   *)
(* the escalations go over, which comes and goes, and the observer, who    *)
(* may power-cycle the payload at any time.                                *)
(***************************************************************************)
EXTENDS Fdir, MemoryTest

CONSTANTS
    StepFault,        \* k_step[].fault: safe outputs, platform, POST, devices, links
    Output,           \* actuators with a safe state
    Device,           \* registered devices
    Tier,             \* s_entry[].stage of each, 1 .. TierCount
    TierCount,        \* PLAT_DEVINIT_STAGE_COUNT
    Required,         \* devices whose failure fails their stage
    MaxAttempts       \* bound of the model, above every limit

StepCount == 5
StepOf == [safeOutputs |-> 1, platform |-> 2, post |-> 3, devices |-> 4, links |-> 5]

ASSUME BootAssumption ==
    /\ StepFault \in [1 .. StepCount -> Class]
    /\ \A s, t \in 1 .. StepCount : StepFault[s] = StepFault[t] => s = t
    /\ \A s \in 1 .. StepCount :
           \/ StepFault[s] \in Severe /\ Limit[StepFault[s]] = 0
           \/ StepFault[s] \in Critical /\ Limit[StepFault[s]] # 0
    /\ LinkClass \notin {StepFault[s] : s \in 1 .. StepCount}
    /\ TierCount \in Nat /\ Tier \in [Device -> 1 .. TierCount]
    /\ Required \subseteq Device
    /\ MaxAttempts \in Nat

VARIABLES
    phase,       \* which part of the start-up runs next
    step,        \* i of boot_and_init
    tried,       \* s_report.attempts[step]
    failed,      \* the attempt just made failed; its report is being serviced
    outcome,     \* s_report.outcome
    slow,        \* steps with s_report.over_budget
    registered,  \* outputs registered with plat_safe_outputs_register
    safe,        \* outputs whose action last succeeded, none after power-on
    memory,      \* whether the region the self test last tried works
    devices,     \* devices whose initialisation last succeeded
    locked,      \* svc_config_locked()
    aborted,     \* mission_aborted()
    linkUp       \* the housekeeping link takes what it is given

bootVars == <<phase, step, tried, failed, outcome, slow, registered, safe, memory,
              devices, locked, aborted>>
vars == <<fdirVars, bootVars, linkUp>>

FaultOf(s) == StepFault[s]
StepFaults == {StepFault[s] : s \in 1 .. StepCount}

-----------------------------------------------------------------------------
\* Memory as the start-up code leaves it, before plat_early_init(); the outputs
\* hold whatever a previous run left them in.
BootInit ==
    /\ FdirInit
    /\ phase = "early"
    /\ step = 1 /\ tried = 0 /\ failed = FALSE
    /\ outcome = "pending" /\ slow = {}
    /\ safe = {} /\ memory = "untested" /\ devices = {}
    /\ locked = FALSE /\ aborted = FALSE
    /\ registered \in SUBSET Output
    /\ linkUp \in BOOLEAN

\* plat_early_init(): the interrupt controller or the timer may refuse, and main
\* then waits for ever.  Otherwise subsystem_init() and boot_and_init() follow.
EarlyInit ==
    /\ phase = "early"
    /\ \E initialised \in BOOLEAN :
           phase' = IF initialised THEN "run" ELSE "halted"
    /\ UNCHANGED <<fdirVars, step, tried, failed, outcome, slow, registered, safe,
                   memory, devices, locked, aborted, linkUp>>

-----------------------------------------------------------------------------
(* The steps: what each leaves behind, and whether it answers QIRAN_OK. *)

\* Seeded fault: the answer is that of the action called last.
LastOutput == CHOOSE o \in Output : TRUE
LastAnswers(now) == registered # {} /\ (LastOutput \in registered => LastOutput \in now)

\* plat_safe_outputs_apply(): every action is called even after one failed, and
\* with none registered the step fails.
AllSafe(now) == registered # {} /\ registered \subseteq now

ApplySafeOutputs(answer) ==
    \E now \in SUBSET registered :
        /\ safe' = now
        /\ answer = AllSafe(now)
        /\ UNCHANGED <<memory, devices>>

\* The platform check and the bring-up of the links are hooks, absent or not.
CallHook == UNCHANGED <<safe, memory, devices>>

\* plat_post_run(): every test runs; the built-in one is not run, and not failed,
\* without a region.
SelfTest(answer) ==
    /\ \/ memory = "untested" /\ memory' = "untested" /\ answer \in BOOLEAN
       \/ \E verdict \in MemoryVerdicts, othersPass \in BOOLEAN :
              /\ memory' = IF verdict.works THEN "works" ELSE "faulty"
              /\ answer = (verdict.passes /\ othersPass)
    /\ UNCHANGED <<safe, devices>>

\* plat_devinit_run_stage(): the whole stage is run, then judged by what it needs.
StageFails(t, good) == \E d \in Required : Tier[d] = t /\ d \notin good

\* plat_devinit_run(): a stage that fails is the last one run.
StageRuns(t, good) == \A u \in 1 .. t - 1 : ~StageFails(u, good)
DevicesFail(good)  == \E t \in 1 .. TierCount : StageFails(t, good)

\* A device whose stage is not reached stays as an earlier attempt left it.
InitDevices(answer) ==
    \E good \in SUBSET Device :
        LET reached == {d \in Device : StageRuns(Tier[d], good)}
        IN  /\ devices' = (devices \ reached) \cup (good \cap reached)
            /\ answer = ~DevicesFail(good)
            /\ UNCHANGED <<safe, memory>>

RunStep(answer) ==
    \/ step = StepOf.safeOutputs /\ ApplySafeOutputs(answer)
    \/ step \in {StepOf.platform, StepOf.links} /\ CallHook
    \/ step = StepOf.post /\ SelfTest(answer)
    \/ step = StepOf.devices /\ InitDevices(answer)

-----------------------------------------------------------------------------
(* run_step(): attempt, report, service, decide. *)

GoesOn ==
    IF step < StepCount
    THEN step' = step + 1 /\ tried' = 0 /\ phase' = "run"
    ELSE phase' = "passed" /\ UNCHANGED <<step, tried>>

\* In time: nothing is reported.
AttemptPasses ==
    /\ phase = "run"
    /\ RunStep(TRUE)
    /\ GoesOn
    /\ failed' = FALSE
    /\ UNCHANGED <<fdirVars, outcome, slow, registered, locked, aborted,
                   linkUp>>

\* Late, or refused: reported, and serviced at once.
AttemptReports(late) ==
    /\ phase = "run" /\ tried < MaxAttempts
    /\ RunStep(late)
    /\ tried' = tried + 1
    /\ failed' = ~late
    /\ slow' = IF late THEN slow \cup {step} ELSE slow
    /\ Report(FaultOf(step))
    /\ phase' = "service"
    /\ UNCHANGED <<serviced, recordVars, escalations, undelivered, reentries,
                   passVars, clearedAt, linkFailures, step, outcome, registered,
                   locked, aborted, linkUp>>

\* error_handling_service(), called by the boot sequence or by the loop.
ServicePass(after) ==
    /\ \/ cursor = 0 /\ BeginPass([c \in CollectedClasses |-> 0]) /\ UNCHANGED phase
       \/ /\ cursor # 0
          /\ ReadClass \/ Classify(linkUp) \/ EndPass
          /\ IF cursor > ClassCount THEN phase' = after ELSE UNCHANGED phase

Service ==
    /\ phase = "service"
    /\ ServicePass("decide")
    /\ UNCHANGED <<step, tried, failed, outcome, slow, registered, safe, memory,
                   devices, locked, aborted, linkUp>>

\* Seeded faults: every step is retried; the limit is looked up one report late.
GivesUpWhenSpent(c) == ExhaustedAfter(c, 0)
GivesUpLate(c)      == Limit[c] = 0 \/ Occurrences(c) > Limit[c]

\* !retryable || svc_fdir_retries_exhausted(step->fault)
GivesUp(c) == Limit[c] = 0 \/ ExhaustedAfter(c, 0)

StepSlow ==
    /\ phase = "decide" /\ ~failed
    /\ GoesOn
    /\ UNCHANGED <<fdirVars, failed, outcome, slow, registered, safe, memory,
                   devices, locked, aborted, linkUp>>

StepRetried ==
    /\ phase = "decide" /\ failed /\ ~GivesUp(FaultOf(step))
    /\ phase' = "run"
    /\ UNCHANGED <<fdirVars, step, tried, failed, outcome, slow, registered, safe,
                   memory, devices, locked, aborted, linkUp>>

\* The terminal outcome, and mission_abort() by first_cycle().
StepGivenUp ==
    /\ phase = "decide" /\ failed /\ GivesUp(FaultOf(step))
    /\ outcome' = "terminal" /\ aborted' = TRUE
    /\ phase' = "loop"
    /\ UNCHANGED <<fdirVars, step, tried, failed, slow, registered, safe, memory,
                   devices, locked, linkUp>>

\* Seeded fault: the class of the last step is left as it is.
ClearsBut(c) == c \in StepFaults \ {FaultOf(StepCount)}

ClearsOnSuccess(c) == c \in StepFaults

\* Every step has passed: the classes are cleared, the configuration locked, and
\* readiness reported, the failure of which is the link's own fault.
BootSucceeds ==
    /\ phase = "passed"
    /\ LET cleared(counter, value) ==
               [c \in Class |-> IF ClearsOnSuccess(c) THEN value[c] ELSE counter[c]]
       IN  /\ serviced'    = cleared(serviced, reported)
           /\ occurrences' = cleared(occurrences, Zero)
           /\ flag'        = cleared(flag, [c \in Class |-> FALSE])
           /\ elevated'    = cleared(elevated, [c \in Class |-> FALSE])
           /\ clearedAt'   = cleared(clearedAt, reported)
    /\ outcome' = "success" /\ locked' = TRUE
    /\ IF linkUp THEN UNCHANGED reported ELSE Report(LinkClass)
    /\ phase' = "loop"
    /\ UNCHANGED <<bySeverity, escalations, undelivered, reentries, passVars,
                   linkFailures, step, tried, failed, slow, registered, safe, memory,
                   devices, aborted, linkUp>>

\* The loop that follows either outcome: its slot of the fault service.
CyclicService ==
    /\ phase = "loop"
    /\ ServicePass("loop")
    /\ UNCHANGED <<step, tried, failed, outcome, slow, registered, safe, memory,
                   devices, locked, aborted, linkUp>>

-----------------------------------------------------------------------------
(* The world. *)

LinkChanges ==
    /\ linkUp' = ~linkUp
    /\ UNCHANGED <<fdirVars, bootVars>>

\* The observer cycles the power, asked to or not: subsystem_init() finds memory
\* as BootInit does.
PowerCycle ==
    /\ phase # "early"
    /\ reported' = Zero /\ serviced' = Zero /\ occurrences' = Zero
    /\ bySeverity' = Zero /\ escalations' = Zero /\ clearedAt' = Zero
    /\ flag' = [c \in Class |-> FALSE] /\ elevated' = [c \in Class |-> FALSE]
    /\ undelivered' = 0 /\ reentries' = 0 /\ linkFailures' = 0
    /\ cursor' = 0 /\ seen' = 0
    /\ phase' = "early" /\ step' = 1 /\ tried' = 0 /\ failed' = FALSE
    /\ outcome' = "pending" /\ slow' = {}
    /\ safe' = {} /\ memory' = "untested" /\ devices' = {}
    /\ locked' = FALSE /\ aborted' = FALSE
    /\ UNCHANGED <<registered, linkUp>>

Boots ==
    \/ EarlyInit
    \/ AttemptPasses
    \/ \E late \in BOOLEAN : AttemptReports(late)
    \/ Service \/ StepSlow \/ StepRetried \/ StepGivenUp \/ BootSucceeds

BootNext == Boots \/ CyclicService \/ LinkChanges \/ PowerCycle

\* The processor runs on; the link and the observer need not do anything.
BootSpec == BootInit /\ [][BootNext]_vars /\ WF_vars(Boots \/ CyclicService)

-----------------------------------------------------------------------------
\* What each variable of the start-up may hold; what is safe is registered.
BootTypeOK ==
    /\ phase \in {"early", "halted", "run", "service", "decide", "passed", "loop"}
    /\ step \in 1 .. StepCount /\ tried \in 0 .. MaxAttempts
    /\ failed \in BOOLEAN /\ locked \in BOOLEAN /\ aborted \in BOOLEAN
    /\ linkUp \in BOOLEAN
    /\ outcome \in {"pending", "success", "terminal"}
    /\ slow \subseteq 1 .. StepCount
    /\ registered \subseteq Output /\ safe \subseteq registered
    /\ memory \in {"untested", "works", "faulty"}
    /\ devices \subseteq Device

\* plat_boot.c:107-109: after every reset, and whatever the order in which outputs
\* refuse and recover, no other step starts before all of them are safe at once.
NothingBeforeSafe ==
    step > StepOf.safeOutputs => registered # {} /\ safe = registered

\* A configuration is locked for flight, and success reported, only on hardware that
\* works: required devices of every tier initialised by one and the same attempt, no
\* memory fault of the kinds plat_post.h names, outputs safe.
SuccessMeansWorking ==
    outcome = "success" \/ locked =>
        /\ Required \subseteq devices
        /\ memory # "faulty"
        /\ registered # {} /\ safe = registered
        /\ ~aborted

\* FW-30 and plat_boot.c:144-148: boot gives up after exactly the attempts the class
\* allows, one for a class without tolerance, and by then the fault has been
\* escalated, although no loop was running to do it.
TerminalAfterRetries ==
    outcome = "terminal" =>
        LET c == FaultOf(step)
        IN  /\ tried = IF Limit[c] = 0 THEN 1 ELSE Limit[c]
            /\ escalations[c] > 0 /\ (c \in Critical => elevated[c])
            /\ aborted /\ ~locked

\* plat_boot.c:216-219: after a boot that succeeded every step's class counts from
\* zero, and none was escalated unless its step was late; a link that fails while
\* boot reports is the link's own fault, not a step's.
SuccessStartsClean ==
    outcome = "success" =>
        /\ \A c \in StepFaults : Occurrences(c) = 0 /\ ~elevated[c]
        /\ \A s \in 1 .. StepCount \ slow : escalations[FaultOf(s)] = 0

\* Boot ends, in one outcome or the other, unless the power goes first: no step is
\* retried for ever, whatever fails and however the link comes and goes.
BootEnds ==
    phase = "run" ~> (outcome # "pending" \/ phase \in {"early", "halted"})

=============================================================================
