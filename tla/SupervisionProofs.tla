-------------------------- MODULE SupervisionProofs --------------------------
(***************************************************************************)
(* Supervision for every set of parameters, every set of monitors, period, *)
(* tolerance and timeout, and any number of upsets.                        *)
(*                                                                         *)
(* While a checksum does not fit, or a value is outside its limits that no *)
(* check kept, the cycles since the last upset and the cycles until the    *)
(* check of the configuration is next due add up to no more than its       *)
(* period: the check falls due before the period is over.  What it leaves  *)
(* wrong is what an image lacks, and that is marked.                       *)
(*                                                                         *)
(* As long as no check has left a value outside its limits, every failure  *)
(* of it in a row takes an upset of its own, so one upset stays within its *)
(* tolerance; short of two, a kick is withheld only in cycles that were    *)
(* late, and the device has then gone unkicked no longer than exec_timing  *)
(* has gone without passing.                                               *)
(***************************************************************************)
EXTENDS Supervision, TLAPS

USE ConfigAssumption, MonitorAssumption, SupervisionAssumption

\* The period of the check, and the monitor that makes it.
LEMMA SettlingPositive == Settling \in Nat \ {0} /\ Integrity \in Monitor
  BY DEF Settling

\* Every block the code builds is a block: its defaults, and what it takes of an
\* image.
LEMMA BlocksBuilt ==
    ASSUME TypeOK
    PROVE  /\ Default \in Block
           /\ \A live \in Block : image.intact => Taken(live) \in Block
<1>1. Default \in Block
  BY DEF Block
<1>2. ASSUME NEW live \in Block, image.intact
      PROVE  Taken(live) \in Block
  <2>1. image \in Image
    <3>1. ~Blank.intact /\ ~NoStore.intact
      BY DEF Blank, NoStore
    <3> QED
      BY <1>2, <3>1 DEF TypeOK
  <2>2. image.values \in Block
    BY <2>1 DEF Image
  <2> QED
    BY <1>2, <2>2 DEF Taken, Block
<1> QED
  BY <1>1, <1>2

\* What is taken of an image is within its limits, but for what the image lacks.
LEMMA TakenInRange ==
    ASSUME NEW live \in Block, NEW p \in Param
    PROVE  p \in image.holds \/ InRange(p, live[p]) => InRange(p, Taken(live)[p])
  BY DEF Taken, InRange

-----------------------------------------------------------------------------
\* The block and what belongs to it.
ConfigTypes ==
    /\ value \in Block /\ meant \in Block /\ summed \in Block \cup {NoBlock}
    /\ image \in Image \cup {Blank, NoStore} /\ locked \in BOOLEAN
    /\ sealed \subseteq Param /\ kept \subseteq Param

\* A start-up leaves defaults, or an image over them.
LEMMA StartUpTypes ==
    ASSUME TypeOK, NEW answers \in BOOLEAN, StartUp(answers)
    PROVE  ConfigTypes'
<1> DEFINE block == IF image.intact /\ answers THEN Taken(Default) ELSE Default
<1>1. block \in Block
  BY BlocksBuilt
<1>2. /\ value' = block /\ summed' = block /\ meant' = block /\ image' = image
      /\ locked' = TRUE /\ sealed' = {} /\ kept' = {}
  BY DEF StartUp, Restore, Leave
<1> HIDE DEF block
<1> QED
  BY <1>1, <1>2 DEF ConfigTypes, TypeOK

\* A check leaves the block, or restores it.
LEMMA VerifyTypes ==
    ASSUME TypeOK, NEW answers \in BOOLEAN, Verify(answers)
    PROVE  ConfigTypes'
<1>1. CASE Intact
  BY <1>1 DEF Verify, configVars, historyVars, ConfigTypes, TypeOK
<1>2. CASE ~Intact /\ image.intact /\ answers /\ ~Corrected
  <2>1. /\ value' = Taken(value) /\ summed' = Taken(value) /\ meant' = Taken(meant)
        /\ sealed' = {} /\ kept' = Disturbed \ image.holds
        /\ image' = image /\ locked' = locked
    BY <1>2 DEF Verify, RestoreImage, Leave
  <2>2. Taken(value) \in Block /\ Taken(meant) \in Block
    BY <1>2, BlocksBuilt DEF TypeOK
  <2>3. Disturbed \subseteq Param
    BY DEF Disturbed
  <2> QED
    BY <2>1, <2>2, <2>3 DEF ConfigTypes, TypeOK
<1>3. CASE ~Intact /\ ~(image.intact /\ answers /\ ~Corrected)
  <2>1. /\ value' = Default /\ summed' = Default /\ meant' = Default
        /\ sealed' = {} /\ kept' = {} /\ image' = image /\ locked' = locked
    BY <1>3 DEF Verify, Restore, Leave
  <2> QED
    BY <2>1, BlocksBuilt DEF ConfigTypes, TypeOK
<1> QED
  BY <1>1, <1>2, <1>3

\* A command sets a parameter within its limits, or saves.
LEMMA CommandTypes ==
    ASSUME TypeOK, Command
    PROVE  ConfigTypes'
<1>1. CASE UNCHANGED configVars
  BY <1>1 DEF configVars, historyVars, ConfigTypes, TypeOK
<1>2. ASSUME NEW p \in Param, NEW v \in Value, Set(p, v)
      PROVE  ConfigTypes'
  <2>1. /\ value' = [value EXCEPT ![p] = v] /\ summed' = value'
        /\ meant' = [meant EXCEPT ![p] = v] /\ image' = image /\ locked' = locked
        /\ sealed' = Disturbed \ {p} /\ kept' = kept \ {p}
    BY <1>2 DEF Set, Leave
  <2>2. value' \in Block /\ meant' \in Block
    BY <2>1 DEF TypeOK, Block
  <2>3. sealed' \subseteq Param /\ kept' \subseteq Param
    BY <2>1 DEF Disturbed, TypeOK
  <2> QED
    BY <2>1, <2>2, <2>3 DEF ConfigTypes, TypeOK
<1>3. CASE Save
  <2>1. /\ value' = value /\ summed' = summed /\ locked' = locked /\ meant' = meant
        /\ sealed' = sealed /\ kept' = kept
        /\ image' \in {[intact |-> TRUE, holds |-> Param, values |-> value], image, Blank}
    BY <1>3 DEF Save, historyVars
  <2>2. [intact |-> TRUE, holds |-> Param, values |-> value] \in Image
    BY DEF Image, TypeOK
  <2> QED
    BY <2>1, <2>2 DEF ConfigTypes, TypeOK
<1> QED
  BY <1>1, <1>2, <1>3 DEF Command

\* A flip changes one value to another, or the checksum.
LEMMA FlipTypes ==
    ASSUME TypeOK, FlipChecksum \/ \E p \in Param, v \in Value : FlipValue(p, v)
    PROVE  ConfigTypes'
<1>1. CASE FlipChecksum
  BY <1>1 DEF FlipChecksum, historyVars, ConfigTypes, TypeOK
<1>2. ASSUME NEW p \in Param, NEW v \in Value, FlipValue(p, v)
      PROVE  ConfigTypes'
  <2>1. value' = [value EXCEPT ![p] = v] /\ UNCHANGED <<summed, locked, image, historyVars>>
    BY <1>2 DEF FlipValue
  <2>2. value' \in Block
    BY <2>1 DEF TypeOK, Block
  <2> QED
    BY <2>1, <2>2 DEF ConfigTypes, TypeOK, historyVars
<1> QED
  BY <1>1, <1>2

-----------------------------------------------------------------------------
\* The monitors.
MonitorTypes ==
    /\ countdown \in [Monitor -> Nat] /\ consecutive \in [Monitor -> Nat]
    /\ \A m \in Monitor : /\ countdown[m] \in 1 .. Period[m]
                          /\ consecutive[m] <= Tolerance[m] + 1

\* Every monitor starts within its own period.
LEMMA FirstCountdownTypes ==
    /\ FirstCountdown \in [Monitor -> Nat]
    /\ \A m \in Monitor : FirstCountdown[m] \in 1 .. Period[m]
<1>1. ASSUME NEW m \in Monitor
      PROVE  FirstCountdown[m] \in Nat /\ FirstCountdown[m] \in 1 .. Period[m]
  <2>1. Period[m] \in Nat /\ Period[m] > 0 /\ m - 1 \in Nat
    BY DEF Monitor
  <2>2. (m - 1) % Period[m] \in 0 .. Period[m] - 1
    BY <2>1
  <2> QED
    BY <2>1, <2>2 DEF FirstCountdown
<1> QED
  BY <1>1 DEF FirstCountdown

\* A check runs what is due, and counts its failures up to past the tolerance.
LEMMA CheckTypes ==
    ASSUME TypeOK, NEW passed, Check(passed)
    PROVE  MonitorTypes'
<1>1. ASSUME NEW m \in Monitor
      PROVE  /\ (IF Due(m) THEN Period[m] ELSE countdown[m] - 1) \in 1 .. Period[m]
             /\ (IF Due(m) THEN FailuresInARow(m, passed[m]) ELSE consecutive[m]) \in Nat
             /\ (IF Due(m) THEN FailuresInARow(m, passed[m]) ELSE consecutive[m])
                    <= Tolerance[m] + 1
  <2>1. /\ Period[m] \in Nat /\ Period[m] > 0 /\ Tolerance[m] \in Nat
        /\ countdown[m] \in Nat /\ countdown[m] >= 1 /\ countdown[m] <= Period[m]
        /\ consecutive[m] \in Nat /\ consecutive[m] <= Tolerance[m] + 1
    BY DEF TypeOK
  <2>2. (IF Due(m) THEN Period[m] ELSE countdown[m] - 1) \in 1 .. Period[m]
    BY <2>1 DEF Due
  <2>3. FailuresInARow(m, passed[m]) \in Nat /\ FailuresInARow(m, passed[m]) <= Tolerance[m] + 1
    BY <2>1 DEF FailuresInARow
  <2> QED
    BY <2>1, <2>2, <2>3
<1>2. /\ countdown' = [m \in Monitor |-> IF Due(m) THEN Period[m] ELSE countdown[m] - 1]
      /\ consecutive' = [m \in Monitor |->
             IF Due(m) THEN FailuresInARow(m, passed[m]) ELSE consecutive[m]]
  BY DEF Check
<1>3. \A m \in Monitor : Period[m] \in Nat
  OBVIOUS
<1> QED
  BY <1>1, <1>2, <1>3 DEF MonitorTypes

-----------------------------------------------------------------------------
\* The counts of the loop and of the world.
MarkTypes ==
    attempted \in BOOLEAN /\ staged \in BOOLEAN /\ late \in BOOLEAN /\ lapsed \in BOOLEAN

WorldTypes ==
    /\ verdict \in {"healthy", "failed"} /\ unkicked \in Nat
    /\ age \in 0 .. AgeBound
    /\ slot \in Slots /\ lateFor \in 0 .. Timeout /\ upsets \in 0 .. MaxUpsets
    /\ sinceUpset \in 0 .. Settling + 1

\* The types in parts.
LEMMA TypeParts == TypeOK <=> ConfigTypes /\ MonitorTypes /\ MarkTypes /\ WorldTypes
  BY Zenon DEF TypeOK, ConfigTypes, MonitorTypes, MarkTypes, WorldTypes

\* No action leaves a mark that is neither set nor clear.
LEMMA MarksKept ==
    ASSUME TypeOK, Next \/ UNCHANGED vars
    PROVE  MarkTypes'
<1>0. MarkTypes
  BY TypeParts
<1>1. CASE Start
  <2>1. attempted' = FALSE /\ staged' = FALSE /\ late' = FALSE /\ lapsed' = FALSE
    BY <1>1 DEF Start, HkRestart
  <2> QED
    BY <2>1 DEF MarkTypes
<1>2. ASSUME NEW extra \in 0 .. MaxExtra, Tick(extra)
      PROVE  MarkTypes'
  <2>1. attempted' = attempted /\ staged' = staged /\ lapsed' = lapsed
    BY <1>2 DEF Tick, AgeBy
  <2>2. late' = (extra > 0)
    BY <1>2 DEF Tick
  <2>3. (extra > 0) \in BOOLEAN
    OBVIOUS
  <2>4. late' \in BOOLEAN
    BY <2>2, <2>3, Zenon
  <2> QED
    BY <1>0, <2>1, <2>4, Zenon DEF MarkTypes
<1>3. ASSUME NEW answers \in BOOLEAN, HealthCheck(answers)
      PROVE  MarkTypes'
  <2>1. /\ late' = late /\ attempted' = attempted /\ staged' = staged
        /\ lapsed' = (lapsed \/ (Due(Integrity) /\ Illegal' # {}))
    BY <1>3 DEF HealthCheck, hkVars
  <2>2. (lapsed \/ (Due(Integrity) /\ Illegal' # {})) \in BOOLEAN
    OBVIOUS
  <2> QED
    BY <1>0, <2>1, <2>2, Zenon DEF MarkTypes
<1>4. CASE Comms \/ Command \/ HealthConsolidate \/ Telemetry \/ Watchdog \/ Upset \/ UNCHANGED vars
  <2>1. /\ late' = late /\ lapsed' = lapsed
        /\ attempted' = attempted \/ attempted' = TRUE
        /\ staged' = staged \/ staged' = TRUE \/ staged' = FALSE
    BY <1>4, Zenon
    DEF Comms, Command, HealthConsolidate, Telemetry, Watchdog, Upset, Transmit,
        Stage, hkVars, worldVars, vars
  <2> QED
    BY <1>0, <2>1, Zenon DEF MarkTypes
<1> QED
  BY <1>1, <1>2, <1>3, <1>4 DEF Next, Loop

\* Every action keeps every variable within its range.
LEMMA TypesKept ==
    ASSUME TypeOK, Next \/ UNCHANGED vars
    PROVE  TypeOK'
<1>0. ConfigTypes /\ MonitorTypes /\ WorldTypes /\ MarkTypes'
      /\ Settling \in Nat \ {0} /\ Settling' = Settling
      /\ Timeout \in Nat \ {0} /\ MaxUpsets \in Nat /\ AgeBound \in Nat
  BY TypeParts, MarksKept, SettlingPositive DEF Settling
<1>1. CASE Start
  <2>1. ConfigTypes'
    BY <1>1, StartUpTypes DEF Start
  <2>2. MonitorTypes'
    <3>1. \A m \in Monitor : Tolerance[m] \in Nat
      OBVIOUS
    <3> QED
      BY <1>1, <3>1, FirstCountdownTypes DEF Start, HealthRestart, MonitorTypes
  <2>3. WorldTypes'
    BY <1>0, <1>1 DEF Start, HealthRestart, HkRestart, WorldTypes, Slots
  <2> QED
    BY <2>1, <2>2, <2>3, <1>0, TypeParts, PTL
<1>2. ASSUME NEW extra \in 0 .. MaxExtra, Tick(extra)
      PROVE  TypeOK'
  <2>0. extra \in Nat
    BY <1>2
  <2>1. ConfigTypes'
    BY <1>0, <1>2 DEF Tick, configVars, historyVars, ConfigTypes
  <2>2. MonitorTypes'
    BY <1>0, <1>2 DEF Tick, Elapse, MonitorTypes
  <2>3. WorldTypes'
    <3>1. /\ unkicked' = unkicked + (1 + extra) /\ UNCHANGED <<verdict, upsets>>
          /\ age' = (IF age + (1 + extra) > AgeBound THEN AgeBound ELSE age + (1 + extra))
          /\ lateFor' = (IF lateFor + 1 + extra > Timeout THEN Timeout ELSE lateFor + 1 + extra)
          /\ sinceUpset' = (IF sinceUpset > Settling THEN sinceUpset ELSE sinceUpset + 1)
          /\ slot' \in {"expired", "health"}
      BY <1>2 DEF Tick, Elapse, AgeBy
    <3> QED
      BY <1>0, <2>0, <3>1 DEF WorldTypes, Slots
  <2> QED
    BY <2>1, <2>2, <2>3, <1>0, TypeParts, PTL
<1>3. ASSUME NEW answers \in BOOLEAN, HealthCheck(answers)
      PROVE  TypeOK'
  <2>1. ConfigTypes'
    BY <1>0, <1>3, VerifyTypes DEF HealthCheck, configVars, historyVars, ConfigTypes
  <2>2. MonitorTypes'
    BY <1>3, CheckTypes DEF HealthCheck
  <2>3. WorldTypes'
    <3>1. /\ UNCHANGED <<verdict, unkicked, age, upsets, sinceUpset>>
          /\ lateFor' = lateFor \/ lateFor' = 0
          /\ slot' = "comms"
      BY <1>3 DEF HealthCheck, Check, hkVars
    <3> QED
      BY <1>0, <3>1 DEF WorldTypes, Slots
  <2> QED
    BY <2>1, <2>2, <2>3, <1>0, TypeParts, PTL
<1>4. CASE Command
  <2>1. ConfigTypes'
    BY <1>4, CommandTypes
  <2>2. MonitorTypes' /\ WorldTypes'
    BY <1>0, <1>4 DEF Command, healthVars, hkVars, worldVars, MonitorTypes, WorldTypes, Slots
  <2> QED
    BY <2>1, <2>2, <1>0, TypeParts, PTL
<1>5. CASE Comms \/ HealthConsolidate \/ Telemetry \/ Watchdog \/ UNCHANGED vars
  <2>1. ConfigTypes' /\ MonitorTypes'
    BY <1>0, <1>5
    DEF Comms, HealthConsolidate, Telemetry, Watchdog, Consolidate, Tickle, configVars,
        historyVars, healthVars, vars, ConfigTypes, MonitorTypes
  <2>2. WorldTypes'
    <3>1. CASE Comms
      BY <1>0, <3>1 DEF Comms, Transmit, healthVars, worldVars, WorldTypes, Slots
    <3>2. CASE HealthConsolidate
      BY <1>0, <3>2 DEF HealthConsolidate, Consolidate, hkVars, worldVars, WorldTypes, Slots
    <3>3. CASE Telemetry
      BY <1>0, <3>3 DEF Telemetry, Stage, healthVars, hkVars, worldVars, WorldTypes, Slots
    <3>4. CASE Watchdog
      BY <1>0, <3>4 DEF Watchdog, Tickle, hkVars, worldVars, WorldTypes, Slots
    <3>5. CASE UNCHANGED vars
      BY <1>0, <3>5 DEF vars, healthVars, hkVars, worldVars, WorldTypes
    <3> QED
      BY <1>5, <3>1, <3>2, <3>3, <3>4, <3>5
  <2> QED
    BY <2>1, <2>2, <1>0, TypeParts, PTL
<1>6. CASE Upset
  <2>1. ConfigTypes'
    BY <1>6, FlipTypes DEF Upset
  <2>2. MonitorTypes' /\ WorldTypes'
    BY <1>0, <1>6 DEF Upset, healthVars, hkVars, MonitorTypes, WorldTypes
  <2> QED
    BY <2>1, <2>2, <1>0, TypeParts, PTL
<1> QED
  BY <1>1, <1>2, <1>3, <1>4, <1>5, <1>6 DEF Next, Loop

\* Nothing has run yet.
LEMMA TypesInit == Init => TypeOK
<1> SUFFICES ASSUME Init PROVE TypeOK
  OBVIOUS
<1>1. Default \in Block
  BY DEF Block
<1>2. ConfigTypes
  BY <1>1 DEF Init, ConfigInit, ConfigTypes, Image
<1>3. MonitorTypes
  <2>1. \A m \in Monitor : Tolerance[m] \in Nat
    OBVIOUS
  <2> QED
    BY <2>1, FirstCountdownTypes DEF Init, HealthInit, MonitorTypes
<1>4. WorldTypes
  BY SettlingPositive DEF Init, HealthInit, HkInit, WorldTypes, Slots
<1>5. MarkTypes
  BY Zenon DEF Init, HkInit, MarkTypes
<1> QED
  BY <1>2, <1>3, <1>4, <1>5, TypeParts

\* No countdown, count of failures or history leaves its range.
THEOREM SupervisionTypes == Spec => []TypeOK
<1>1. Init => TypeOK
  BY TypesInit
<1>2. TypeOK /\ [Next]_vars => TypeOK'
  BY TypesKept
<1> QED
  BY <1>1, <1>2, PTL DEF Spec

-----------------------------------------------------------------------------
\* What a check has yet to see: a checksum that does not fit, or a value outside its
\* limits that no check kept.
Unseen == summed # value \/ \E p \in Illegal : p \notin kept

\* It is seen before the period of the check is over.
SeenInTime ==
    Unseen => sinceUpset + countdown[Integrity]
                  <= Settling + (IF slot \in {"health", "expired"} THEN 1 ELSE 0)

\* What was set or restored last is within its limits.
MeantLegal == \A p \in Param : InRange(p, meant[p])

\* Where the checksum was computed over a value nobody set, it is marked.
SummedOver ==
    summed \in Block =>
        \A p \in Param : summed[p] # meant[p] => p \in sealed \/ p \in kept

RepairInv == SeenInTime /\ MeantLegal /\ SummedOver

\* A check that is due leaves a checksum that fits, and nothing outside its limits but
\* what it kept.
LEMMA VerifyRepairs ==
    ASSUME TypeOK, RepairInv, NEW answers \in BOOLEAN, Verify(answers)
    PROVE  ~Unseen' /\ MeantLegal' /\ SummedOver'
<1>0. Default \in Block /\ \A p \in Param : InRange(p, Default[p])
  BY BlocksBuilt DEF InRange
<1>1. CASE Intact
  <2>1. UNCHANGED configVars
    BY <1>1 DEF Verify
  <2>2. summed' = value' /\ Illegal' = {}
    BY <1>1, <2>1 DEF Intact, Illegal, configVars, InRange
  <2> QED
    BY <2>1, <2>2 DEF Unseen, RepairInv, MeantLegal, SummedOver, InRange, configVars, historyVars
<1>2. CASE ~Intact /\ image.intact /\ answers /\ ~Corrected
  <2>1. /\ value' = Taken(value) /\ summed' = Taken(value) /\ meant' = Taken(meant)
        /\ kept' = Disturbed \ image.holds
    BY <1>2 DEF Verify, RestoreImage, Leave
  <2>2. MeantLegal'
    <3> SUFFICES ASSUME NEW p \in Param PROVE InRange(p, meant'[p])
      BY DEF MeantLegal, InRange
    <3>1. InRange(p, meant[p])
      BY DEF RepairInv, MeantLegal
    <3>2. meant'[p] = Taken(meant)[p]
      BY <2>1
    <3> QED
      BY <3>1, <3>2, TakenInRange DEF TypeOK
  <2>3. ASSUME NEW p \in Param, Taken(value)[p] # Taken(meant)[p]
        PROVE  p \in kept'
    <3>1. p \notin image.holds /\ value[p] # meant[p]
      BY <2>3 DEF Taken
    <3> QED
      BY <2>1, <3>1 DEF Disturbed
  <2>4. ~Unseen'
    <3> SUFFICES ASSUME NEW p \in Param, ~InRange(p, Taken(value)[p])
                 PROVE  p \in kept'
      BY <2>1 DEF Unseen, Illegal, InRange
    <3>1. InRange(p, Taken(meant)[p])
      BY <2>1, <2>2 DEF MeantLegal, InRange
    <3> QED
      BY <2>3, <3>1 DEF InRange
  <2> QED
    BY <2>1, <2>2, <2>3, <2>4 DEF SummedOver
<1>3. CASE ~Intact /\ ~(image.intact /\ answers /\ ~Corrected)
  <2>1. value' = Default /\ summed' = Default /\ meant' = Default
    BY <1>3 DEF Verify, Restore, Leave
  <2> QED
    BY <1>0, <2>1 DEF Unseen, Illegal, MeantLegal, SummedOver, InRange
<1> QED
  BY <1>1, <1>2, <1>3

\* A start-up leaves a legal block under its checksum.
LEMMA StartUpRepairs ==
    ASSUME TypeOK, NEW answers \in BOOLEAN, StartUp(answers)
    PROVE  /\ Intact' /\ ~Unseen'
           /\ MeantLegal' /\ SummedOver'
<1> DEFINE block == IF image.intact /\ answers THEN Taken(Default) ELSE Default
<1>1. value' = block /\ summed' = block /\ meant' = block
  BY DEF StartUp, Restore, Leave
<1>2. \A p \in Param : block[p] \in Legal[p]
  <2> SUFFICES ASSUME NEW p \in Param PROVE block[p] \in Legal[p]
    OBVIOUS
  <2>1. Default \in Block /\ InRange(p, Default[p])
    BY BlocksBuilt DEF InRange
  <2> QED
    BY <2>1, TakenInRange DEF InRange
<1> HIDE DEF block
<1> QED
  BY <1>1, <1>2 DEF Intact, Unseen, Illegal, MeantLegal, SummedOver, InRange

\* A command that sets a parameter is the last word on it, and marks the others.
LEMMA CommandRepairs ==
    ASSUME TypeOK, RepairInv, Command
    PROVE  /\ Intact => Intact'
           /\ Unseen' => Unseen
           /\ MeantLegal' /\ SummedOver'
<1>1. CASE UNCHANGED configVars \/ Save
  <2>1. UNCHANGED <<value, summed, meant, sealed, kept>>
    BY <1>1 DEF configVars, historyVars, Save
  <2> QED
    BY <2>1 DEF Intact, Unseen, Illegal, RepairInv, MeantLegal, SummedOver, InRange
<1>2. ASSUME NEW p \in Param, NEW v \in Value, Set(p, v)
      PROVE  /\ Intact => Intact'
             /\ Unseen' => Unseen
             /\ MeantLegal' /\ SummedOver'
  <2>1. /\ value' = [value EXCEPT ![p] = v] /\ summed' = [value EXCEPT ![p] = v]
        /\ meant' = [meant EXCEPT ![p] = v] /\ v \in Legal[p]
        /\ sealed' = Disturbed \ {p} /\ kept' = kept \ {p}
    BY <1>2 DEF Set, Leave, InRange
  <2>2. \A q \in Param : /\ value'[q] = IF q = p THEN v ELSE value[q]
                         /\ meant'[q] = IF q = p THEN v ELSE meant[q]
    BY <2>1 DEF TypeOK, Block
  <2>3. Intact => Intact'
    BY <2>1, <2>2 DEF Intact, InRange
  <2>4. Unseen' => Unseen
    BY <2>1, <2>2 DEF Unseen, Illegal, InRange
  <2>5. MeantLegal'
    BY <2>1, <2>2 DEF RepairInv, MeantLegal, InRange
  <2>6. SummedOver'
    BY <2>1, <2>2 DEF SummedOver, Disturbed
  <2> QED
    BY <2>3, <2>4, <2>5, <2>6
<1> QED
  BY <1>1, <1>2 DEF Command

\* An upset marks nothing, and computes no checksum.
LEMMA UpsetMarks ==
    ASSUME TypeOK, RepairInv, Upset
    PROVE  MeantLegal' /\ SummedOver'
<1>1. UNCHANGED <<meant, sealed, kept>> /\ (summed' = summed \/ summed' = NoBlock)
  BY DEF Upset, FlipChecksum, FlipValue, historyVars
<1>2. NoBlock \notin Block
  <2>1. DOMAIN NoBlock = {} /\ PeriodParam \in Param
    BY DEF NoBlock
  <2> QED
    BY <2>1 DEF Block
<1> QED
  BY <1>1, <1>2 DEF RepairInv, MeantLegal, SummedOver, InRange

\* Cycles pass towards the check as they pass since the upset.
LEMMA RepairKept ==
    ASSUME TypeOK, RepairInv, Next \/ UNCHANGED vars
    PROVE  RepairInv'
<1>0. /\ Settling \in Nat /\ Integrity \in Monitor /\ Settling = Period[Integrity]
      /\ countdown[Integrity] \in Nat /\ countdown[Integrity] >= 1
      /\ countdown[Integrity] <= Settling /\ sinceUpset \in Nat /\ Settling' = Settling
  BY SettlingPositive DEF TypeOK, Settling
<1>1. CASE Start
  BY <1>1, StartUpRepairs DEF Start, RepairInv, SeenInTime
<1>2. ASSUME NEW extra \in 0 .. MaxExtra, Tick(extra)
      PROVE  RepairInv'
  <2>1. /\ slot = "tick" /\ slot' \in {"health", "expired"} /\ countdown' = countdown
        /\ sinceUpset' <= sinceUpset + 1 /\ sinceUpset' \in Nat
    BY <1>0, <1>2 DEF Tick, Elapse
  <2>2. UNCHANGED configVars
    BY <1>2 DEF Tick
  <2>3. (Unseen' <=> Unseen) /\ MeantLegal' /\ SummedOver'
    BY <2>2
    DEF configVars, historyVars, Unseen, Illegal, RepairInv, MeantLegal, SummedOver, InRange
  <2> QED
    BY <1>0, <2>1, <2>3 DEF RepairInv, SeenInTime
<1>3. ASSUME NEW answers \in BOOLEAN, HealthCheck(answers)
      PROVE  RepairInv'
  <2>1. slot = "health" /\ slot' = "comms" /\ sinceUpset' = sinceUpset
    BY <1>3 DEF HealthCheck
  <2>2. CASE Due(Integrity)
    BY <1>3, <2>2, VerifyRepairs DEF HealthCheck, RepairInv, SeenInTime
  <2>3. CASE ~Due(Integrity)
    <3>1. countdown'[Integrity] = countdown[Integrity] - 1
      BY <1>0, <1>3, <2>3 DEF HealthCheck, Check
    <3>2. UNCHANGED configVars
      BY <1>3, <2>3 DEF HealthCheck
    <3>3. (Unseen' <=> Unseen) /\ MeantLegal' /\ SummedOver'
      BY <3>2
      DEF configVars, historyVars, Unseen, Illegal, RepairInv, MeantLegal, SummedOver, InRange
    <3> QED
      BY <1>0, <2>1, <3>1, <3>3 DEF RepairInv, SeenInTime
  <2> QED
    BY <2>2, <2>3
<1>4. CASE Command
  <2>1. slot = "command" /\ slot' = "consolidate" /\ UNCHANGED <<countdown, sinceUpset>>
    BY <1>4 DEF Command, healthVars, worldVars
  <2>2. (Unseen' => Unseen) /\ MeantLegal' /\ SummedOver'
    BY <1>4, CommandRepairs
  <2> QED
    BY <1>0, <2>1, <2>2 DEF RepairInv, SeenInTime
<1>5. CASE Comms \/ HealthConsolidate \/ Telemetry \/ Watchdog \/ UNCHANGED vars
  <2>1. /\ UNCHANGED <<configVars, countdown, sinceUpset>>
        /\ slot' = slot \/ slot \notin {"health", "expired"}
    BY <1>5
    DEF Comms, HealthConsolidate, Telemetry, Watchdog, Consolidate, Tickle,
        healthVars, worldVars, vars
  <2>2. (Unseen' <=> Unseen) /\ MeantLegal' /\ SummedOver'
    BY <2>1
    DEF configVars, historyVars, Unseen, Illegal, RepairInv, MeantLegal, SummedOver, InRange
  <2> QED
    BY <1>0, <2>1, <2>2 DEF RepairInv, SeenInTime
<1>6. CASE Upset
  <2>1. sinceUpset' = 0 /\ countdown' = countdown
    BY <1>6 DEF Upset, healthVars
  <2>2. MeantLegal' /\ SummedOver'
    BY <1>6, UpsetMarks
  <2> QED
    BY <1>0, <2>1, <2>2 DEF RepairInv, SeenInTime
<1> QED
  BY <1>1, <1>2, <1>3, <1>4, <1>5, <1>6 DEF Next, Loop

\* What nobody set is seen in time, or marked, whatever images the store holds.
THEOREM RepairInvariant == Spec => []RepairInv
<1>1. Init => RepairInv
  BY DEF Init, ConfigInit, Unseen, Illegal, InRange, RepairInv, SeenInTime, MeantLegal, SummedOver
<1>2. TypeOK /\ RepairInv /\ [Next]_vars => RepairInv'
  BY RepairKept
<1> QED
  BY <1>1, <1>2, SupervisionTypes, PTL DEF Spec

\* What is unseen was not there a period ago.
LEMMA UnseenIsRecent ==
    ASSUME TypeOK, RepairInv, Unseen
    PROVE  sinceUpset <= Settling
<1>1. countdown[Integrity] \in Nat /\ countdown[Integrity] >= 1 /\ sinceUpset \in Nat
      /\ Settling \in Nat
  BY SettlingPositive DEF TypeOK
<1> QED
  BY <1>1 DEF RepairInv, SeenInTime

\* FW-20: no live value stays outside its limits for longer than a period of the check,
\* whatever the parameters, the commands and the number of upsets, but for one that an
\* image of an earlier build lacks.
THEOREM IllegalRepaired == Spec => []IllegalIsRepaired
<1>1. TypeOK /\ RepairInv => IllegalIsRepaired
  BY UnseenIsRecent DEF IllegalIsRepaired, Unseen
<1> QED
  BY <1>1, SupervisionTypes, RepairInvariant, PTL

\* FW-20: nor does a value that nobody set, legal or not, unless a checksum was computed
\* over it: by a command that set another parameter, or by a correction from an image
\* that lacks it.
THEOREM FlipFound == Spec => []FlipIsFound
<1>1. TypeOK /\ RepairInv => FlipIsFound
  <2> SUFFICES ASSUME TypeOK, RepairInv, NEW p \in Disturbed, p \notin sealed \cup kept
               PROVE  sinceUpset <= Settling
    BY DEF FlipIsFound
  <2>1. summed # value
    <3> SUFFICES ASSUME summed = value PROVE FALSE
      OBVIOUS
    <3>1. p \in Param /\ summed \in Block /\ summed[p] # meant[p]
      BY DEF TypeOK, Disturbed
    <3> QED
      BY <3>1 DEF RepairInv, SummedOver
  <2> QED
    BY <2>1, UnseenIsRecent DEF Unseen
<1> QED
  BY <1>1, SupervisionTypes, RepairInvariant, PTL

-----------------------------------------------------------------------------
\* The age of the last attempt is judged against the interval in force at telemetry;
\* only an upset, or an image that lacks the interval, makes that an illegal one.
LEMMA StageJudges ==
    ASSUME TypeOK, RepairInv, Telemetry
    PROVE  SilenceIsRepaired'
<1>1. slot' = "watchdog" /\ UNCHANGED <<value, kept, sinceUpset>> /\ PeriodParam \in Param
  BY DEF Telemetry, configVars, historyVars, worldVars
<1>2. \/ value[PeriodParam] \in Legal[PeriodParam]
      \/ sinceUpset <= Settling \/ PeriodParam \in kept
  BY <1>1, UnseenIsRecent DEF Unseen, Illegal, InRange
<1>3. value[PeriodParam] \in Legal[PeriodParam] => age' < value[PeriodParam]
  <2> SUFFICES ASSUME value[PeriodParam] \in Legal[PeriodParam]
               PROVE  age' < value[PeriodParam]
    OBVIOUS
  <2>1. value[PeriodParam] \in Nat /\ value[PeriodParam] > 0 /\ age \in Nat
    BY DEF TypeOK
  <2>2. CASE IntervalPassed(value[PeriodParam])
    BY <2>1, <2>2 DEF Telemetry, Stage
  <2>3. CASE ~IntervalPassed(value[PeriodParam])
    BY <2>1, <2>3 DEF Telemetry, Stage, IntervalPassed, hkVars
  <2> QED
    BY <2>2, <2>3
<1>4. Settling' = Settling
  BY DEF Settling
<1> QED
  BY <1>1, <1>2, <1>3, <1>4 DEF SilenceIsRepaired

\* comm_rs485_hk.c:110-115: the observer never waits longer for housekeeping than
\* the longest legal interval, but for a period of the check after an upset and as long
\* as an image that lacks the interval keeps an illegal one.
THEOREM SilenceRepaired == Spec => []SilenceIsRepaired
<1>1. Init => SilenceIsRepaired
  BY DEF Init, SilenceIsRepaired
<1>2. TypeOK /\ RepairInv /\ SilenceIsRepaired /\ [Next]_vars => SilenceIsRepaired'
  <2> SUFFICES ASSUME TypeOK, RepairInv, SilenceIsRepaired, Next \/ UNCHANGED vars
               PROVE  SilenceIsRepaired'
    OBVIOUS
  <2>1. CASE Telemetry
    BY <2>1, StageJudges
  <2>2. CASE Upset
    <3>1. sinceUpset' = 0 /\ 0 <= Settling
      BY <2>2, SettlingPositive DEF Upset
    <3> QED
      BY <3>1 DEF SilenceIsRepaired, Settling
  <2>3. CASE UNCHANGED vars
    BY <2>3 DEF vars, configVars, historyVars, hkVars, worldVars, SilenceIsRepaired, Settling
  <2>4. CASE Loop /\ ~Telemetry
    <3>1. slot' # "watchdog"
      BY <2>4
      DEF Loop, Start, Tick, HealthCheck, Comms, Command, HealthConsolidate, Watchdog
    <3> QED
      BY <3>1 DEF SilenceIsRepaired
  <2> QED
    BY <2>1, <2>2, <2>3, <2>4 DEF Next
<1> QED
  BY <1>1, <1>2, SupervisionTypes, RepairInvariant, PTL DEF Spec

-----------------------------------------------------------------------------
\* Every failure of the integrity check in a row, and the one to come, took an upset,
\* while no check left a value outside its limits.
FailureInv == ~lapsed => consecutive[Integrity] + (IF Intact THEN 0 ELSE 1) <= upsets

\* The device has gone unkicked no longer than exec_timing has gone without passing.
Covered == unkicked <= lateFor \/ lateFor = Timeout

CoveredInv ==
    /\ slot \in {"start", "tick", "health", "expired"} => Covered
    /\ slot \in {"comms", "command", "consolidate", "telemetry", "watchdog"} =>
           Covered \/ (~late /\ consecutive[Timing] = 0)
    /\ slot \in {"telemetry", "watchdog"} => Covered \/ verdict = "healthy"

CauseInv == FailureInv /\ (upsets < 2 /\ ~lapsed => CoveredInv)

\* A check that has not left a value outside its limits leaves the block intact.
LEMMA CheckLeavesIntact ==
    ASSUME TypeOK, RepairInv, NEW answers \in BOOLEAN, HealthCheck(answers),
           Due(Integrity), ~lapsed'
    PROVE  Intact'
<1>1. Verify(answers) /\ ~Unseen'
  BY VerifyRepairs DEF HealthCheck
<1>2. Illegal' = {}
  BY DEF HealthCheck
<1> QED
  BY <1>1, <1>2 DEF Intact, Unseen, Illegal, InRange

\* What the check of the configuration counts.
LEMMA CheckCounts ==
    ASSUME TypeOK, RepairInv, FailureInv, NEW answers \in BOOLEAN, HealthCheck(answers)
    PROVE  /\ FailureInv'
           /\ ~late => consecutive'[Timing] = 0
<1> DEFINE passed(others) == [m \in Monitor |-> CASE m = Timing    -> ~late
                                                 [] m = Integrity -> Intact
                                                 [] OTHER         -> others[m]]
<1>0. /\ Timing \in Monitor /\ Integrity \in Monitor /\ upsets' = upsets
      /\ consecutive \in [Monitor -> Nat] /\ countdown[Timing] = 1
      /\ consecutive[Integrity] \in Nat /\ upsets \in Nat
      /\ ~lapsed' => ~lapsed
  BY DEF TypeOK, HealthCheck
<1>1. PICK others \in [Monitor \ {Timing, Integrity} -> BOOLEAN] : Check(passed(others))
  BY DEF HealthCheck
<1>2. /\ passed(others)[Timing] <=> ~late
      /\ passed(others)[Integrity] <=> Intact
  BY <1>0, Zenon
<1>3. \A m \in Monitor : consecutive'[m] =
          IF Due(m) THEN FailuresInARow(m, passed(others)[m]) ELSE consecutive[m]
  BY <1>1 DEF Check
<1> HIDE DEF passed
<1>4. ~late => consecutive'[Timing] = 0
  <2>1. Due(Timing)
    BY <1>0 DEF Due
  <2>2. consecutive'[Timing] = FailuresInARow(Timing, passed(others)[Timing])
    BY <1>0, <1>3, <2>1, Zenon
  <2> QED
    BY <1>2, <2>2, Zenon DEF FailuresInARow
<1>5. CASE ~Due(Integrity)
  <2>1. consecutive'[Integrity] = consecutive[Integrity]
    BY <1>0, <1>3, <1>5, Zenon
  <2>2. Intact' <=> Intact
    BY <1>5 DEF HealthCheck, configVars, Intact
  <2> QED
    BY <1>0, <1>4, <2>1, <2>2 DEF FailureInv
<1>6. CASE Due(Integrity) /\ ~lapsed'
  <2>1. Intact'
    BY <1>6, CheckLeavesIntact
  <2>2. consecutive'[Integrity] = FailuresInARow(Integrity, passed(others)[Integrity])
    BY <1>0, <1>3, <1>6, Zenon
  <2>3. CASE Intact
    <3>1. consecutive'[Integrity] = 0
      BY <1>2, <2>2, <2>3, Zenon DEF FailuresInARow
    <3> QED
      BY <1>0, <1>4, <2>1, <3>1 DEF FailureInv
  <2>4. CASE ~Intact
    <3>1. \/ consecutive'[Integrity] = consecutive[Integrity]
          \/ consecutive'[Integrity] = consecutive[Integrity] + 1
      BY <1>2, <2>2, <2>4, Zenon DEF FailuresInARow
    <3> QED
      BY <1>0, <1>4, <1>6, <2>1, <2>4, <3>1 DEF FailureInv
  <2> QED
    BY <2>3, <2>4
<1>7. CASE lapsed'
  BY <1>4, <1>7 DEF FailureInv
<1> QED
  BY <1>5, <1>6, <1>7

\* No step makes a failure out of nothing.
LEMMA FailuresKept ==
    ASSUME TypeOK, RepairInv, FailureInv, Next \/ UNCHANGED vars
    PROVE  FailureInv'
<1>0. consecutive[Integrity] \in Nat /\ upsets \in Nat /\ Integrity \in Monitor
  BY DEF TypeOK
<1>1. CASE Start
  <2>1. Intact'
    BY <1>1, StartUpRepairs DEF Start
  <2>2. consecutive'[Integrity] = 0 /\ upsets' = 0
    BY <1>0, <1>1 DEF Start, HealthRestart
  <2> QED
    BY <2>1, <2>2 DEF FailureInv
<1>2. CASE \E answers \in BOOLEAN : HealthCheck(answers)
  BY <1>2, CheckCounts
<1>3. CASE Command
  <2>1. UNCHANGED <<consecutive, upsets, lapsed>>
    BY <1>3 DEF Command, healthVars, worldVars
  <2> QED
    BY <1>0, <1>3, <2>1, CommandRepairs DEF FailureInv
<1>4. CASE Upset
  <2>1. consecutive' = consecutive /\ upsets' = upsets + 1 /\ lapsed' = lapsed
    BY <1>4 DEF Upset, healthVars
  <2> QED
    BY <1>0, <2>1 DEF FailureInv
<1>5. CASE \/ \E extra \in 0 .. MaxExtra : Tick(extra)
           \/ Comms \/ HealthConsolidate \/ Telemetry \/ Watchdog \/ UNCHANGED vars
  <2>1. UNCHANGED <<value, summed, consecutive, upsets, lapsed>>
    BY <1>5
    DEF Tick, Elapse, Comms, HealthConsolidate, Telemetry, Watchdog, Consolidate, Tickle,
        configVars, healthVars, worldVars, vars
  <2>2. Intact' <=> Intact
    BY <2>1 DEF Intact
  <2> QED
    BY <1>0, <2>1, <2>2 DEF FailureInv
<1> QED
  BY <1>1, <1>2, <1>3, <1>4, <1>5 DEF Next, Loop

\* Short of two upsets only lateness withholds the kick.
LEMMA CoverKept ==
    ASSUME TypeOK, RepairInv, CauseInv, Next \/ UNCHANGED vars, upsets' < 2, ~lapsed'
    PROVE  CoveredInv'
<1>0. /\ consecutive[Integrity] \in Nat /\ upsets \in Nat
      /\ unkicked \in Nat /\ lateFor \in Nat /\ lateFor <= Timeout /\ Timeout \in Nat
  BY DEF TypeOK
<1>1. CASE Start
  BY <1>1 DEF Start, HealthRestart, CoveredInv, Covered
<1>2. ASSUME ~Start
      PROVE  CoveredInv'
  <2>1. upsets <= upsets' /\ ~lapsed
    <3>1. CASE \E answers \in BOOLEAN : HealthCheck(answers)
      <4>1. upsets' = upsets
        BY <3>1 DEF HealthCheck
      <4>2. ~lapsed
        BY <3>1, Zenon DEF HealthCheck
      <4> QED
        BY <1>0, <4>1, <4>2
    <3>2. CASE ~\E answers \in BOOLEAN : HealthCheck(answers)
      <4>1. lapsed' = lapsed /\ (upsets' = upsets \/ upsets' = upsets + 1)
        BY <1>2, <3>2
        DEF Next, Loop, Tick, Comms, Command, HealthConsolidate, Telemetry, Watchdog, Upset,
            worldVars, vars
      <4> QED
        BY <1>0, <4>1
    <3> QED
      BY <3>1, <3>2
  <2>2. CoveredInv /\ upsets < 2 /\ ~lapsed
    <3>1. upsets' \in Nat
      BY TypesKept DEF TypeOK
    <3> QED
      BY <1>0, <2>1, <3>1 DEF CauseInv
  <2>3. ASSUME NEW extra \in 0 .. MaxExtra, Tick(extra)
        PROVE  CoveredInv'
    <3>0. extra \in Nat
      BY <2>3
    <3>1. /\ slot = "tick" /\ slot' \in {"expired", "health"}
          /\ unkicked' = unkicked + (1 + extra)
          /\ lateFor' = IF lateFor + 1 + extra > Timeout THEN Timeout ELSE lateFor + 1 + extra
      BY <2>3 DEF Tick, Elapse
    <3>2. Covered
      BY <2>2, <3>1 DEF CoveredInv
    <3>3. Covered'
      BY <1>0, <3>0, <3>1, <3>2 DEF Covered
    <3> QED
      BY <3>1, <3>3 DEF CoveredInv
  <2>4. ASSUME NEW answers \in BOOLEAN, HealthCheck(answers)
        PROVE  CoveredInv'
    <3>1. slot = "health" /\ slot' = "comms" /\ unkicked' = unkicked /\ late' = late
      BY <2>4 DEF HealthCheck, Check
    <3>2. Covered
      BY <2>2, <3>1 DEF CoveredInv
    <3>3. CASE late
      <4>1. lateFor' = lateFor
        BY <2>4, <3>3 DEF HealthCheck
      <4> QED
        BY <3>1, <3>2, <4>1 DEF CoveredInv, Covered
    <3>4. CASE ~late
      <4>1. ~late' /\ consecutive'[Timing] = 0
        BY <2>4, <3>1, <3>4, CheckCounts DEF CauseInv
      <4> QED
        BY <3>1, <4>1 DEF CoveredInv
    <3> QED
      BY <3>3, <3>4
  <2>5. CASE Comms \/ Command
    <3>1. /\ slot \in {"comms", "command"} /\ slot' \in {"command", "consolidate"}
          /\ UNCHANGED <<unkicked, lateFor, late, consecutive>>
      BY <2>5 DEF Comms, Command, healthVars, worldVars
    <3> QED
      BY <2>2, <3>1 DEF CoveredInv, Covered
  <2>6. CASE HealthConsolidate
    <3>1. /\ slot = "consolidate" /\ slot' = "telemetry"
          /\ UNCHANGED <<unkicked, lateFor, late, consecutive>>
          /\ verdict' = IF \E m \in Monitor : Contributing(m) THEN "failed" ELSE "healthy"
      BY <2>6 DEF HealthConsolidate, Consolidate, worldVars
    <3>2. Covered \/ (~late /\ consecutive[Timing] = 0)
      BY <2>2, <3>1 DEF CoveredInv
    <3>3. CASE Covered
      BY <3>1, <3>3 DEF CoveredInv, Covered
    <3>4. CASE ~late /\ consecutive[Timing] = 0
      <4>1. ~(consecutive[Timing] > Tolerance[Timing])
        BY <3>4
      <4>2. ~(consecutive[Integrity] > Tolerance[Integrity])
        <5>1. consecutive[Integrity] <= 1
          BY <1>0, <2>2 DEF CauseInv, FailureInv
        <5>2. Tolerance[Integrity] \in Nat
          OBVIOUS
        <5> QED
          BY <1>0, <5>1, <5>2
      <4>3. \A m \in Monitor : ~Contributing(m)
        BY <4>1, <4>2 DEF Contributing
      <4>4. verdict' = "healthy"
        BY <3>1, <4>3
      <4> QED
        BY <3>1, <3>4, <4>4 DEF CoveredInv
    <3> QED
      BY <3>2, <3>3, <3>4
  <2>7. CASE Telemetry
    <3>1. /\ slot = "telemetry" /\ slot' = "watchdog"
          /\ UNCHANGED <<unkicked, lateFor, late, consecutive, verdict>>
      BY <2>7 DEF Telemetry, healthVars, worldVars
    <3> QED
      BY <2>2, <3>1 DEF CoveredInv, Covered
  <2>8. CASE Watchdog
    <3>1. /\ slot = "watchdog" /\ slot' = "tick" /\ lateFor' = lateFor
          /\ unkicked' = IF verdict = "healthy" THEN 0 ELSE unkicked
      BY <2>8 DEF Watchdog, Tickle, Kicks, worldVars
    <3>2. Covered \/ verdict = "healthy"
      BY <2>2, <3>1 DEF CoveredInv
    <3>3. Covered'
      BY <1>0, <3>1, <3>2 DEF Covered
    <3> QED
      BY <3>1, <3>3 DEF CoveredInv
  <2>9. CASE Upset \/ UNCHANGED vars
    <3>1. UNCHANGED <<slot, unkicked, lateFor, late, consecutive, verdict>>
      BY <2>9 DEF Upset, healthVars, worldVars, vars
    <3> QED
      BY <2>2, <3>1 DEF CoveredInv, Covered
  <2> QED
    BY <1>2, <2>3, <2>4, <2>5, <2>6, <2>7, <2>8, <2>9 DEF Next, Loop
<1> QED
  BY <1>1, <1>2

\* svc_health.c:67-70 and FW-12: whatever the tolerance of exec_timing, the period of
\* the integrity check and the width of the watchdog, one upset costs a reset only after
\* a check that left a value outside its limits, and failures of advisory monitors never.
THEOREM ResetHasCause == Spec => []NoResetWithoutCause
<1>1. Init => CauseInv
  <2> SUFFICES ASSUME Init PROVE CauseInv
    OBVIOUS
  <2>1. Intact
    BY DEF Init, ConfigInit, Intact, InRange
  <2>2. consecutive[Integrity] = 0 /\ upsets = 0
    BY DEF Init, HealthInit
  <2>3. slot = "start" /\ Covered
    BY DEF Init, HealthInit, Covered
  <2> QED
    BY <2>1, <2>2, <2>3 DEF CauseInv, FailureInv, CoveredInv
<1>2. TypeOK /\ RepairInv /\ CauseInv /\ [Next]_vars => CauseInv'
  BY FailuresKept, CoverKept DEF CauseInv
<1>3. TypeOK /\ CauseInv /\ NoResetWithoutCause /\ [Next]_vars => NoResetWithoutCause'
  <2> SUFFICES ASSUME TypeOK, CauseInv, NoResetWithoutCause, Next \/ UNCHANGED vars,
                      slot' = "expired", upsets' < 2, ~lapsed'
               PROVE  lateFor' >= Timeout
    <3> SUFFICES ASSUME TypeOK, CauseInv, NoResetWithoutCause, Next \/ UNCHANGED vars
                 PROVE  slot' = "expired" => upsets' >= 2 \/ lateFor' >= Timeout \/ lapsed'
      BY DEF NoResetWithoutCause
    <3>1. TypeOK'
      BY TypesKept
    <3>2. upsets' \in Nat
      BY <3>1 DEF TypeOK
    <3> QED
      BY <3>2
  <2>0. Timeout \in Nat /\ upsets \in Nat /\ lateFor \in Nat
    BY DEF TypeOK
  <2>1. CASE UNCHANGED vars
    BY <2>0, <2>1 DEF vars, worldVars, NoResetWithoutCause
  <2>2. ASSUME NEW extra \in 0 .. MaxExtra, Tick(extra)
        PROVE  lateFor' >= Timeout
    <3>1. /\ slot = "tick" /\ upsets' = upsets /\ lapsed' = lapsed
          /\ unkicked' = unkicked + (1 + extra) /\ unkicked' >= Timeout
          /\ lateFor' = IF lateFor + 1 + extra > Timeout THEN Timeout ELSE lateFor + 1 + extra
      BY <2>2 DEF Tick, Elapse, Expired
    <3>2. Covered
      BY <3>1 DEF CauseInv, CoveredInv
    <3>3. extra \in Nat /\ unkicked \in Nat
      BY <2>2 DEF TypeOK
    <3> QED
      BY <2>0, <3>1, <3>2, <3>3 DEF Covered
  <2>3. CASE Upset
    BY <2>3 DEF Upset
  <2>4. CASE \/ Start \/ \E answers \in BOOLEAN : HealthCheck(answers)
             \/ Comms \/ Command \/ HealthConsolidate \/ Telemetry \/ Watchdog
    BY <2>4
    DEF Start, HealthCheck, Comms, Command, HealthConsolidate, Telemetry, Watchdog
  <2> QED
    BY <2>1, <2>2, <2>3, <2>4 DEF Next, Loop
<1>4. Init => NoResetWithoutCause
  BY DEF Init, NoResetWithoutCause
<1> QED
  BY <1>1, <1>2, <1>3, <1>4, SupervisionTypes, RepairInvariant, PTL DEF Spec
==============================================================================
