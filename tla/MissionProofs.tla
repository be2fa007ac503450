---------------------------- MODULE MissionProofs ----------------------------
(***************************************************************************)
(* The sequencer over the fault service, for every table of stages, policy *)
(* and set of classes, and whatever the step functions return.             *)
(*                                                                         *)
(* The stage moves on only by finishing, so what lies behind it was        *)
(* finished.  A stall with spent retries leaves at least a limit of        *)
(* reports behind; the pass of the same cycle reads them all, whatever is  *)
(* added meanwhile, and the tier rule elevates the class.                  *)
(***************************************************************************)
EXTENDS Mission, FdirProofs, FiniteSetTheorems, WellFoundedInduction

USE ClassAssumption, LimitAssumption, StageAssumption

-----------------------------------------------------------------------------
(* The counts of the fault service under the steps of the sequencer. *)

ServiceInv == CountInv /\ FlagTypes /\ ElevatedAtLimit

\* Tasks and the sequencer run between two passes.
PassInTurn == cursor # 0 => turn = "fdir"

\* What the sequencer reports, with or without an escalation.
LEMMA ServiceReports ==
    ASSUME ServiceInv, NEW c \in Class,
           reported' = AddOne(reported, c),
           UNCHANGED <<serviced, occurrences, flag, elevated, bySeverity, clearedAt,
                       cursor, seen, escalations, undelivered, reentries, linkFailures>>
    PROVE  ServiceInv'
<1>1. NumberTypes
  BY DEF ServiceInv, CountInv
<1>2. reported' \in [Class -> Nat] /\ \A d \in Class : reported[d] <= reported'[d]
  BY <1>1, OneReport
<1>3. /\ escalations' \in [Class -> Nat] /\ undelivered' \in Nat
      /\ reentries' \in Nat /\ linkFailures' \in Nat
  BY <1>1 DEF NumberTypes
<1>4. CountInv'
  BY <1>2, <1>3, ReportsOnlyAdd DEF ServiceInv
<1>5. FlagTypes' /\ ElevatedAtLimit'
  BY FlagsKept DEF ServiceInv
<1> QED
  BY <1>4, <1>5 DEF ServiceInv

\* A return of the sequence: the report, and past the allowance the escalation.
LEMMA ServiceReturns ==
    ASSUME ServiceInv, NEW c \in Class, NEW b \in Stage, NEW linkUp \in BOOLEAN,
           Back(b, c, linkUp), UNCHANGED <<bySeverity, passVars>>
    PROVE  ServiceInv'
<1>1. NumberTypes
  BY DEF ServiceInv, CountInv
<1>2. CASE ~Backwards(b)
  BY <1>2, ServiceReports DEF Back, Report, passVars
<1>3. CASE Backwards(b)
  <2> DEFINE counted == AddOne(reported, c)
             refused == PastAllowance /\ c \notin LogOnly /\ ~linkUp
             one     == IF refused THEN 1 ELSE 0
  <2>0. /\ reentries' = reentries + 1
        /\ reported' = IF refused THEN AddOne(counted, LinkClass) ELSE counted
        /\ escalations' = IF PastAllowance THEN AddOne(escalations, c) ELSE escalations
        /\ undelivered' = undelivered + one
        /\ linkFailures' = linkFailures + one
        /\ UNCHANGED <<serviced, occurrences, flag, elevated, bySeverity, clearedAt,
                       cursor, seen>>
    <3>1. UNCHANGED <<serviced, occurrences, flag, elevated, bySeverity, clearedAt,
                      cursor, seen>>
      BY <1>3 DEF Back, passVars
    <3>2. reentries' = reentries + 1
      BY <1>3 DEF Back
    <3>3. reported' = IF refused THEN AddOne(counted, LinkClass) ELSE counted
      BY <1>3 DEF Back
    <3>4. escalations' = IF PastAllowance THEN AddOne(escalations, c) ELSE escalations
      BY <1>3 DEF Back
    <3>5. undelivered' = undelivered + one /\ linkFailures' = linkFailures + one
      BY <1>3 DEF Back
    <3> QED
      BY <3>1, <3>2, <3>3, <3>4, <3>5
  <2>1. /\ reported' = AddOne(counted, LinkClass) \/ reported' = counted
        /\ escalations' = AddOne(escalations, c) \/ escalations' = escalations
        /\ one \in Nat
    <3> HIDE DEF refused, counted
    <3> QED
      BY <2>0
  <2>2. /\ counted \in [Class -> Nat] /\ AddOne(escalations, c) \in [Class -> Nat]
        /\ \A d \in Class : reported[d] <= counted[d]
    BY <1>1, OneReport
  <2>3. LinkClass \in Class
    OBVIOUS
  <2>4. /\ AddOne(counted, LinkClass) \in [Class -> Nat]
        /\ \A d \in Class : counted[d] <= AddOne(counted, LinkClass)[d]
    <3> HIDE DEF counted
    <3> QED
      BY <2>2, <2>3 DEF AddOne
  <2>5. /\ reported' \in [Class -> Nat]
        /\ \A d \in Class : reported[d] <= reported'[d]
    <3>1. CASE reported' = counted
      BY <2>2, <3>1
    <3>2. CASE reported' = AddOne(counted, LinkClass)
      <4>1. reported' \in [Class -> Nat]
        BY <2>4, <3>2
      <4>2. ASSUME NEW d \in Class
            PROVE  reported[d] <= reported'[d]
        <5>1. reported[d] \in Nat /\ counted[d] \in Nat /\ reported'[d] \in Nat
          BY <1>1, <2>2, <4>1 DEF NumberTypes
        <5>2. reported[d] <= counted[d] /\ counted[d] <= reported'[d]
          BY <2>2, <2>4, <3>2
        <5> HIDE DEF counted
        <5> QED
          BY <5>1, <5>2
      <4> QED
        BY <4>1, <4>2
    <3> QED
      BY <2>1, <3>1, <3>2
  <2>6. /\ escalations' \in [Class -> Nat] /\ undelivered' \in Nat
        /\ reentries' \in Nat /\ linkFailures' \in Nat
    <3> HIDE DEF counted, one
    <3> QED
      BY <1>1, <2>0, <2>1, <2>2 DEF NumberTypes
  <2>7. CountInv'
    BY <2>0, <2>5, <2>6, ReportsOnlyAdd DEF ServiceInv
  <2>8. FlagTypes' /\ ElevatedAtLimit'
    BY <2>0, FlagsKept DEF ServiceInv
  <2> QED
    BY <2>7, <2>8 DEF ServiceInv
<1> QED
  BY <1>2, <1>3

\* A finished stage clears its class outside the pass.
LEMMA ServiceClears ==
    ASSUME ServiceInv, NEW c \in Class, Done(c), cursor = 0,
           UNCHANGED <<bySeverity, passVars>>
    PROVE  ServiceInv'
<1>1. /\ Clear(c)
      /\ UNCHANGED <<reported, bySeverity, escalations, undelivered, reentries,
                     cursor, seen, linkFailures>>
  BY DEF Done, NoEscalation, passVars
<1>2. CountInv'
  BY <1>1, ClearStep DEF ServiceInv
<1>3. FlagTypes' /\ ElevatedAtLimit'
  BY <1>1, FlagsCleared DEF ServiceInv
<1> QED
  BY <1>2, <1>3 DEF ServiceInv

\* Steps of the fault service are steps of Fdir.
LEMMA ServicePasses ==
    ASSUME ServiceInv, [Next]_fdirVars
    PROVE  ServiceInv'
  BY CountInvNext, ElevationNext DEF ServiceInv, ElevationInv

-----------------------------------------------------------------------------
(* The sequencer. *)

PlaceTypes ==
    /\ turn \in {"tasks", "control", "fdir"} /\ stage \in Stage
    /\ attempts \in Nat /\ returns \in Nat /\ done \in SUBSET Stage
    /\ payload \in Status

\* A class a stall was charged to has a limit of reports behind it: before the pass
\* reads them, while it holds them, once it has classified them.
LimitReached(c) ==
    /\ c \in Class /\ Limit[c] # 0
    /\ Limit[c] <= reported[c] - clearedAt[c]
    /\ turn # "fdir" \/ cursor > c => Limit[c] <= occurrences[c]
    /\ cursor = c /\ seen # 0 => Limit[c] <= seen - clearedAt[c]

StallInv ==
    /\ stallCause.result # "none" => stalled
    /\ stallCause.result = "retry" => LimitReached(stallCause.fault)

MissionInv ==
    /\ ServiceInv /\ PassInTurn /\ PlaceTypes
    /\ StallInv /\ NothingSkipped

\* The faults of a stage are classes.
LEMMA FaultsAreClasses == ASSUME stage \in Stage PROVE FaultsOf(stage) \subseteq Class
  BY DEF FaultsOf

\* A step of the sequencer runs outside the pass, and in the turn it is in.
LEMMA ControlOutsidePass ==
    ASSUME MissionInv, turn # "fdir"
    PROVE  cursor = 0
  BY DEF MissionInv, PassInTurn

\* The fault service keeps its invariant under every step of the loop.
LEMMA ServiceNext ==
    ASSUME MissionInv, [MissionNext]_vars
    PROVE  ServiceInv' /\ PassInTurn'
<1> USE DEF MissionInv
<1>0. stage \in Stage
  BY DEF PlaceTypes
<1>1. ASSUME UNCHANGED fdirVars
      PROVE  ServiceInv'
  BY <1>1, ServicePasses
<1>2. ASSUME NEW c \in TaskClasses, TaskReports(c)
      PROVE  ServiceInv' /\ PassInTurn'
  <2>1. c \in Class
    OBVIOUS
  <2>2. ServiceInv'
    BY <1>2, <2>1, ServiceReports DEF TaskReports, TaskReport, Report, recordVars, passVars
  <2>3. UNCHANGED <<cursor, turn>>
    BY <1>2 DEF TaskReports, TaskReport, passVars
  <2> QED
    BY <2>2, <2>3 DEF PassInTurn
<1>3. ASSUME NEW c \in InterruptClasses, Interrupts(c)
      PROVE  ServiceInv' /\ PassInTurn'
  <2>1. c \in Class
    OBVIOUS
  <2>2. ServiceInv'
    BY <1>3, <2>1, ServiceReports
    DEF Interrupts, InterruptReport, Report, recordVars, passVars
  <2>3. UNCHANGED <<cursor, turn>>
    BY <1>3 DEF Interrupts, InterruptReport, passVars
  <2> QED
    BY <2>2, <2>3 DEF PassInTurn
<1>4. CASE BudgetPasses \/ Abort \/ (\E status \in Status : SetPayload(status)) \/ UNCHANGED vars
  <2>1. UNCHANGED <<fdirVars, turn>>
    BY <1>4 DEF BudgetPasses, Abort, SetPayload, vars
  <2> QED
    BY <1>1, <2>1 DEF PassInTurn, fdirVars, passVars
<1>5. CASE TasksDone
  <2>1. turn = "tasks" /\ UNCHANGED fdirVars
    BY <1>5 DEF TasksDone
  <2>2. cursor' = 0
    BY <2>1, ControlOutsidePass DEF fdirVars, passVars
  <2> QED
    BY <1>1, <2>1, <2>2 DEF PassInTurn
<1>6. CASE Held
  <2>1. turn' = "fdir" /\ UNCHANGED fdirVars
    BY <1>6 DEF Held
  <2> QED
    BY <1>1, <2>1 DEF PassInTurn
<1>7. CASE CheckBudget
  <2>1. TimeoutClass \in Class
    OBVIOUS
  <2>2. ServiceInv'
    BY <1>7, <2>1, ServiceReports DEF CheckBudget, Report, recordVars, passVars
  <2>3. UNCHANGED <<cursor, turn>>
    BY <1>7 DEF CheckBudget, passVars
  <2> QED
    BY <2>2, <2>3 DEF PassInTurn
<1>8. ASSUME NEW c \in FaultsOf(stage), Step(c)
      PROVE  ServiceInv' /\ PassInTurn'
  <2>1. c \in Class
    BY <1>0, FaultsAreClasses
  <2>2. cursor = 0 /\ turn' = "fdir" /\ UNCHANGED <<bySeverity, passVars>>
    BY <1>8, ControlOutsidePass DEF Step
  <2>3. CASE Working
    <3>1. UNCHANGED fdirVars
      BY <2>2, <2>3 DEF Working, NoEscalation, fdirVars, recordVars, passVars
    <3> QED
      BY <1>1, <2>2, <3>1 DEF PassInTurn
  <2>4. CASE Done(c)
    BY <2>1, <2>2, <2>4, ServiceClears DEF PassInTurn
  <2>5. CASE Retry(c) \/ Abandon(c)
    <3>1. /\ reported' = AddOne(reported, c)
          /\ UNCHANGED <<serviced, occurrences, flag, elevated, bySeverity, clearedAt,
                         cursor, seen, escalations, undelivered, reentries, linkFailures>>
      BY <2>2, <2>5 DEF Retry, Abandon, Report, passVars
    <3>2. ServiceInv'
      BY <2>1, <3>1, ServiceReports
    <3> QED
      BY <2>2, <3>2 DEF PassInTurn
  <2>6. ASSUME NEW b \in Stage, NEW up \in BOOLEAN, Back(b, c, up)
        PROVE  ServiceInv' /\ PassInTurn'
    BY <2>1, <2>2, <2>6, ServiceReturns DEF PassInTurn
  <2> QED
    BY <1>8, <2>3, <2>4, <2>5, <2>6, Zenon DEF Step
<1>9. CASE FdirPass
  <2>1. /\ turn = "fdir" /\ turn' = IF cursor > ClassCount THEN "tasks" ELSE "fdir"
        /\ BeginPass([c \in CollectedClasses |-> 0]) \/ (cursor # 0 /\ ServiceStep)
    BY <1>9 DEF FdirPass
  <2>2. CASE BeginPass([c \in CollectedClasses |-> 0])
    <3>1. [c \in CollectedClasses |-> 0] \in [CollectedClasses -> 0 .. 2]
      OBVIOUS
    <3>2. CountInv'
      BY <2>2, <3>1, BeginPassStep DEF ServiceInv
    <3>3. FlagTypes' /\ ElevatedAtLimit'
      BY <2>2, FlagsKept DEF ServiceInv, BeginPass, recordVars
    <3>4. turn' = "fdir"
      BY <2>1, <2>2 DEF BeginPass
    <3> QED
      BY <3>2, <3>3, <3>4 DEF ServiceInv, PassInTurn
  <2>3. CASE cursor # 0 /\ ServiceStep
    <3>1. Next
      BY <2>3 DEF Next, Pass
    <3>2. ServiceInv'
      BY <3>1, ServicePasses
    <3>3. cursor > ClassCount => cursor' = 0
      BY <2>3 DEF ServiceStep, ReadClass, Classify, EndPass, Class
    <3> QED
      BY <2>1, <3>2, <3>3 DEF PassInTurn
  <2> QED
    BY <2>1, <2>2, <2>3
<1> QED
  BY <1>2, <1>3, <1>4, <1>5, <1>6, <1>7, <1>8, <1>9, Zenon DEF MissionNext, MissionStep

\* The sequencer keeps its types.
LEMMA PlaceNext ==
    ASSUME MissionInv, [MissionNext]_vars
    PROVE  PlaceTypes'
<1> USE DEF MissionInv, PlaceTypes
<1>1. ASSUME NEW c \in TaskClasses, TaskReports(c)
      PROVE  PlaceTypes'
  BY <1>1 DEF TaskReports, seqVars
<1>2. ASSUME NEW c \in InterruptClasses, Interrupts(c)
      PROVE  PlaceTypes'
  BY <1>2 DEF Interrupts, seqVars
<1>3. CASE BudgetPasses \/ Abort \/ (\E status \in Status : SetPayload(status)) \/ UNCHANGED vars
  BY <1>3 DEF BudgetPasses, Abort, SetPayload, vars, seqVars, Status
<1>4. CASE TasksDone \/ Held \/ CheckBudget
  BY <1>4 DEF TasksDone, Held, CheckBudget, seqVars
<1>5. ASSUME NEW c \in FaultsOf(stage), Step(c)
      PROVE  PlaceTypes'
  <2>1. turn' = "fdir" /\ payload' \in Status
    BY <1>5 DEF Step
  <2>2. CASE Working
    BY <2>1, <2>2 DEF Working
  <2>3. CASE Done(c)
    BY <2>1, <2>3 DEF Done, MoreStages, Enter, Stage
  <2>4. CASE Retry(c)
    BY <2>1, <2>4 DEF Retry, Stall, Enter
  <2>5. CASE Abandon(c)
    BY <2>1, <2>5 DEF Abandon, Stall
  <2>6. ASSUME NEW b \in Stage, NEW up \in BOOLEAN, Back(b, c, up)
        PROVE  PlaceTypes'
    <3>1. CASE Backwards(b)
      BY <2>1, <2>6, <3>1 DEF Back, Enter
    <3>2. CASE ~Backwards(b)
      BY <2>1, <2>6, <3>2 DEF Back, Stall
    <3> QED
      BY <3>1, <3>2
  <2> QED
    BY <1>5, <2>2, <2>3, <2>4, <2>5, <2>6, Zenon DEF Step
<1>6. CASE FdirPass
  BY <1>6 DEF FdirPass, seqVars
<1> QED
  BY <1>1, <1>2, <1>3, <1>4, <1>5, <1>6, Zenon DEF MissionNext, MissionStep

\* A range continued by its next number.
LEMMA OneMore ==
    ASSUME NEW n \in Nat, NEW S, 1 .. n - 1 \subseteq S
    PROVE  1 .. (n + 1) - 1 \subseteq S \cup {n}
  OBVIOUS

\* The stage moves past itself only by finishing, and going back forgets what was
\* finished from there on.
LEMMA FinishedNext ==
    ASSUME MissionInv, [MissionNext]_vars
    PROVE  NothingSkipped'
<1> USE DEF MissionInv
<1>0. stage \in Stage /\ stage \in Nat /\ 1 .. stage - 1 \subseteq done
  BY DEF PlaceTypes, NothingSkipped, Stage, Status
<1>1. ASSUME NEW c \in FaultsOf(stage), Step(c)
      PROVE  NothingSkipped'
  <2>1. CASE UNCHANGED <<stage, done>>
    BY <2>1 DEF NothingSkipped
  <2>2. CASE Done(c)
    <3>1. done' = done \cup {stage} /\ stage' \in {stage, stage + 1}
      BY <2>2 DEF Done, MoreStages, Enter
    <3>2. CASE stage' = stage
      BY <1>0, <3>1, <3>2 DEF NothingSkipped
    <3>3. CASE stage' = stage + 1
      <4>1. 1 .. (stage + 1) - 1 \subseteq done \cup {stage}
        BY <1>0, OneMore
      <4> QED
        BY <3>1, <3>3, <4>1 DEF NothingSkipped
    <3> QED
      BY <3>1, <3>2, <3>3
  <2>3. ASSUME NEW b \in Stage, NEW up \in BOOLEAN, Back(b, c, up)
        PROVE  NothingSkipped'
    <3>1. CASE Backwards(b)
      <4>1. /\ stage' = b /\ done' = {s \in done : s < b} /\ b < stage /\ b \in Nat
        BY <2>3, <3>1 DEF Back, Backwards, Enter, Stage
      <4> QED
        BY <1>0, <4>1 DEF NothingSkipped
    <3>2. CASE ~Backwards(b)
      BY <2>1, <2>3, <3>2 DEF Back, Stall
    <3> QED
      BY <3>1, <3>2
  <2>4. Working \/ Retry(c) \/ Abandon(c) => UNCHANGED <<stage, done>>
    BY DEF Working, Retry, Abandon, Stall, Enter
  <2> QED
    BY <1>1, <2>1, <2>2, <2>3, <2>4, Zenon DEF Step
<1>2. ASSUME UNCHANGED <<stage, done>>
      PROVE  NothingSkipped'
  BY <1>2 DEF NothingSkipped
<1>3. \/ \E c \in FaultsOf(stage) : Step(c)
      \/ UNCHANGED <<stage, done>>
  BY DEF MissionNext, MissionStep, TaskReports, Interrupts, BudgetPasses, Abort, SetPayload,
         TasksDone, Held, CheckBudget, FdirPass, vars, seqVars
<1> QED
  BY <1>1, <1>2, <1>3

-----------------------------------------------------------------------------
(* A stall with spent retries. *)

\* Reports that are added, and steps that leave the counts alone, keep a limit
\* reached while the turn stays or moves from the tasks to the sequencer.
LEMMA LimitKept ==
    ASSUME ServiceInv, ServiceInv', NEW c, LimitReached(c),
           \A d \in Class : reported[d] <= reported'[d],
           UNCHANGED <<occurrences, clearedAt, cursor, seen>>,
           turn' # "fdir" => turn # "fdir"
    PROVE  LimitReached(c)'
<1>1. c \in Class /\ Limit[c] # 0 /\ Limit[c] \in Nat
  BY DEF LimitReached
<1>2. /\ reported[c] \in Nat /\ reported'[c] \in Nat /\ clearedAt[c] \in Nat
      /\ reported[c] <= reported'[c]
  BY <1>1 DEF ServiceInv, CountInv, NumberTypes
<1>3. Limit[c] <= reported'[c] - clearedAt[c]
  BY <1>1, <1>2 DEF LimitReached
<1> QED
  BY <1>1, <1>3 DEF LimitReached

\* The pass reads what was reported before it reaches the class.
LEMMA LimitThroughPass ==
    ASSUME MissionInv, ServiceInv', NEW c, LimitReached(c), FdirPass
    PROVE  LimitReached(c)'
<1> USE DEF MissionInv
<1>0. /\ c \in Class /\ Limit[c] # 0 /\ Limit[c] \in Nat
      /\ Limit[c] <= reported[c] - clearedAt[c]
      /\ cursor > c => Limit[c] <= occurrences[c]
      /\ cursor = c /\ seen # 0 => Limit[c] <= seen - clearedAt[c]
  BY DEF LimitReached
<1>1. /\ NumberTypes /\ CopyCurrent
      /\ occurrences[c] = serviced[c] - clearedAt[c]
  BY <1>0 DEF ServiceInv, CountInv, Accounted
<1>2. /\ reported[c] \in Nat /\ serviced[c] \in Nat /\ clearedAt[c] \in Nat
      /\ occurrences[c] \in Nat /\ cursor \in Nat /\ seen \in Nat /\ c \in Nat
      /\ c <= ClassCount
  BY <1>0, <1>1 DEF NumberTypes, Class
<1>3. turn = "fdir" /\ turn' = IF cursor > ClassCount THEN "tasks" ELSE "fdir"
  BY DEF FdirPass
<1>4. CASE BeginPass([d \in CollectedClasses |-> 0])
  <2>1. /\ cursor = 0 /\ cursor' = 1 /\ turn' = "fdir" /\ seen' = seen
        /\ clearedAt' = clearedAt
        /\ reported' = [d \in Class |->
               reported[d] + (IF d \in CollectedClasses
                              THEN [e \in CollectedClasses |-> 0][d] ELSE 0)]
    BY <1>3, <1>4 DEF BeginPass
  <2>2. seen' = 0
    BY <1>1, <2>1 DEF CopyCurrent, Class
  <2>3. reported'[c] = reported[c]
    BY <1>0, <1>2, <2>1
  <2>4. ~(cursor' > c)
    BY <1>0, <2>1 DEF Class
  <2> QED
    BY <1>0, <2>1, <2>2, <2>3, <2>4 DEF LimitReached
<1>5. CASE ReadClass
  <2>1. /\ cursor \in Class /\ seen = 0 /\ ~(cursor > ClassCount)
        /\ \/ cursor' = cursor + 1 /\ seen' = 0 /\ reported[cursor] - serviced[cursor] = 0
           \/ cursor' = cursor /\ seen' = reported[cursor]
        /\ UNCHANGED <<reported, occurrences, clearedAt>>
    BY <1>5 DEF ReadClass, Unserviced, recordVars, Class
  <2>2. turn' = "fdir"
    BY <1>3, <2>1
  <2>3. cursor' > c => Limit[c] <= occurrences[c]
    <3>1. CASE cursor = c
      BY <1>0, <1>1, <1>2, <2>1, <3>1
    <3>2. CASE cursor # c
      BY <1>0, <1>2, <2>1, <3>2
    <3> QED
      BY <3>1, <3>2
  <2>4. cursor' = c /\ seen' # 0 => Limit[c] <= seen' - clearedAt[c]
    BY <1>0, <2>1
  <2> QED
    BY <1>0, <2>1, <2>2, <2>3, <2>4 DEF LimitReached
<1>6. ASSUME NEW up \in BOOLEAN, Classify(up)
      PROVE  LimitReached(c)'
  <2>1. /\ cursor \in Class /\ seen # 0 /\ cursor' = cursor + 1 /\ seen' = 0
        /\ occurrences' = [occurrences EXCEPT
               ![cursor] = occurrences[cursor] + (seen - serviced[cursor])]
        /\ clearedAt' = clearedAt /\ ~(cursor > ClassCount)
    BY <1>6 DEF Classify, Class
  <2>2. turn' = "fdir"
    BY <1>3, <2>1
  <2>3. reported[c] <= reported'[c] /\ reported'[c] \in Nat
    <3>1. Escalate(cursor, up) \/ NoEscalation
      BY <1>6 DEF Classify
    <3>2. CASE Escalate(cursor, up)
      BY <1>0, <1>1, <2>1, <3>2, EscalationAdds
    <3>3. CASE NoEscalation
      BY <1>2, <3>3 DEF NoEscalation
    <3> QED
      BY <3>1, <3>2, <3>3
  <2>4. Limit[c] <= reported'[c] - clearedAt[c]
    BY <1>0, <1>2, <2>3
  <2>5. cursor' > c => Limit[c] <= occurrences'[c]
    <3>1. CASE cursor = c
      <4>1. occurrences'[c] = occurrences[c] + (seen - serviced[c])
        BY <1>0, <1>1, <2>1, <3>1 DEF NumberTypes
      <4> QED
        BY <1>0, <1>1, <1>2, <2>1, <3>1, <4>1
    <3>2. CASE cursor # c
      <4>1. occurrences'[c] = occurrences[c]
        BY <1>0, <1>1, <2>1, <3>2 DEF NumberTypes
      <4> QED
        BY <1>0, <1>2, <2>1, <3>2, <4>1
    <3> QED
      BY <3>1, <3>2
  <2> QED
    BY <1>0, <2>1, <2>2, <2>4, <2>5 DEF LimitReached
<1>7. CASE EndPass
  <2>1. /\ cursor > ClassCount /\ cursor' = 0
        /\ UNCHANGED <<reported, occurrences, seen, clearedAt>>
    BY <1>7 DEF EndPass, recordVars
  <2>2. Limit[c] <= occurrences[c]
    BY <1>0, <1>2, <2>1
  <2>3. cursor' # c
    BY <1>0, <2>1 DEF Class
  <2> QED
    BY <1>0, <2>1, <2>2, <2>3 DEF LimitReached
<1> QED
  BY <1>4, <1>5, <1>6, <1>7 DEF FdirPass, ServiceStep

\* The report that spends the last retry leaves a limit of reports behind.
LEMMA RetryReaches ==
    ASSUME MissionInv, NEW c \in Class, cursor = 0, turn' = "fdir", Retry(c), Spent(c),
           UNCHANGED passVars
    PROVE  LimitReached(c)'
<1>1. /\ Limit[c] # 0 /\ Limit[c] \in Nat
      /\ occurrences[c] + (reported[c] - serviced[c]) + 1 >= Limit[c]
  BY DEF Spent, ExhaustedAfter, Occurrences, Unserviced
<1>2. /\ reported[c] \in Nat /\ serviced[c] \in Nat /\ clearedAt[c] \in Nat
      /\ occurrences[c] = serviced[c] - clearedAt[c] /\ occurrences[c] \in Nat
      /\ reported \in [Class -> Nat]
  BY DEF MissionInv, ServiceInv, CountInv, NumberTypes, Accounted
<1>3. /\ reported' = AddOne(reported, c) /\ clearedAt' = clearedAt /\ cursor' = 0
  BY DEF Retry, Report, passVars
<1>4. reported'[c] = reported[c] + 1
  BY <1>2, <1>3 DEF AddOne
<1>5. Limit[c] <= reported'[c] - clearedAt'[c]
  BY <1>1, <1>2, <1>3, <1>4
<1>6. cursor' # c /\ ~(cursor' > c)
  BY <1>3 DEF Class
<1> QED
  BY <1>1, <1>5, <1>6 DEF LimitReached

\* A stall is for good, and a stall with spent retries keeps its limit reached.
LEMMA StallNext ==
    ASSUME MissionInv, [MissionNext]_vars, ServiceInv'
    PROVE  StallInv'
<1> USE DEF MissionInv
<1>1. ASSUME NEW c \in FaultsOf(stage), Step(c)
      PROVE  StallInv'
  <2>1. /\ turn = "control" /\ ~stalled /\ turn' = "fdir" /\ UNCHANGED passVars
    BY <1>1 DEF Step
  <2>2. stallCause.result = "none"
    BY <2>1 DEF StallInv
  <2>3. c \in Class /\ cursor = 0
    BY <2>1, FaultsAreClasses, ControlOutsidePass DEF PlaceTypes
  <2>4. ASSUME UNCHANGED stallCause
        PROVE  StallInv'
    BY <2>2, <2>4 DEF StallInv
  <2>5. ASSUME NEW r \in {"back", "abort"}, Stall(r, c)
        PROVE  StallInv'
    <3>1. stalled' /\ stallCause' = [result |-> r, fault |-> c]
      BY <2>5 DEF Stall
    <3>2. stallCause'.result # "retry"
      BY <3>1
    <3> QED
      BY <3>1, <3>2 DEF StallInv
  <2>6. CASE Retry(c)
    <3>1. CASE Spent(c)
      <4>1. stalled' /\ stallCause' = [result |-> "retry", fault |-> c]
        BY <2>6, <3>1, Zenon DEF Retry, Stall
      <4>2. LimitReached(c)'
        BY <2>1, <2>3, <2>6, <3>1, RetryReaches
      <4>3. stallCause'.fault = c
        BY <4>1
      <4> QED
        BY <4>1, <4>2, <4>3 DEF StallInv
    <3>2. CASE ~Spent(c)
      BY <2>4, <2>6, <3>2 DEF Retry
    <3> QED
      BY <3>1, <3>2
  <2>7. ASSUME NEW b \in Stage, NEW up \in BOOLEAN, Back(b, c, up)
        PROVE  StallInv'
    BY <2>4, <2>5, <2>7 DEF Back
  <2>8. CASE Working \/ Done(c)
    BY <2>4, <2>8 DEF Working, Done
  <2>9. CASE Abandon(c)
    BY <2>5, <2>9 DEF Abandon
  <2> QED
    BY <1>1, <2>6, <2>7, <2>8, <2>9, Zenon DEF Step
<1>2. CASE FdirPass
  <2>1. UNCHANGED <<stalled, stallCause>>
    BY <1>2 DEF FdirPass, seqVars
  <2>2. SUFFICES ASSUME stallCause.result = "retry"
                 PROVE  LimitReached(stallCause.fault)'
    BY <2>1 DEF StallInv
  <2>3. PICK c : c = stallCause.fault
    OBVIOUS
  <2>4. LimitReached(c)'
    BY <1>2, <2>2, <2>3, LimitThroughPass DEF StallInv
  <2> QED
    BY <2>1, <2>3, <2>4
<1>3. ASSUME UNCHANGED <<stalled, stallCause, occurrences, clearedAt, cursor, seen>>,
             \A d \in Class : reported[d] <= reported'[d],
             turn' # "fdir" => turn # "fdir"
      PROVE  StallInv'
  <2>1. SUFFICES ASSUME stallCause.result = "retry"
                 PROVE  LimitReached(stallCause.fault)'
    BY <1>3 DEF StallInv
  <2>2. PICK c : c = stallCause.fault
    OBVIOUS
  <2>3. LimitReached(c)'
    BY <1>3, <2>1, <2>2, LimitKept DEF StallInv
  <2> QED
    BY <1>3, <2>2, <2>3
<1>4. ASSUME NEW c \in Class, Report(c)
      PROVE  \A d \in Class : reported[d] <= reported'[d]
  <2>1. NumberTypes
    BY DEF ServiceInv, CountInv
  <2> QED
    BY <1>4, <2>1, OneReport DEF Report
<1>5. ASSUME NEW c \in Class, TaskReports(c) \/ Interrupts(c)
      PROVE  StallInv'
  <2>1. /\ Report(c)
        /\ UNCHANGED <<stalled, stallCause, occurrences, clearedAt, cursor, seen, turn>>
    BY <1>5 DEF TaskReports, TaskReport, Interrupts, InterruptReport, recordVars, passVars,
                seqVars
  <2> QED
    BY <1>3, <1>4, <2>1
<1>6. CASE CheckBudget
  <2>1. /\ Report(TimeoutClass) /\ TimeoutClass \in Class
        /\ UNCHANGED <<stalled, stallCause, occurrences, clearedAt, cursor, seen, turn>>
    BY <1>6 DEF CheckBudget, recordVars, passVars
  <2> QED
    BY <1>3, <1>4, <2>1
<1>7. CASE \/ BudgetPasses \/ Abort \/ \E status \in Status : SetPayload(status)
           \/ TasksDone \/ Held \/ UNCHANGED vars
  <2>1. /\ UNCHANGED <<stalled, stallCause, reported, occurrences, clearedAt, cursor, seen>>
        /\ turn' # "fdir" => turn # "fdir"
    BY <1>7 DEF BudgetPasses, Abort, SetPayload, TasksDone, Held, vars, fdirVars, recordVars,
                passVars, seqVars
  <2>2. \A d \in Class : reported[d] <= reported'[d]
    BY <2>1 DEF ServiceInv, CountInv, NumberTypes
  <2> QED
    BY <1>3, <2>1, <2>2
<1>8. TaskClasses \subseteq Class /\ InterruptClasses \subseteq Class
  OBVIOUS
<1> QED
  BY <1>1, <1>2, <1>5, <1>6, <1>7, <1>8, Zenon DEF MissionNext, MissionStep

-----------------------------------------------------------------------------
\* Initially nothing is reported, finished or stalled.
LEMMA MissionInvInit == MissionInit => MissionInv
<1> SUFFICES ASSUME MissionInit PROVE MissionInv
  OBVIOUS
<1>1. Init
  BY DEF MissionInit, Init
<1>2. ServiceInv
  BY <1>1, CountInvInit, ElevationInit DEF ServiceInv
<1>3. PassInTurn /\ PlaceTypes /\ NothingSkipped
  BY DEF MissionInit, FdirInit, PassInTurn, PlaceTypes, NothingSkipped, Stage, Status
<1>4. StallInv
  BY DEF MissionInit, NotStalled, StallInv
<1> QED
  BY <1>2, <1>3, <1>4 DEF MissionInv

\* The invariant of the sequencer over the fault service, in every reachable state.
THEOREM MissionInvariant == MissionSpec => []MissionInv
<1>1. MissionInit => MissionInv
  BY MissionInvInit
<1>2. MissionInv /\ [MissionNext]_vars => MissionInv'
  BY ServiceNext, PlaceNext, FinishedNext, StallNext DEF MissionInv
<1> QED
  BY <1>1, <1>2, PTL DEF MissionSpec

\* No result of a step, legal or not, skips a stage: for every table of stages.
THEOREM StagesFinished == MissionSpec => []NothingSkipped
<1>1. MissionInv => NothingSkipped
  BY DEF MissionInv
<1> QED
  BY <1>1, MissionInvariant, PTL

\* A stage that spent its retries is escalated before the next cycle begins, whatever
\* other tasks and interrupts report in the same cycle.
THEOREM StallsEscalated == MissionSpec => []StallIsEscalated
<1>1. MissionInv => StallIsEscalated
  <2> SUFFICES ASSUME MissionInv, turn = "tasks", stallCause.result = "retry"
               PROVE  elevated[stallCause.fault]
    BY DEF StallIsEscalated
  <2> DEFINE c == stallCause.fault
  <2>1. LimitReached(c)
    BY DEF MissionInv, StallInv
  <2>2. /\ c \in Class /\ Limit[c] # 0 /\ Limit[c] \in Nat
        /\ Limit[c] <= occurrences[c]
    BY <2>1 DEF LimitReached
  <2>3. occurrences[c] \in Nat
    BY <2>2 DEF MissionInv, ServiceInv, CountInv, NumberTypes
  <2>4. occurrences[c] >= Limit[c]
    BY <2>2, <2>3
  <2>5. c \in Critical
    BY <2>2, OnlyCriticalLimited
  <2> HIDE DEF c
  <2>6. elevated[c]
    BY <2>2, <2>4, <2>5, Zenon DEF MissionInv, ServiceInv, ElevatedAtLimit
  <2> QED
    BY <2>6 DEF c
<1> QED
  BY <1>1, MissionInvariant, PTL

-----------------------------------------------------------------------------
SeqFlags ==
    /\ timedOut \in BOOLEAN /\ overdue \in BOOLEAN
    /\ stalled \in BOOLEAN /\ aborted \in BOOLEAN

CauseType ==
    stallCause \in [result : {"none", "retry", "back", "abort"}, fault : Class \cup {0}]

\* The flags of the sequencer and the cause of its stall keep their types.
LEMMA FlagsNext ==
    ASSUME MissionInv, SeqFlags, CauseType, [MissionNext]_vars
    PROVE  SeqFlags' /\ CauseType'
<1>1. ASSUME NEW c \in FaultsOf(stage), Step(c)
      PROVE  SeqFlags' /\ CauseType'
  <2>1. c \in Class
    BY FaultsAreClasses DEF MissionInv, PlaceTypes
  <2>2. aborted' \in BOOLEAN
    BY <1>1 DEF Step
  <2>3. ASSUME UNCHANGED <<timedOut, overdue, stalled, stallCause>>
        PROVE  SeqFlags' /\ CauseType'
    BY <2>2, <2>3 DEF SeqFlags, CauseType
  <2>4. ASSUME NEW s, Enter(s), UNCHANGED <<stalled, stallCause>>
        PROVE  SeqFlags' /\ CauseType'
    BY <2>2, <2>4 DEF Enter, SeqFlags, CauseType
  <2>5. ASSUME NEW r \in {"retry", "back", "abort"}, Stall(r, c)
        PROVE  SeqFlags' /\ CauseType'
    <3>1. SeqFlags'
      BY <2>2, <2>5 DEF Stall, SeqFlags
    <3>2. CauseType'
      BY <2>1, <2>5 DEF Stall, CauseType
    <3> QED
      BY <3>1, <3>2
  <2>6. CASE Working
    BY <2>3, <2>6 DEF Working
  <2>7. CASE Done(c)
    <3>1. UNCHANGED stallCause
      BY <2>7 DEF Done
    <3>2. SeqFlags'
      BY <2>2, <2>7 DEF Done, Enter, SeqFlags
    <3> QED
      BY <3>1, <3>2 DEF CauseType
  <2>8. CASE Retry(c)
    <3>1. CASE Spent(c)
      BY <2>5, <2>8, <3>1 DEF Retry
    <3>2. CASE ~Spent(c)
      <4>1. UNCHANGED <<stalled, stallCause>> /\ timedOut' = FALSE /\ overdue' = FALSE
        BY <2>8, <3>2, Zenon DEF Retry, Enter
      <4> QED
        BY <2>2, <4>1 DEF SeqFlags, CauseType
    <3> QED
      BY <3>1, <3>2
  <2>9. ASSUME NEW b \in Stage, NEW up \in BOOLEAN, Back(b, c, up)
        PROVE  SeqFlags' /\ CauseType'
    <3>1. CASE Backwards(b)
      BY <2>4, <2>9, <3>1 DEF Back
    <3>2. CASE ~Backwards(b)
      BY <2>5, <2>9, <3>2 DEF Back
    <3> QED
      BY <3>1, <3>2
  <2>10. CASE Abandon(c)
    BY <2>5, <2>10 DEF Abandon
  <2> QED
    BY <1>1, <2>6, <2>7, <2>8, <2>9, <2>10, Zenon DEF Step
<1>2. CASE BudgetPasses \/ Abort \/ CheckBudget
  BY <1>2 DEF BudgetPasses, Abort, CheckBudget, SeqFlags, CauseType
<1>3. ASSUME UNCHANGED <<timedOut, overdue, stalled, aborted, stallCause>>
      PROVE  SeqFlags' /\ CauseType'
  BY <1>3 DEF SeqFlags, CauseType
<1>4. \/ \E c \in FaultsOf(stage) : Step(c)
      \/ BudgetPasses \/ Abort \/ CheckBudget
      \/ UNCHANGED <<timedOut, overdue, stalled, aborted, stallCause>>
  BY DEF MissionNext, MissionStep, TaskReports, Interrupts, SetPayload, TasksDone, Held,
         FdirPass, vars, seqVars
<1> QED
  BY <1>1, <1>2, <1>3, <1>4

\* Types of the sequencer, for every table of stages.
THEOREM MissionTypes == MissionSpec => []MissionTypeOK
<1>1. MissionInit => SeqFlags /\ CauseType
  <2> SUFFICES ASSUME MissionInit PROVE SeqFlags /\ CauseType
    OBVIOUS
  <2>1. SeqFlags
    BY Zenon DEF MissionInit, SeqFlags
  <2>2. stallCause = [result |-> "none", fault |-> 0]
    BY DEF MissionInit, NotStalled
  <2>3. CauseType
    BY <2>2 DEF CauseType
  <2> QED
    BY <2>1, <2>3
<1>2. MissionInv /\ SeqFlags /\ CauseType /\ [MissionNext]_vars => (SeqFlags /\ CauseType)'
  BY FlagsNext
<1>3. MissionInv /\ SeqFlags /\ CauseType => MissionTypeOK
  BY Zenon DEF MissionInv, PlaceTypes, SeqFlags, CauseType, MissionTypeOK
<1> QED
  BY <1>1, <1>2, <1>3, MissionInvariant, PTL DEF MissionSpec

-----------------------------------------------------------------------------
(* Sums over finite sets, as the library computes them.                     *)

\* A set of numbers with anything in it has a least one.
LEMMA LeastOf ==
    ASSUME NEW S \in SUBSET Nat, S # {}
    PROVE  \E m \in S : \A n \in S : m <= n
<1> DEFINE R == OpToRel(<, Nat)
<1>1. IsWellFoundedOn(R, Nat)
  BY NatLessThanWellFounded
<1>2. PICK x \in S : \A y \in S : ~(<<y, x>> \in R)
  <2> HIDE DEF R
  <2> QED
    BY <1>1, WFMin
<1>3. ASSUME NEW y \in S PROVE x <= y
  <2>1. x \in Nat /\ y \in Nat
    OBVIOUS
  <2>2. ~(y < x)
    BY <1>2, <2>1 DEF OpToRel
  <2> QED
    BY <2>1, <2>2
<1> QED
  BY <1>3

\* What a sum over a finite set is computed by: g adds up one element at a time,
\* for the subsets of size up to n.
SumsUpTo(f, S, g, n) ==
    /\ DOMAIN g = SUBSET S
    /\ \A s \in SUBSET S : Cardinality(s) <= n =>
           g[s] = IF s = {} THEN 0
                  ELSE f[CHOOSE x \in s : TRUE] + g[s \ {CHOOSE x \in s : TRUE}]

\* There is one, for the subsets of every size.
LEMMA SumsExist ==
    ASSUME NEW S, IsFiniteSet(S), NEW f, NEW n \in Nat
    PROVE  \E g : SumsUpTo(f, S, g, n)
<1> DEFINE Missing == {m \in Nat : ~\E g : SumsUpTo(f, S, g, m)}
<1>1. SUFFICES ASSUME Missing # {} PROVE FALSE
  OBVIOUS
<1>2. PICK m \in Missing : \A k \in Missing : m <= k
  <2>1. Missing \in SUBSET Nat
    OBVIOUS
  <2> HIDE DEF Missing
  <2> QED
    BY <1>1, <2>1, LeastOf
<1>3. m \in Nat /\ ~\E g : SumsUpTo(f, S, g, m)
  OBVIOUS
<1>4. ASSUME NEW s \in SUBSET S
      PROVE  /\ IsFiniteSet(s) /\ Cardinality(s) \in Nat
             /\ Cardinality(s) = 0 <=> s = {}
             /\ s # {} => Cardinality(s \ {CHOOSE x \in s : TRUE}) = Cardinality(s) - 1
  <2>1. IsFiniteSet(s)
    BY FS_Subset
  <2>2. s # {} => (CHOOSE x \in s : TRUE) \in s
    OBVIOUS
  <2> QED
    BY <2>1, <2>2, FS_CardinalityType, FS_EmptySet, FS_RemoveElement
<1>5. CASE m = 0
  <2> DEFINE g == [s \in SUBSET S |-> 0]
  <2>1. ASSUME NEW s \in SUBSET S, Cardinality(s) <= 0
        PROVE  s = {} /\ g[s] = 0
    <3>1. Cardinality(s) \in Nat /\ (Cardinality(s) = 0 <=> s = {})
      BY <1>4
    <3> QED
      BY <2>1, <3>1
  <2>2. DOMAIN g = SUBSET S
    OBVIOUS
  <2> HIDE DEF g
  <2>3. SumsUpTo(f, S, g, 0)
    BY <2>1, <2>2, Zenon DEF SumsUpTo
  <2> QED
    BY <1>3, <1>5, <2>3
<1>6. CASE m # 0
  <2>1. m - 1 \in Nat /\ ~(m <= m - 1)
    BY <1>3, <1>6
  <2>2. m - 1 \notin Missing
    BY <1>2, <2>1
  <2>3. PICK h : SumsUpTo(f, S, h, m - 1)
    BY <2>1, <2>2
  <2> DEFINE Rest(s) == s \ {CHOOSE x \in s : TRUE}
             g == [s \in SUBSET S |->
                     IF Cardinality(s) <= m - 1 THEN h[s]
                     ELSE f[CHOOSE x \in s : TRUE] + h[Rest(s)]]
  <2>4. ASSUME NEW s \in SUBSET S, Cardinality(s) <= m
        PROVE  g[s] = IF s = {} THEN 0
                      ELSE f[CHOOSE x \in s : TRUE] + g[Rest(s)]
    <3>1. /\ Cardinality(s) \in Nat
          /\ Cardinality(s) = 0 <=> s = {}
          /\ s # {} => Cardinality(Rest(s)) = Cardinality(s) - 1
          /\ Rest(s) \in SUBSET S
      BY <1>4
    <3>2. CASE s = {}
      <4>1. Cardinality(s) <= m - 1
        BY <2>1, <3>1, <3>2
      <4> QED
        BY <2>3, <3>2, <4>1 DEF SumsUpTo
    <3>3. CASE s # {}
      <4>1. Cardinality(Rest(s)) <= m - 1
        BY <1>3, <2>4, <3>1, <3>3
      <4>2. g[Rest(s)] = h[Rest(s)]
        BY <3>1, <4>1
      <4>3. g[s] = f[CHOOSE x \in s : TRUE] + h[Rest(s)]
        <5>1. CASE Cardinality(s) <= m - 1
          BY <2>3, <3>3, <5>1 DEF SumsUpTo
        <5>2. CASE ~(Cardinality(s) <= m - 1)
          BY <5>2
        <5> QED
          BY <5>1, <5>2
      <4> HIDE DEF g, Rest
      <4> QED
        BY <3>3, <4>2, <4>3
    <3> QED
      BY <3>2, <3>3
  <2>5. DOMAIN g = SUBSET S
    OBVIOUS
  <2> HIDE DEF g
  <2>6. SumsUpTo(f, S, g, m)
    BY <2>4, <2>5 DEF SumsUpTo
  <2> QED
    BY <1>3, <2>6
<1> QED
  BY <1>5, <1>6

\* The same of all subsets.
Sums(f, S, g) ==
    \A s \in SUBSET S :
        g[s] = IF s = {} THEN 0
               ELSE f[CHOOSE x \in s : TRUE] + g[s \ {CHOOSE x \in s : TRUE}]

\* The sum of the library is one of them.
LEMMA SumIsIterated ==
    ASSUME NEW S, IsFiniteSet(S), NEW f
    PROVE  \E g : SumFunctionOnSet(f, S) = g[S] /\ Sums(f, S, g)
<1> DEFINE Defines(g) ==
             g = [s \in SUBSET S |->
                    IF s = {} THEN 0
                    ELSE f[CHOOSE x \in s : TRUE] + g[s \ {CHOOSE x \in s : TRUE}]]
           total == CHOOSE g : Defines(g)
<1>1. Cardinality(S) \in Nat
  BY FS_CardinalityType
<1>2. PICK h : SumsUpTo(f, S, h, Cardinality(S))
  BY <1>1, SumsExist
<1>3. ASSUME NEW s \in SUBSET S PROVE Cardinality(s) <= Cardinality(S)
  BY FS_Subset
<1> DEFINE k == [s \in SUBSET S |-> h[s]]
<1>4. ASSUME NEW s \in SUBSET S
      PROVE  k[s] = IF s = {} THEN 0
                    ELSE f[CHOOSE x \in s : TRUE] + k[s \ {CHOOSE x \in s : TRUE}]
  <2>1. s \ {CHOOSE x \in s : TRUE} \in SUBSET S
    OBVIOUS
  <2> QED
    BY <1>2, <1>3, <2>1 DEF SumsUpTo
<1>5. DOMAIN k = SUBSET S /\ k = [s \in SUBSET S |-> k[s]]
  OBVIOUS
<1> HIDE DEF k
<1>6. Defines(k)
  BY <1>4, <1>5, Zenon
<1>7. Defines(total)
  <2> HIDE DEF Defines
  <2> QED
    BY <1>6
<1>8. SumFunctionOnSet(f, S) = total[S]
  BY DEF SumFunctionOnSet, FoldFunctionOnSet, MapThenFoldSet
<1> HIDE DEF total
<1>9. Sums(f, S, total)
  <2> SUFFICES ASSUME NEW s \in SUBSET S
      PROVE  total[s] = IF s = {} THEN 0
                        ELSE f[CHOOSE x \in s : TRUE] + total[s \ {CHOOSE x \in s : TRUE}]
    BY DEF Sums
  <2> QED
    BY <1>7, Zenon
<1> QED
  BY <1>8, <1>9

\* A sum of numbers is a number, does not fall when no term falls, and grows when
\* one of them grows.
LEMMA SumGrows ==
    ASSUME NEW S, IsFiniteSet(S), NEW f, NEW g,
           \A x \in S : f[x] \in Nat /\ g[x] \in Nat /\ f[x] <= g[x]
    PROVE  /\ SumFunctionOnSet(f, S) \in Nat /\ SumFunctionOnSet(g, S) \in Nat
           /\ SumFunctionOnSet(f, S) <= SumFunctionOnSet(g, S)
           /\ (\E x \in S : f[x] < g[x]) =>
                  SumFunctionOnSet(f, S) < SumFunctionOnSet(g, S)
<1>1. PICK a : SumFunctionOnSet(f, S) = a[S] /\ Sums(f, S, a)
  BY SumIsIterated
<1>2. PICK b : SumFunctionOnSet(g, S) = b[S] /\ Sums(g, S, b)
  BY SumIsIterated
<1> DEFINE Holds(s) == /\ a[s] \in Nat /\ b[s] \in Nat /\ a[s] <= b[s]
                       /\ (\E x \in s : f[x] < g[x]) => a[s] < b[s]
           Sizes == {m \in Nat : \E s \in SUBSET S : Cardinality(s) = m /\ ~Holds(s)}
<1>3. SUFFICES Holds(S)
  BY <1>1, <1>2
<1>4. SUFFICES ASSUME Sizes # {} PROVE FALSE
  <2>1. Cardinality(S) \in Nat
    BY FS_CardinalityType
  <2> HIDE DEF Holds
  <2> QED
    BY <1>4, <2>1
<1>5. PICK m \in Sizes : \A k \in Sizes : m <= k
  <2>1. Sizes \in SUBSET Nat
    OBVIOUS
  <2> HIDE DEF Sizes
  <2> QED
    BY <1>4, <2>1, LeastOf
<1>6. PICK s \in SUBSET S : Cardinality(s) = m /\ ~Holds(s)
  <2> HIDE DEF Holds
  <2> QED
    BY <1>5
<1>7. s # {}
  <2>1. CASE s = {}
    <3>1. a[s] = 0 /\ b[s] = 0
      BY <1>1, <1>2, <2>1 DEF Sums
    <3>2. Holds(s)
      BY <2>1, <3>1
    <3> HIDE DEF Holds
    <3> QED
      BY <1>6, <3>2
  <2> QED
    BY <2>1
<1> DEFINE x == CHOOSE y \in s : TRUE
           r == s \ {x}
<1> HIDE DEF Holds, Sizes
<1>8. x \in s /\ x \in S /\ r \in SUBSET S /\ s = r \cup {x}
  BY <1>7
<1>9. Holds(r)
  <2>1. IsFiniteSet(s)
    BY FS_Subset
  <2>2. Cardinality(s) \in Nat /\ Cardinality(r) = Cardinality(s) - 1
    BY <1>8, <2>1, FS_CardinalityType, FS_RemoveElement
  <2>3. IsFiniteSet(r)
    BY <1>8, FS_Subset
  <2>4. Cardinality(r) \in Nat
    BY <2>3, FS_CardinalityType
  <2> HIDE DEF r
  <2>5. Cardinality(r) \notin Sizes
    <3> QED
      BY <1>5, <1>6, <2>2, <2>4
  <2> QED
    BY <1>8, <2>4, <2>5 DEF Sizes
<1>10. a[s] = f[x] + a[r] /\ b[s] = g[x] + b[r]
  BY <1>1, <1>2, <1>7, Zenon DEF Sums
<1>11. f[x] \in Nat /\ g[x] \in Nat /\ f[x] <= g[x]
  BY <1>8
<1> HIDE DEF x, r
<1>12. /\ a[r] \in Nat /\ b[r] \in Nat /\ a[r] <= b[r]
       /\ (\E y \in r : f[y] < g[y]) => a[r] < b[r]
  BY <1>9 DEF Holds
<1>13. a[s] \in Nat /\ b[s] \in Nat /\ a[s] <= b[s]
  BY <1>10, <1>11, <1>12
<1>14. ASSUME NEW y \in s, f[y] < g[y] PROVE a[s] < b[s]
  <2>1. CASE y = x
    BY <1>10, <1>11, <1>12, <1>14, <2>1
  <2>2. CASE y # x
    <3>1. a[r] < b[r]
      BY <1>8, <1>12, <1>14, <2>2
    <3> QED
      BY <1>10, <1>11, <1>12, <3>1
  <2> QED
    BY <2>1, <2>2
<1> QED
  BY <1>6, <1>13, <1>14 DEF Holds


-----------------------------------------------------------------------------
(* The attempts of a stage.  Every one of them but the last, which stalls    *)
(* the sequence, charges one of the stage's classes with a report below its  *)
(* limit; nothing but finishing the stage takes a charge back.               *)

\* The reports a class holds since its last clear, as far as they are below the
\* limit that spends it.
Charged == [c \in Class |->
    IF reported[c] - clearedAt[c] < Limit[c] THEN reported[c] - clearedAt[c]
                                             ELSE Limit[c] - 1]

AllLimited  == \A c \in FaultsOf(stage) : Limit[c] # 0
ChargeOfAll == SumFunctionOnSet(Charged, FaultsOf(stage))

AttemptInv ==
    AllLimited => /\ attempts <= ChargeOfAll + 1
                  /\ ~stalled => attempts <= ChargeOfAll

\* What a class holds is a number, below the limit if there is one.
LEMMA ChargeIsNumber ==
    ASSUME ServiceInv, NEW c \in Class
    PROVE  /\ reported[c] - clearedAt[c] \in Nat
           /\ reported[c] - clearedAt[c] = Occurrences(c)
           /\ Limit[c] # 0 => Charged[c] \in Nat /\ Charged[c] <= Limit[c] - 1
<1>1. /\ reported[c] \in Nat /\ clearedAt[c] \in Nat /\ serviced[c] \in Nat
      /\ occurrences[c] \in Nat /\ Limit[c] \in Nat
      /\ serviced[c] <= reported[c] /\ occurrences[c] = serviced[c] - clearedAt[c]
  BY DEF ServiceInv, CountInv, NumberTypes, Accounted
<1>2. reported[c] - clearedAt[c] \in Nat
  BY <1>1
<1>3. reported[c] - clearedAt[c] = Occurrences(c)
  BY <1>1 DEF Occurrences, Unserviced
<1> QED
  BY <1>1, <1>2, <1>3 DEF Charged

\* The faults of a stage are finitely many classes.
LEMMA FaultsAreFinite ==
    ASSUME stage \in Stage
    PROVE  IsFiniteSet(FaultsOf(stage)) /\ FaultsOf(stage) \subseteq Class
<1>1. 1 \in Int /\ ClassCount \in Int
  OBVIOUS
<1>2. IsFiniteSet(1 .. ClassCount)
  BY <1>1, FS_Interval
<1>3. FaultsOf(stage) \subseteq 1 .. ClassCount
  BY FaultsAreClasses DEF Class
<1> QED
  BY <1>2, <1>3, FS_Subset DEF Class

\* What all of them hold is a number.
LEMMA ChargeOfAllIsNumber ==
    ASSUME ServiceInv, stage \in Stage, AllLimited
    PROVE  ChargeOfAll \in Nat
<1>1. ASSUME NEW c \in FaultsOf(stage)
      PROVE  Charged[c] \in Nat /\ Charged[c] <= Charged[c]
  <2>1. c \in Class /\ Limit[c] # 0
    BY FaultsAreFinite DEF AllLimited
  <2>2. Charged[c] \in Nat
    BY <2>1, ChargeIsNumber
  <2> QED
    BY <2>2
<1> QED
  BY <1>1, FaultsAreFinite, SumGrows DEF ChargeOfAll

\* The same as an implication, and of the state a step leads to.
LEMMA ChargeIsCounted ==
    ServiceInv /\ stage \in Stage /\ AllLimited => ChargeOfAll \in Nat
  BY ChargeOfAllIsNumber

LEMMA ChargeOfAllIsNumberAfter ==
    (ServiceInv /\ stage \in Stage /\ AllLimited => ChargeOfAll \in Nat)'
  BY ChargeIsCounted, PTL

\* Reports only add to it while the stage stays and nothing is cleared, and a
\* report of one of its classes below the limit does add.
LEMMA ChargeGrows ==
    ASSUME ServiceInv, ServiceInv', stage \in Stage, stage' = stage, AllLimited,
           \A d \in Class : reported[d] <= reported'[d], clearedAt' = clearedAt
    PROVE  /\ ChargeOfAll <= ChargeOfAll'
           /\ \A c \in FaultsOf(stage) :
                  reported'[c] = reported[c] + 1 /\ Occurrences(c) + 1 < Limit[c]
                      => ChargeOfAll < ChargeOfAll'
<1>1. ASSUME NEW c \in FaultsOf(stage)
      PROVE  /\ c \in Class /\ Limit[c] # 0 /\ Limit[c] \in Nat
             /\ Charged[c] \in Nat /\ Charged'[c] \in Nat /\ Charged[c] <= Charged'[c]
             /\ reported[c] - clearedAt[c] \in Nat
             /\ reported'[c] \in Nat /\ reported[c] \in Nat /\ clearedAt[c] \in Nat
  <2>1. c \in Class /\ Limit[c] # 0 /\ Limit[c] \in Nat
    BY FaultsAreFinite DEF AllLimited
  <2>2. /\ Charged[c] \in Nat /\ reported[c] - clearedAt[c] \in Nat
        /\ reported[c] \in Nat /\ clearedAt[c] \in Nat /\ reported'[c] \in Nat
        /\ reported[c] <= reported'[c]
    BY <2>1, ChargeIsNumber DEF ServiceInv, CountInv, NumberTypes
  <2>3. /\ Charged[c] = IF reported[c] - clearedAt[c] < Limit[c]
                        THEN reported[c] - clearedAt[c] ELSE Limit[c] - 1
        /\ Charged'[c] = IF reported'[c] - clearedAt[c] < Limit[c]
                         THEN reported'[c] - clearedAt[c] ELSE Limit[c] - 1
    BY <2>1 DEF Charged
  <2> QED
    BY <2>1, <2>2, <2>3
<1>2. /\ FaultsOf(stage)' = FaultsOf(stage) /\ IsFiniteSet(FaultsOf(stage))
  BY FaultsAreFinite DEF FaultsOf
<1>3. ChargeOfAll' = SumFunctionOnSet(Charged', FaultsOf(stage))
  BY <1>2 DEF ChargeOfAll
<1>4. ChargeOfAll <= ChargeOfAll'
  BY <1>1, <1>2, <1>3, SumGrows DEF ChargeOfAll
<1>5. ASSUME NEW c \in FaultsOf(stage), reported'[c] = reported[c] + 1,
             Occurrences(c) + 1 < Limit[c]
      PROVE  ChargeOfAll < ChargeOfAll'
  <2>1. c \in Class /\ reported[c] - clearedAt[c] = Occurrences(c)
    BY <1>1, ChargeIsNumber
  <2>2. /\ Charged[c] = IF reported[c] - clearedAt[c] < Limit[c]
                        THEN reported[c] - clearedAt[c] ELSE Limit[c] - 1
        /\ Charged'[c] = IF reported'[c] - clearedAt[c] < Limit[c]
                         THEN reported'[c] - clearedAt[c] ELSE Limit[c] - 1
    BY <2>1 DEF Charged
  <2>3. Charged[c] < Charged'[c]
    BY <1>1, <1>5, <2>1, <2>2
  <2> QED
    BY <1>1, <1>2, <1>3, <2>3, SumGrows DEF ChargeOfAll
<1> QED
  BY <1>4, <1>5

\* Whatever leaves the stage, its attempts and the clears alone keeps the bound.
LEMMA AttemptsKept ==
    ASSUME ServiceInv, ServiceInv', stage \in Stage, attempts \in Nat, AttemptInv,
           UNCHANGED <<stage, attempts, clearedAt>>, stalled => stalled',
           \A d \in Class : reported[d] <= reported'[d]
    PROVE  AttemptInv'
<1>1. AllLimited' => AllLimited
  BY DEF AllLimited, FaultsOf
<1>2. SUFFICES ASSUME AllLimited
               PROVE  attempts' <= ChargeOfAll' + 1 /\ (~stalled' => attempts' <= ChargeOfAll')
  BY <1>1 DEF AttemptInv
<1>3. ChargeOfAll <= ChargeOfAll'
  BY <1>2, ChargeGrows
<1>4. ChargeOfAll \in Nat /\ ChargeOfAll' \in Nat
  <2>1. stage' \in Stage /\ AllLimited'
    BY <1>2 DEF AllLimited, FaultsOf
  <2> QED
    BY <1>2, <2>1, ChargeOfAllIsNumber, ChargeOfAllIsNumberAfter
<1>5. attempts <= ChargeOfAll + 1 /\ (~stalled => attempts <= ChargeOfAll)
  BY <1>2, Zenon DEF AttemptInv
<1> DEFINE old == ChargeOfAll
           new == ChargeOfAll'
<1>6. attempts \in Nat /\ attempts' = attempts
  OBVIOUS
<1>7. old \in Nat /\ new \in Nat /\ old <= new
  BY <1>3, <1>4
<1> HIDE DEF old, new
<1>8. attempts <= old + 1 => attempts' <= new + 1
  BY <1>6, <1>7
<1>9. attempts <= old => attempts' <= new
  BY <1>6, <1>7
<1> QED
  BY <1>5, <1>8, <1>9, Zenon DEF old, new

\* A stage that is entered anew has made no attempt.
LEMMA AttemptsAnew ==
    ASSUME ServiceInv', stage' \in Stage, attempts' = 0
    PROVE  AttemptInv'
<1>1. SUFFICES ASSUME AllLimited'
               PROVE  attempts' <= ChargeOfAll' + 1 /\ attempts' <= ChargeOfAll'
  BY Zenon DEF AttemptInv
<1> DEFINE new == ChargeOfAll'
<1>2. new \in Nat
  BY <1>1, ChargeOfAllIsNumberAfter
<1> HIDE DEF new
<1>3. attempts' <= new + 1 /\ attempts' <= new
  BY <1>2
<1> QED
  BY <1>3 DEF new

\* A retry either charges its class or is the one that stalls the sequence.
LEMMA AttemptsRetried ==
    ASSUME ServiceInv, ServiceInv', stage \in Stage, attempts \in Nat, AttemptInv,
           ~stalled, NEW c \in FaultsOf(stage), Retry(c)
    PROVE  AttemptInv'
<1>1. /\ attempts' = attempts + 1 /\ Report(c)
      /\ stage' = stage /\ clearedAt' = clearedAt
  BY DEF Retry, Stall, Enter
<1>2. c \in Class
  BY FaultsAreFinite
<1>3. /\ \A d \in Class : reported[d] <= reported'[d]
      /\ reported'[c] = reported[c] + 1
  <2>1. NumberTypes
    BY DEF ServiceInv, CountInv
  <2>2. \A d \in Class : reported[d] <= reported'[d]
    BY <1>1, <1>2, <2>1, OneReport DEF Report
  <2>3. reported'[c] = reported[c] + 1
    BY <1>1, <1>2, <2>1 DEF Report, AddOne, NumberTypes
  <2> QED
    BY <2>2, <2>3
<1>4. SUFFICES ASSUME AllLimited
               PROVE  attempts' <= ChargeOfAll' + 1 /\ (~stalled' => attempts' <= ChargeOfAll')
  BY <1>1 DEF AttemptInv, AllLimited, FaultsOf
<1>5. ChargeOfAll \in Nat /\ ChargeOfAll' \in Nat
  <2>1. stage' \in Stage /\ AllLimited'
    BY <1>1, <1>4 DEF AllLimited, FaultsOf
  <2> QED
    BY <1>4, <2>1, ChargeOfAllIsNumber, ChargeOfAllIsNumberAfter
<1>6. /\ ChargeOfAll <= ChargeOfAll'
      /\ Occurrences(c) + 1 < Limit[c] => ChargeOfAll < ChargeOfAll'
  BY <1>1, <1>3, <1>4, ChargeGrows
<1>7. attempts <= ChargeOfAll
  BY <1>4, Zenon DEF AttemptInv
<1> DEFINE old == ChargeOfAll
           new == ChargeOfAll'
<1>9. /\ old \in Nat /\ new \in Nat /\ old <= new /\ attempts <= old
      /\ Occurrences(c) + 1 < Limit[c] => old < new
  BY <1>5, <1>6, <1>7
<1> HIDE DEF old, new
<1>10. attempts' <= new + 1
  BY <1>1, <1>9
<1>8. attempts' <= ChargeOfAll' + 1
  BY <1>10 DEF new
<1>11. CASE Spent(c)
  <2>1. stalled' = TRUE
    BY <1>11, Zenon DEF Retry, Stall
  <2> QED
    BY <1>8, <2>1
<1>12. CASE ~Spent(c)
  <2>1. Limit[c] # 0 /\ Limit[c] \in Nat /\ Occurrences(c) \in Nat
    <3>1. Occurrences(c) \in Nat
      BY <1>2, ChargeIsNumber
    <3> QED
      BY <1>2, <1>4, <3>1 DEF AllLimited
  <2>2. Occurrences(c) + 1 < Limit[c]
    BY <1>12, <2>1 DEF Spent, ExhaustedAfter
  <2>3. attempts' <= new
    BY <1>1, <1>9, <2>2
  <2> QED
    BY <1>8, <2>3 DEF new
<1> QED
  BY <1>11, <1>12

\* A step of the stage.
LEMMA AttemptsStep ==
    ASSUME MissionInv, ServiceInv', PlaceTypes', AttemptInv,
           NEW c \in FaultsOf(stage), Step(c)
    PROVE  AttemptInv'
<1>1. /\ ServiceInv /\ stage \in Stage /\ stage' \in Stage /\ attempts \in Nat /\ ~stalled
  BY DEF MissionInv, PlaceTypes, Step
<1>2. c \in Class /\ NumberTypes
  BY <1>1, FaultsAreFinite DEF ServiceInv, CountInv
<1>3. CASE Working
  <2>1. /\ UNCHANGED <<stage, attempts, clearedAt, stalled, reported>>
    BY <1>3 DEF Working, NoEscalation
  <2>2. \A d \in Class : reported[d] <= reported'[d]
    BY <1>2, <2>1 DEF NumberTypes
  <2> QED
    BY <1>1, <2>1, <2>2, AttemptsKept
<1>4. CASE Done(c)
  <2>1. attempts' = 0
    BY <1>4 DEF Done
  <2> QED
    BY <1>1, <2>1, AttemptsAnew
<1>5. CASE Retry(c)
  BY <1>1, <1>5, AttemptsRetried
<1>6. ASSUME Stall("abort", c) \/ Stall("back", c), Report(c), UNCHANGED <<attempts, clearedAt>>
      PROVE  AttemptInv'
  <2>1. stalled' /\ UNCHANGED <<stage, attempts, clearedAt>>
    BY <1>6 DEF Stall
  <2>2. \A d \in Class : reported[d] <= reported'[d]
    BY <1>2, <1>6, OneReport DEF Report
  <2> QED
    BY <1>1, <2>1, <2>2, AttemptsKept
<1>7. ASSUME NEW b \in Stage, NEW up \in BOOLEAN, Back(b, c, up)
      PROVE  AttemptInv'
  <2>1. CASE Backwards(b)
    <3>1. attempts' = 0
      BY <1>7, <2>1 DEF Back
    <3> QED
      BY <1>1, <3>1, AttemptsAnew
  <2>2. CASE ~Backwards(b)
    BY <1>6, <1>7, <2>2 DEF Back
  <2> QED
    BY <2>1, <2>2
<1>8. CASE Abandon(c)
  BY <1>6, <1>8 DEF Abandon
<1> QED
  BY <1>3, <1>4, <1>5, <1>7, <1>8, Zenon DEF Step

\* A pass of the fault service only adds reports, those of its own link.
LEMMA PassOnlyAdds ==
    ASSUME NumberTypes, FdirPass
    PROVE  clearedAt' = clearedAt /\ \A d \in Class : reported[d] <= reported'[d]
<1>1. CASE BeginPass([c \in CollectedClasses |-> 0])
  <2>1. /\ clearedAt' = clearedAt
        /\ reported' = [d \in Class |->
               reported[d] + (IF d \in CollectedClasses
                              THEN [e \in CollectedClasses |-> 0][d] ELSE 0)]
    BY <1>1 DEF BeginPass
  <2>2. ASSUME NEW d \in Class PROVE reported[d] <= reported'[d]
    <3>1. reported[d] \in Nat
      BY DEF NumberTypes
    <3>2. reported'[d] = reported[d] + 0
      BY <2>1
    <3> QED
      BY <3>1, <3>2
  <2> QED
    BY <2>1, <2>2
<1>2. CASE UNCHANGED <<reported, clearedAt>>
  BY <1>2 DEF NumberTypes
<1>3. ASSUME NEW up \in BOOLEAN, Classify(up)
      PROVE  clearedAt' = clearedAt /\ \A d \in Class : reported[d] <= reported'[d]
  <2>1. /\ cursor \in Class /\ clearedAt' = clearedAt
        /\ Escalate(cursor, up) \/ reported' = reported
    BY <1>3 DEF Classify, NoEscalation
  <2>2. CASE Escalate(cursor, up)
    BY <2>1, <2>2, EscalationAdds
  <2>3. CASE reported' = reported
    BY <2>1, <2>3 DEF NumberTypes
  <2> QED
    BY <2>1, <2>2, <2>3
<1>4. ReadClass \/ EndPass => UNCHANGED <<reported, clearedAt>>
  BY DEF ReadClass, EndPass
<1> QED
  BY <1>1, <1>2, <1>3, <1>4 DEF FdirPass, ServiceStep

\* One step of the loop, of a task or of an interrupt.
LEMMA AttemptsNext ==
    ASSUME MissionInv, ServiceInv', PlaceTypes', AttemptInv, [MissionNext]_vars
    PROVE  AttemptInv'
<1>1. ServiceInv /\ stage \in Stage /\ attempts \in Nat /\ NumberTypes
  BY DEF MissionInv, PlaceTypes, ServiceInv, CountInv
<1>2. ASSUME UNCHANGED <<stage, attempts, clearedAt, stalled>>,
             \A d \in Class : reported[d] <= reported'[d]
      PROVE  AttemptInv'
  BY <1>1, <1>2, AttemptsKept
<1>3. ASSUME NEW c \in Class, TaskReports(c) \/ Interrupts(c)
      PROVE  AttemptInv'
  <2>1. Report(c) /\ UNCHANGED <<stage, attempts, clearedAt, stalled>>
    BY <1>3 DEF TaskReports, TaskReport, Interrupts, InterruptReport, seqVars
  <2> QED
    BY <1>1, <1>2, <2>1, OneReport DEF Report
<1>4. CASE CheckBudget
  <2>1. /\ Report(TimeoutClass) /\ TimeoutClass \in Class
        /\ UNCHANGED <<stage, attempts, clearedAt, stalled>>
    BY <1>4 DEF CheckBudget
  <2> QED
    BY <1>1, <1>2, <2>1, OneReport DEF Report
<1>5. CASE \/ BudgetPasses \/ Abort \/ \E status \in Status : SetPayload(status)
           \/ TasksDone \/ Held \/ UNCHANGED vars
  <2>1. UNCHANGED <<stage, attempts, clearedAt, stalled, reported>>
    BY <1>5 DEF BudgetPasses, Abort, SetPayload, TasksDone, Held, vars, fdirVars, seqVars
  <2>2. \A d \in Class : reported[d] <= reported'[d]
    BY <1>1, <2>1 DEF NumberTypes
  <2> QED
    BY <1>2, <2>1, <2>2
<1>6. CASE FdirPass
  <2>1. UNCHANGED <<stage, attempts, stalled>>
    BY <1>6 DEF FdirPass, seqVars
  <2> QED
    BY <1>1, <1>2, <1>6, <2>1, PassOnlyAdds
<1>7. TaskClasses \subseteq Class /\ InterruptClasses \subseteq Class
  OBVIOUS
<1> QED
  BY <1>3, <1>4, <1>5, <1>6, <1>7, AttemptsStep, Zenon DEF MissionNext, MissionStep

\* What the classes of a stage can hold is less than their limits together.
LEMMA ChargeBelowAllowance ==
    ASSUME ServiceInv, stage \in Stage, AllLimited
    PROVE  ChargeOfAll + 1 <= Allowance(stage) /\ Allowance(stage) \in Nat
<1>1. ASSUME NEW c \in FaultsOf(stage)
      PROVE  Charged[c] \in Nat /\ Spare[c] \in Nat /\ Charged[c] <= Spare[c]
  <2>1. c \in Class /\ Limit[c] # 0 /\ Limit[c] \in Nat
    BY FaultsAreFinite DEF AllLimited
  <2>2. Charged[c] \in Nat /\ Charged[c] <= Limit[c] - 1
    BY <2>1, ChargeIsNumber
  <2> QED
    BY <2>1, <2>2 DEF Spare
<1>2. /\ SumFunctionOnSet(Charged, FaultsOf(stage)) \in Nat
      /\ SumFunctionOnSet(Spare, FaultsOf(stage)) \in Nat
      /\ SumFunctionOnSet(Charged, FaultsOf(stage))
             <= SumFunctionOnSet(Spare, FaultsOf(stage))
  BY <1>1, FaultsAreFinite, SumGrows
<1> QED
  BY <1>2 DEF ChargeOfAll, Allowance

\* FW-30: a stage whose faults all carry a limit makes no more attempts than the
\* limits allow, whatever its step function, the data path, the interrupts and
\* the fault pass do in between.
THEOREM AttemptsLimited == MissionSpec => []AttemptsBounded
<1>1. MissionInit => AttemptInv
  <2> SUFFICES ASSUME MissionInit, AllLimited
      PROVE  attempts <= ChargeOfAll + 1 /\ attempts <= ChargeOfAll
    BY DEF AttemptInv
  <2>1. ServiceInv /\ stage \in Stage /\ attempts = 0
    BY MissionInvInit DEF MissionInv, PlaceTypes, MissionInit
  <2>2. ChargeOfAll \in Nat
    BY <2>1, ChargeOfAllIsNumber
  <2> QED
    BY <2>1, <2>2
<1>2. MissionInv /\ MissionInv' /\ AttemptInv /\ [MissionNext]_vars => AttemptInv'
  BY AttemptsNext DEF MissionInv
<1>3. MissionInv /\ AttemptInv => AttemptsBounded
  <2> SUFFICES ASSUME MissionInv, AttemptInv, AllLimited
      PROVE  attempts <= Allowance(stage)
    BY DEF AttemptsBounded, AllLimited
  <2>1. ServiceInv /\ stage \in Stage /\ attempts \in Nat
    BY DEF MissionInv, PlaceTypes
  <2>2. attempts <= ChargeOfAll + 1
    BY DEF AttemptInv
  <2> QED
    BY <2>1, <2>2, ChargeOfAllIsNumber, ChargeBelowAllowance
<1> QED
  BY <1>1, <1>2, <1>3, MissionInvariant, PTL DEF MissionSpec
=============================================================================
