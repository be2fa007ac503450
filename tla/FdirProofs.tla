----------------------------- MODULE FdirProofs -----------------------------
(***************************************************************************)
(* Fdir for every set of classes, every policy and every number of reports.*)
(*                                                                         *)
(* The invariant ties the two counters that contexts share (reported,      *)
(* serviced) to what the service keeps about each class, and says what the *)
(* pass may rely on between its read of a counter and its store: the copy  *)
(* is ahead of what was serviced and never ahead of what was reported,     *)
(* whatever interrupts report meanwhile.                                   *)
(***************************************************************************)
EXTENDS Fdir, TLAPS

NumberTypes ==
    /\ reported \in [Class -> Nat] /\ serviced \in [Class -> Nat]
    /\ occurrences \in [Class -> Nat] /\ escalations \in [Class -> Nat]
    /\ bySeverity \in [Class -> Nat] /\ clearedAt \in [Class -> Nat]
    /\ undelivered \in Nat /\ reentries \in Nat /\ linkFailures \in Nat
    /\ cursor \in 0 .. ClassCount + 1 /\ seen \in Nat

FlagTypes == flag \in [Class -> BOOLEAN] /\ elevated \in [Class -> BOOLEAN]

\* What a class has been charged with is what was serviced since its clear.
Accounted ==
    \A c \in Class :
        /\ serviced[c] <= reported[c]
        /\ occurrences[c] = serviced[c] - clearedAt[c]
        /\ bySeverity[c] <= serviced[c]

\* The local copy of the pass, when it holds one.
CopyCurrent ==
    seen # 0 => /\ cursor \in Class
                /\ serviced[cursor] < seen /\ seen <= reported[cursor]

CountInv == NumberTypes /\ Accounted /\ CopyCurrent

USE ClassAssumption, LimitAssumption

-----------------------------------------------------------------------------
\* Initially nothing is reported.
LEMMA CountInvInit == Init => CountInv
  BY DEF Init, FdirInit, Zero, CountInv, NumberTypes, Accounted, CopyCurrent, Class

\* What only adds reports preserves the invariant, at any point of the pass.
LEMMA ReportsOnlyAdd ==
    ASSUME CountInv,
           reported' \in [Class -> Nat], \A c \in Class : reported[c] <= reported'[c],
           escalations' \in [Class -> Nat], undelivered' \in Nat,
           reentries' \in Nat, linkFailures' \in Nat,
           UNCHANGED <<serviced, occurrences, bySeverity, clearedAt, cursor, seen>>
    PROVE  CountInv'
<1> USE DEF CountInv
<1>1. NumberTypes'
  BY DEF NumberTypes
<1>2. Accounted'
  <2> SUFFICES ASSUME NEW c \in Class
               PROVE  /\ serviced[c] <= reported'[c]
                      /\ occurrences[c] = serviced[c] - clearedAt[c]
                      /\ bySeverity[c] <= serviced[c]
    BY DEF Accounted
  <2>1. serviced[c] \in Nat /\ reported[c] \in Nat /\ reported'[c] \in Nat
    BY DEF NumberTypes
  <2> QED
    BY <2>1 DEF Accounted
<1>3. CopyCurrent'
  <2> SUFFICES ASSUME seen # 0
               PROVE  /\ cursor \in Class
                      /\ serviced[cursor] < seen /\ seen <= reported'[cursor]
    BY DEF CopyCurrent
  <2>1. cursor \in Class /\ serviced[cursor] < seen /\ seen <= reported[cursor]
    BY DEF CopyCurrent
  <2>2. /\ reported[cursor] \in Nat /\ reported'[cursor] \in Nat
        /\ reported[cursor] <= reported'[cursor] /\ seen \in Nat
    BY <2>1 DEF NumberTypes
  <2> QED
    BY <2>1, <2>2
<1> QED
  BY <1>1, <1>2, <1>3

\* One report of one class.
LEMMA OneReport ==
    ASSUME NumberTypes, NEW c \in Class
    PROVE  /\ AddOne(reported, c) \in [Class -> Nat]
           /\ AddOne(escalations, c) \in [Class -> Nat]
           /\ \A d \in Class : reported[d] <= AddOne(reported, c)[d]
  BY DEF NumberTypes, AddOne

\* An escalation, delivered or not, changes nothing else a class is charged with.
LEMMA EscalationAdds ==
    ASSUME NumberTypes, NEW c \in Class, NEW linkUp \in BOOLEAN, Escalate(c, linkUp)
    PROVE  /\ reported' \in [Class -> Nat]
           /\ \A d \in Class : reported[d] <= reported'[d]
           /\ escalations' \in [Class -> Nat]
           /\ undelivered' \in Nat /\ linkFailures' \in Nat
<1>1. escalations' \in [Class -> Nat]
  BY OneReport DEF Escalate
<1>2. undelivered' \in Nat /\ linkFailures' \in Nat
  BY DEF Escalate, NumberTypes
<1>3. LinkClass \in Class
  OBVIOUS
<1>4. reported' = reported \/ reported' = AddOne(reported, LinkClass)
  BY DEF Escalate
<1>5. reported \in [Class -> Nat] /\ \A d \in Class : reported[d] <= reported[d]
  BY DEF NumberTypes
<1> QED
  BY <1>1, <1>2, <1>3, <1>4, <1>5, OneReport

-----------------------------------------------------------------------------
\* A clear takes what is reported and not yet serviced with it.
LEMMA ClearStep ==
    ASSUME CountInv, NEW c \in Class, Clear(c), cursor = 0,
           UNCHANGED <<reported, bySeverity, escalations, undelivered, reentries,
                       cursor, seen, linkFailures>>
    PROVE  CountInv'
<1> USE DEF CountInv
<1>0. /\ serviced' = [serviced EXCEPT ![c] = reported[c]]
      /\ occurrences' = [occurrences EXCEPT ![c] = 0]
      /\ clearedAt' = [clearedAt EXCEPT ![c] = reported[c]]
  BY DEF Clear
<1>1. NumberTypes'
  BY <1>0 DEF NumberTypes
<1>2. Accounted'
  <2> SUFFICES ASSUME NEW d \in Class
               PROVE  /\ serviced'[d] <= reported[d]
                      /\ occurrences'[d] = serviced'[d] - clearedAt'[d]
                      /\ bySeverity[d] <= serviced'[d]
    BY <1>0 DEF Accounted
  <2>1. /\ serviced[d] \in Nat /\ reported[d] \in Nat /\ bySeverity[d] \in Nat
        /\ serviced[d] <= reported[d] /\ bySeverity[d] <= serviced[d]
        /\ occurrences[d] = serviced[d] - clearedAt[d]
    BY DEF NumberTypes, Accounted
  <2>2. CASE d = c
    BY <1>0, <2>1, <2>2 DEF NumberTypes
  <2>3. CASE d # c
    BY <1>0, <2>1, <2>3 DEF NumberTypes
  <2> QED
    BY <2>2, <2>3
<1>3. CopyCurrent'
  BY <1>0 DEF CopyCurrent, Class
<1> QED
  BY <1>1, <1>2, <1>3

\* The pass begins by adding what the platform counters gained.
LEMMA BeginPassStep ==
    ASSUME CountInv, NEW gained \in [CollectedClasses -> 0 .. 2], BeginPass(gained)
    PROVE  CountInv'
<1> USE DEF CountInv
<1>0. /\ cursor = 0 /\ cursor' = 1
      /\ reported' = [c \in Class |->
             reported[c] + (IF c \in CollectedClasses THEN gained[c] ELSE 0)]
      /\ UNCHANGED <<serviced, occurrences, bySeverity, escalations, undelivered,
                     reentries, seen, clearedAt, linkFailures>>
  BY DEF BeginPass, recordVars
<1>1. ASSUME NEW c \in Class
      PROVE  reported'[c] \in Nat /\ reported[c] <= reported'[c]
  BY <1>0, <1>1 DEF NumberTypes
<1>2. reported' \in [Class -> Nat]
  BY <1>0, <1>1
<1>3. NumberTypes'
  BY <1>0, <1>2 DEF NumberTypes
<1>4. Accounted'
  <2> SUFFICES ASSUME NEW c \in Class
               PROVE  /\ serviced[c] <= reported'[c]
                      /\ occurrences[c] = serviced[c] - clearedAt[c]
                      /\ bySeverity[c] <= serviced[c]
    BY <1>0 DEF Accounted
  <2>1. serviced[c] \in Nat /\ reported[c] \in Nat /\ serviced[c] <= reported[c]
    BY DEF NumberTypes, Accounted
  <2> QED
    BY <2>1, <1>1 DEF Accounted
<1>5. CopyCurrent'
  BY <1>0 DEF CopyCurrent, Class
<1> QED
  BY <1>3, <1>4, <1>5

\* The read leaves a copy only of a class with something new.
LEMMA ReadStep ==
    ASSUME CountInv, ReadClass
    PROVE  CountInv'
<1> USE DEF CountInv
<1>0. /\ cursor \in Class
      /\ UNCHANGED <<reported, serviced, occurrences, bySeverity, escalations,
                     undelivered, reentries, clearedAt, linkFailures>>
  BY DEF ReadClass, recordVars
<1>1. reported[cursor] \in Nat /\ serviced[cursor] \in Nat
      /\ serviced[cursor] <= reported[cursor]
  BY <1>0 DEF NumberTypes, Accounted
<1>2. \/ cursor' = cursor + 1 /\ seen' = 0
      \/ /\ cursor' = cursor /\ seen' = reported[cursor]
         /\ reported[cursor] # serviced[cursor]
  BY <1>1 DEF ReadClass, Unserviced
<1>3. NumberTypes'
  <2>1. cursor + 1 \in 0 .. ClassCount + 1 /\ cursor \in 0 .. ClassCount + 1
    BY <1>0 DEF Class
  <2>2. cursor' \in 0 .. ClassCount + 1 /\ seen' \in Nat
    BY <1>1, <1>2, <2>1
  <2> QED
    BY <1>0, <2>2 DEF NumberTypes
<1>4. Accounted'
  BY <1>0 DEF Accounted
<1>5. CopyCurrent'
  BY <1>0, <1>1, <1>2 DEF CopyCurrent
<1> QED
  BY <1>3, <1>4, <1>5

\* The store after the classification, with the escalation it may make.
LEMMA ClassifyStep ==
    ASSUME CountInv, NEW linkUp \in BOOLEAN, Classify(linkUp)
    PROVE  CountInv'
<1> USE DEF CountInv
<1> DEFINE new == seen - serviced[cursor]
<1>0. /\ cursor \in Class /\ seen # 0
      /\ serviced' = [serviced EXCEPT ![cursor] = seen]
      /\ occurrences' = [occurrences EXCEPT ![cursor] = occurrences[cursor] + new]
      /\ bySeverity' = [bySeverity EXCEPT ![cursor] = @ + new]
      /\ cursor' = cursor + 1 /\ seen' = 0
      /\ UNCHANGED <<reentries, clearedAt>>
  BY DEF Classify, ServicedNow
<1>1. Escalate(cursor, linkUp) \/ NoEscalation
  BY DEF Classify
<1>2. /\ reported' \in [Class -> Nat]
      /\ \A d \in Class : reported[d] <= reported'[d]
      /\ escalations' \in [Class -> Nat]
      /\ undelivered' \in Nat /\ linkFailures' \in Nat
  <2>1. CASE Escalate(cursor, linkUp)
    BY <1>0, <2>1, EscalationAdds
  <2>2. CASE NoEscalation
    BY <2>2 DEF NoEscalation, NumberTypes
  <2> QED
    BY <1>1, <2>1, <2>2
<1>3. /\ seen \in Nat /\ new \in Nat
      /\ seen <= reported[cursor]
  BY <1>0 DEF CopyCurrent, NumberTypes
<1>4. NumberTypes'
  <2>1. cursor + 1 \in 0 .. ClassCount + 1
    BY <1>0 DEF Class
  <2>2. serviced' \in [Class -> Nat] /\ occurrences' \in [Class -> Nat]
        /\ bySeverity' \in [Class -> Nat]
    BY <1>0, <1>3 DEF NumberTypes
  <2> QED
    BY <1>0, <1>2, <2>1, <2>2 DEF NumberTypes
<1>5. Accounted'
  <2> SUFFICES ASSUME NEW d \in Class
               PROVE  /\ serviced'[d] <= reported'[d]
                      /\ occurrences'[d] = serviced'[d] - clearedAt'[d]
                      /\ bySeverity'[d] <= serviced'[d]
    BY DEF Accounted
  <2>1. /\ serviced[d] \in Nat /\ reported[d] \in Nat /\ reported'[d] \in Nat
        /\ bySeverity[d] \in Nat /\ clearedAt[d] \in Nat /\ occurrences[d] \in Nat
        /\ serviced[d] <= reported[d] /\ bySeverity[d] <= serviced[d]
        /\ occurrences[d] = serviced[d] - clearedAt[d]
        /\ reported[d] <= reported'[d]
    BY <1>2 DEF NumberTypes, Accounted
  <2>2. CASE d = cursor
    <3>1. /\ serviced'[d] = seen /\ occurrences'[d] = occurrences[d] + (seen - serviced[d])
          /\ bySeverity'[d] = bySeverity[d] + (seen - serviced[d])
          /\ clearedAt'[d] = clearedAt[d]
      BY <1>0, <2>2 DEF NumberTypes
    <3> QED
      BY <2>1, <2>2, <3>1, <1>3
  <2>3. CASE d # cursor
    BY <1>0, <2>1, <2>3 DEF NumberTypes
  <2> QED
    BY <2>2, <2>3
<1>6. CopyCurrent'
  BY <1>0 DEF CopyCurrent
<1> QED
  BY <1>4, <1>5, <1>6

-----------------------------------------------------------------------------
\* Every step of the service and of its clients preserves the invariant.
LEMMA CountInvNext == CountInv /\ [Next]_fdirVars => CountInv'
<1> SUFFICES ASSUME CountInv, [Next]_fdirVars PROVE CountInv'
  OBVIOUS
<1>0. NumberTypes
  BY DEF CountInv
<1>1. ASSUME NEW c \in Class, InterruptReport(c) \/ TaskReport(c)
      PROVE  CountInv'
  <2>1. /\ reported' = AddOne(reported, c)
        /\ UNCHANGED <<serviced, occurrences, bySeverity, escalations, undelivered,
                       reentries, cursor, seen, clearedAt, linkFailures>>
    BY <1>1 DEF InterruptReport, TaskReport, Report, recordVars, passVars
  <2>2. /\ escalations' \in [Class -> Nat] /\ undelivered' \in Nat
        /\ reentries' \in Nat /\ linkFailures' \in Nat
    BY <1>0, <2>1 DEF NumberTypes
  <2>3. reported' \in [Class -> Nat] /\ \A d \in Class : reported[d] <= reported'[d]
    BY <1>0, <2>1, OneReport
  <2> QED
    BY <2>1, <2>2, <2>3, ReportsOnlyAdd
<1>2. ASSUME NEW c \in Class, TaskClear(c)
      PROVE  CountInv'
  BY <1>2, ClearStep DEF TaskClear, passVars
<1>3. ASSUME NEW c \in Class, NEW linkUp \in BOOLEAN, TaskReentry(c, linkUp)
      PROVE  CountInv'
  <2>1. /\ UNCHANGED <<serviced, occurrences, bySeverity, clearedAt, cursor, seen>>
        /\ reentries' = reentries + 1
        /\ Escalate(c, linkUp) \/ NoEscalation
    BY <1>3 DEF TaskReentry, ReentryNote, recordVars, passVars
  <2>2. reentries' \in Nat
    BY <1>0, <2>1 DEF NumberTypes
  <2>3. CASE Escalate(c, linkUp)
    BY <1>0, <2>1, <2>2, <2>3, EscalationAdds, ReportsOnlyAdd
  <2>4. CASE NoEscalation
    <3>1. /\ reported' = reported
          /\ escalations' \in [Class -> Nat] /\ undelivered' \in Nat
          /\ linkFailures' \in Nat
      BY <1>0, <2>4 DEF NoEscalation, NumberTypes
    <3>2. reported' \in [Class -> Nat] /\ \A d \in Class : reported[d] <= reported'[d]
      BY <1>0, <3>1 DEF NumberTypes
    <3> QED
      BY <2>1, <2>2, <3>1, <3>2, ReportsOnlyAdd
  <2> QED
    BY <2>1, <2>3, <2>4
<1>4. ASSUME NEW gained \in [CollectedClasses -> 0 .. 2], BeginPass(gained)
      PROVE  CountInv'
  BY <1>4, BeginPassStep
<1>5. CASE ReadClass
  BY <1>5, ReadStep
<1>6. ASSUME NEW linkUp \in BOOLEAN, Classify(linkUp)
      PROVE  CountInv'
  BY <1>6, ClassifyStep
<1>7. CASE EndPass
  <2>1. /\ cursor > ClassCount /\ cursor' = 0
        /\ UNCHANGED <<reported, serviced, occurrences, bySeverity, escalations,
                       undelivered, reentries, seen, clearedAt, linkFailures>>
    BY <1>7 DEF EndPass, recordVars
  <2>2. seen = 0
    BY <2>1, <1>0 DEF CountInv, CopyCurrent, NumberTypes, Class
  <2>3. NumberTypes'
    BY <1>0, <2>1 DEF NumberTypes
  <2>4. Accounted'
    BY <2>1 DEF CountInv, Accounted
  <2>5. CopyCurrent'
    BY <2>1, <2>2 DEF CopyCurrent
  <2> QED
    BY <2>3, <2>4, <2>5 DEF CountInv
<1>8. CASE UNCHANGED fdirVars
  <2>1. UNCHANGED <<reported, serviced, occurrences, bySeverity, escalations,
                    undelivered, reentries, cursor, seen, clearedAt, linkFailures>>
    BY <1>8 DEF fdirVars, recordVars, passVars
  <2> QED
    BY <2>1 DEF CountInv, NumberTypes, Accounted, CopyCurrent
<1>9. InterruptClasses \subseteq Class
  OBVIOUS
<1> QED
  BY <1>1, <1>2, <1>3, <1>4, <1>5, <1>6, <1>7, <1>8, <1>9 DEF Next, Pass, ServiceStep

\* The counts a retry decision and the log rest on, in every reachable state.
THEOREM CountInvariant == Spec => []CountInv
<1>1. Init => CountInv
  BY CountInvInit
<1>2. CountInv /\ [Next]_fdirVars => CountInv'
  BY CountInvNext
<1> QED
  BY <1>1, <1>2, PTL DEF Spec

\* svc_fdir_occurrences() is every report since the last clear, at every point of
\* the pass and under any interleaving of reports.
THEOREM CountsExact == Spec => []CountIsExact
<1>1. CountInv => CountIsExact
  <2> SUFFICES ASSUME CountInv, NEW c \in Class
               PROVE  Occurrences(c) = reported[c] - clearedAt[c]
    BY DEF CountIsExact
  <2>1. /\ reported[c] \in Nat /\ serviced[c] \in Nat /\ clearedAt[c] \in Nat
        /\ occurrences[c] = serviced[c] - clearedAt[c]
    BY DEF CountInv, NumberTypes, Accounted
  <2> QED
    BY <2>1 DEF Occurrences, Unserviced
<1> QED
  BY <1>1, CountInvariant, PTL

\* No report is classified twice.
THEOREM NeverClassifiedTwice == Spec => []ClassifiedOnce
<1>1. CountInv => ClassifiedOnce
  <2> SUFFICES ASSUME CountInv, NEW c \in Class
               PROVE  bySeverity[c] + Unserviced(c) <= reported[c]
    BY DEF ClassifiedOnce
  <2>1. /\ reported[c] \in Nat /\ serviced[c] \in Nat /\ bySeverity[c] \in Nat
        /\ bySeverity[c] <= serviced[c]
    BY DEF CountInv, NumberTypes, Accounted
  <2> QED
    BY <2>1 DEF Unserviced
<1> QED
  BY <1>1, CountInvariant, PTL

-----------------------------------------------------------------------------
(* The tier rule: flags are Boolean facts, kept apart from the arithmetic. *)

ElevationInv == CountInv /\ FlagTypes /\ ElevatedAtLimit

\* What leaves the records alone leaves flags and elevation alone.
LEMMA FlagsKept ==
    ASSUME FlagTypes, ElevatedAtLimit, UNCHANGED <<occurrences, flag, elevated>>
    PROVE  FlagTypes' /\ ElevatedAtLimit'
  BY DEF FlagTypes, ElevatedAtLimit

\* A clear lowers the flag and the count together.
LEMMA FlagsCleared ==
    ASSUME CountInv, FlagTypes, ElevatedAtLimit, NEW c \in Class, Clear(c)
    PROVE  FlagTypes' /\ ElevatedAtLimit'
<1>0. /\ occurrences' = [occurrences EXCEPT ![c] = 0]
      /\ flag' = [flag EXCEPT ![c] = FALSE]
      /\ elevated' = [elevated EXCEPT ![c] = FALSE]
  BY DEF Clear
<1>1. FlagTypes'
  BY <1>0 DEF FlagTypes
<1>2. ASSUME NEW d \in Class
      PROVE  elevated'[d] <=> /\ d \in Critical /\ Limit[d] # 0
                              /\ occurrences'[d] >= Limit[d]
  <2>1. CASE d = c
    <3>1. ~elevated'[d]
      BY <1>0, <2>1, Zenon DEF FlagTypes
    <3>2. occurrences'[d] = 0 /\ Limit[d] \in Nat
      BY <1>0, <2>1 DEF CountInv, NumberTypes
    <3>3. ~(Limit[d] # 0 /\ occurrences'[d] >= Limit[d])
      BY <3>2
    <3> QED
      BY <3>1, <3>3, Zenon
  <2>2. CASE d # c
    <3>1. elevated'[d] = elevated[d]
      BY <1>0, <2>2, Zenon DEF FlagTypes
    <3>2. occurrences'[d] = occurrences[d]
      BY <1>0, <2>2 DEF CountInv, NumberTypes
    <3> QED
      BY <3>1, <3>2, Zenon DEF ElevatedAtLimit
  <2> QED
    BY <2>1, <2>2
<1> QED
  BY <1>1, <1>2, Zenon DEF ElevatedAtLimit

\* A classification elevates exactly when the count it stores has reached the limit.
LEMMA FlagsClassified ==
    ASSUME CountInv, FlagTypes, ElevatedAtLimit, NEW linkUp \in BOOLEAN,
           Classify(linkUp)
    PROVE  FlagTypes' /\ ElevatedAtLimit'
<1> DEFINE count == occurrences[cursor] + (seen - serviced[cursor])
<1>0. /\ cursor \in Class /\ seen # 0
      /\ occurrences' = [occurrences EXCEPT ![cursor] = count]
      /\ flag' = [flag EXCEPT ![cursor] = TRUE]
      /\ elevated' = [elevated EXCEPT
             ![cursor] = @ \/ (cursor \in Critical /\ Escalates(count))]
  BY DEF Classify
<1>1. FlagTypes'
  <2>1. (elevated[cursor] \/ (cursor \in Critical /\ Escalates(count))) \in BOOLEAN
    BY Zenon
  <2>2. elevated' \in [Class -> BOOLEAN]
    BY <1>0, <2>1, Zenon DEF FlagTypes
  <2>3. flag' \in [Class -> BOOLEAN]
    BY <1>0, Zenon DEF FlagTypes
  <2> QED
    BY <2>2, <2>3 DEF FlagTypes
<1>2. /\ occurrences[cursor] \in Nat /\ serviced[cursor] < seen
      /\ seen \in Nat /\ serviced[cursor] \in Nat /\ Limit[cursor] \in Nat
  BY <1>0 DEF CountInv, NumberTypes, CopyCurrent
<1>3. count \in Nat /\ count >= occurrences[cursor]
  BY <1>2
<1>4. ASSUME NEW d \in Class
      PROVE  elevated'[d] <=> /\ d \in Critical /\ Limit[d] # 0
                              /\ occurrences'[d] >= Limit[d]
  <2>1. CASE d = cursor
    <3>1. occurrences'[d] = count
      BY <1>0, <2>1 DEF CountInv, NumberTypes
    <3>2. elevated'[d] <=> elevated[d] \/ (d \in Critical /\ Escalates(count))
      BY <1>0, <2>1, Zenon DEF FlagTypes
    <3>3. elevated[d] <=> /\ d \in Critical /\ Limit[d] # 0
                          /\ occurrences[d] >= Limit[d]
      BY DEF ElevatedAtLimit
    <3>4. d \in Critical => d \notin Severe
      OBVIOUS
    <3>5. d \in Critical => (Escalates(count) <=> /\ Limit[d] # 0 /\ count >= Limit[d]
                                                  /\ ~elevated[d])
      BY <2>1, <3>4, Zenon DEF Escalates
    <3>6. occurrences[d] >= Limit[d] => count >= Limit[d]
      BY <1>2, <1>3, <2>1
    <3> HIDE DEF count
    <3> QED
      BY <3>1, <3>2, <3>3, <3>5, <3>6, Zenon
  <2>2. CASE d # cursor
    <3>1. elevated'[d] = elevated[d]
      BY <1>0, <2>2, Zenon DEF FlagTypes
    <3>2. occurrences'[d] = occurrences[d]
      BY <1>0, <2>2 DEF CountInv, NumberTypes
    <3> QED
      BY <3>1, <3>2, Zenon DEF ElevatedAtLimit
  <2> QED
    BY <2>1, <2>2
<1> QED
  BY <1>1, <1>4, Zenon DEF ElevatedAtLimit

\* Initially no class is elevated: a limit of zero is no limit.
LEMMA ElevationInit == Init => FlagTypes /\ ElevatedAtLimit
<1> SUFFICES ASSUME Init PROVE FlagTypes /\ ElevatedAtLimit
  OBVIOUS
<1>1. FlagTypes
  BY DEF Init, FdirInit, FlagTypes
<1>2. ASSUME NEW c \in Class
      PROVE  elevated[c] <=> c \in Critical /\ Limit[c] # 0 /\ occurrences[c] >= Limit[c]
  <2>1. elevated[c] = FALSE
    BY Zenon DEF Init, FdirInit
  <2>2. occurrences[c] = 0 /\ Limit[c] \in Nat
    BY DEF Init, FdirInit, Zero
  <2>3. ~(Limit[c] # 0 /\ occurrences[c] >= Limit[c])
    BY <2>2
  <2> QED
    BY <2>1, <2>3, Zenon
<1> QED
  BY <1>1, <1>2, Zenon DEF ElevatedAtLimit

\* Every step keeps a class elevated exactly while its count is at its limit.
LEMMA ElevationNext == ElevationInv /\ [Next]_fdirVars => ElevationInv'
<1> SUFFICES ASSUME CountInv, FlagTypes, ElevatedAtLimit, [Next]_fdirVars
             PROVE  FlagTypes' /\ ElevatedAtLimit'
  BY CountInvNext DEF ElevationInv
<1>1. ASSUME NEW c \in Class, InterruptReport(c) \/ TaskReport(c)
      PROVE  UNCHANGED <<occurrences, flag, elevated>>
  BY <1>1 DEF InterruptReport, TaskReport, recordVars
<1>2. ASSUME NEW c \in Class, NEW linkUp \in BOOLEAN, TaskReentry(c, linkUp)
      PROVE  UNCHANGED <<occurrences, flag, elevated>>
  BY <1>2 DEF TaskReentry, recordVars
<1>3. ASSUME NEW gained \in [CollectedClasses -> 0 .. 2], BeginPass(gained)
      PROVE  UNCHANGED <<occurrences, flag, elevated>>
  BY <1>3 DEF BeginPass, recordVars
<1>4. ASSUME ReadClass \/ EndPass \/ UNCHANGED fdirVars
      PROVE  UNCHANGED <<occurrences, flag, elevated>>
  BY <1>4 DEF ReadClass, EndPass, recordVars, fdirVars
<1>5. ASSUME NEW c \in Class, TaskClear(c)
      PROVE  FlagTypes' /\ ElevatedAtLimit'
  BY <1>5, FlagsCleared DEF TaskClear
<1>6. ASSUME NEW linkUp \in BOOLEAN, Classify(linkUp)
      PROVE  FlagTypes' /\ ElevatedAtLimit'
  BY <1>6, FlagsClassified
<1>7. InterruptClasses \subseteq Class
  OBVIOUS
<1>8. \/ UNCHANGED <<occurrences, flag, elevated>>
      \/ \E c \in Class : TaskClear(c)
      \/ \E linkUp \in BOOLEAN : Classify(linkUp)
  BY <1>1, <1>2, <1>3, <1>4, <1>7, Zenon DEF Next, Pass, ServiceStep
<1> QED
  BY <1>5, <1>6, <1>8, FlagsKept

\* The invariant with the flags, in every reachable state.
THEOREM ElevationInvariant == Spec => []ElevationInv
<1>1. Init => ElevationInv
  BY CountInvInit, ElevationInit DEF ElevationInv
<1>2. ElevationInv /\ [Next]_fdirVars => ElevationInv'
  BY ElevationNext
<1> QED
  BY <1>1, <1>2, PTL DEF Spec

\* Types of the fault service: no difference of counters falls below zero.
THEOREM TypeCorrect == Spec => []TypeOK
<1>1. ElevationInv => TypeOK
  BY DEF ElevationInv, CountInv, NumberTypes, FlagTypes, TypeOK
<1> QED
  BY <1>1, ElevationInvariant, PTL

\* A critical class is elevated exactly while its count is at its limit or above,
\* for every policy.
THEOREM ElevatedExactly == Spec => []ElevatedAtLimit
<1>1. ElevationInv => ElevatedAtLimit
  BY DEF ElevationInv
<1> QED
  BY <1>1, ElevationInvariant, PTL

=============================================================================
