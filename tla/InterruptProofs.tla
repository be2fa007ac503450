-------------------------- MODULE InterruptProofs --------------------------
(***************************************************************************)
(* What an interrupt handler and the loop it preempts owe each other: the  *)
(* executive (ExecTick) for every length of the major cycle and counter    *)
(* width, and the event queue (IrqQueue) for every depth and every width   *)
(* of the indices and of the stamps; both for every number of interrupts.  *)
(*                                                                         *)
(* In both the handler and the loop share residues.  The invariants tie    *)
(* each residue to the unbounded count it stands for; what the loop        *)
(* computes by unsigned subtraction is then the true difference, because   *)
(* it stays below one wrap.                                                *)
(***************************************************************************)
EXTENDS ExecTick, IrqQueue, ModularArithmetic, SequenceTheorems

-----------------------------------------------------------------------------
(* The executive. *)

\* What the counters stand for, whichever step of the loop an interrupt hits.
CounterInv ==
    /\ elapsed <= now
    /\ now - elapsed < CounterModulus
    /\ isrTicks = now % CounterModulus
    /\ consumed = elapsed % CounterModulus
    /\ isrMajors = (now \div MinorPerMajor) % CounterModulus
    /\ isrPosition = now % MinorPerMajor
    /\ slot = elapsed % MinorPerMajor
    /\ elapsed = executed + overrunLost + discarded

TickInv == CountTypes /\ CounterInv

\* The two flags and the program counter: Boolean facts kept apart from the
\* arithmetic ones, whose proofs need other provers.
LEMMA FlagTypesNext == FlagTypes /\ [ExecNext]_execVars => FlagTypes'
<1> SUFFICES ASSUME FlagTypes, [ExecNext]_execVars PROVE FlagTypes'
  OBVIOUS
<1> USE DEF FlagTypes, isrVars, statVars, majorVars, tickVars, ghostVars
<1>1. CASE Tick
  BY <1>1 DEF Tick
<1>2. CASE CollectTicks
  BY <1>2 DEF CollectTicks
<1>3. CASE CollectMajors
  BY <1>3 DEF CollectMajors
<1>4. CASE ResyncTicks
  BY <1>4 DEF ResyncTicks
<1>5. CASE ResyncMajors
  BY <1>5 DEF ResyncMajors
<1>6. CASE FinishBody
  BY <1>6 DEF FinishBody
<1>7. CASE WaitForInterrupt \/ UNCHANGED execVars
  BY <1>7 DEF WaitForInterrupt, execVars
<1> QED
  BY <1>1, <1>2, <1>3, <1>4, <1>5, <1>6, <1>7 DEF ExecNext, Loop

USE MinorPerMajorAssumption, CounterAssumption, MaxTicksAssumption

\* Initially every count is zero.
LEMMA TickInvInit == ExecInit => TickInv
<1> SUFFICES ASSUME ExecInit PROVE TickInv
  OBVIOUS
<1>1. 0 % CounterModulus = 0 /\ 0 % MinorPerMajor = 0 /\ 0 \div MinorPerMajor = 0
  BY SMT
<1>2. CountTypes
  BY DEF ExecInit, CountTypes
<1>3. CounterInv
  BY <1>1, SMT DEF ExecInit, CounterInv
<1> QED
  BY <1>2, <1>3 DEF TickInv

\* Under the invariant the loop's subtraction yields the true lag.
LEMMA PendingIsLag == TickInv => Pending = now - elapsed
<1> SUFFICES ASSUME TickInv PROVE Pending = now - elapsed
  OBVIOUS
<1>1. now \in Int /\ elapsed \in Int /\ elapsed <= now /\ now - elapsed < CounterModulus
  BY DEF TickInv, CountTypes, CounterInv
<1>2. ((now % CounterModulus) - (elapsed % CounterModulus)) % CounterModulus = now - elapsed
  BY <1>1, ModDiff
<1> QED
  BY <1>2 DEF TickInv, CounterInv, Pending, Diff

\* An interrupt advances every residue with its count.
LEMMA TickStep == TickInv /\ Tick => TickInv'
<1> SUFFICES ASSUME TickInv, Tick PROVE TickInv'
  OBVIOUS
<1> DEFINE m == now \div MinorPerMajor
<1>0. /\ isrTicks = now % CounterModulus
      /\ isrPosition = now % MinorPerMajor
      /\ isrMajors = m % CounterModulus /\ isrMajors \in 0 .. CounterModulus - 1
  BY DEF TickInv, CountTypes, CounterInv
<1>1. now \in Int /\ now + 1 \in Int /\ 1 \in Int /\ CounterModulus \in Nat \ {0}
  BY DEF TickInv, CountTypes
<1>2. now' = now + 1 /\ now' \in Nat
  BY DEF Tick, TickInv, CountTypes
<1>3. isrTicks' = now' % CounterModulus /\ isrTicks' \in 0 .. CounterModulus - 1
  <2>1. ((now % CounterModulus) + 1) % CounterModulus = (now + 1) % CounterModulus
    BY <1>1, ModAdd
  <2>2. (now + 1) % CounterModulus \in 0 .. CounterModulus - 1
    BY <1>1, DivMod
  <2> QED
    BY <2>1, <2>2, <1>0, <1>2 DEF Tick, Wrap
<1>4. m \in Int /\ m + 1 \in Int
  BY <1>1, DivMod
<1>5. ((m % CounterModulus) + 1) % CounterModulus = (m + 1) % CounterModulus
  BY <1>4, ModAdd
<1>6. /\ isrPosition' = (now + 1) % MinorPerMajor
      /\ isrPosition' \in 0 .. MinorPerMajor - 1
      /\ isrMajors' = ((now + 1) \div MinorPerMajor) % CounterModulus
      /\ isrMajors' \in 0 .. CounterModulus - 1
  <2>1. (now + 1) % MinorPerMajor \in 0 .. MinorPerMajor - 1
    BY <1>1, DivMod
  <2>2. now % MinorPerMajor \in 0 .. MinorPerMajor - 1
    BY <1>1, DivMod
  <2>3. /\ (now % MinorPerMajor) + 1 >= MinorPerMajor =>
              (now + 1) % MinorPerMajor = 0 /\ (now + 1) \div MinorPerMajor = m + 1
        /\ (now % MinorPerMajor) + 1 < MinorPerMajor =>
              /\ (now + 1) % MinorPerMajor = (now % MinorPerMajor) + 1
              /\ (now + 1) \div MinorPerMajor = m
    BY <1>1, ModStep
  <2>4. (m + 1) % CounterModulus \in 0 .. CounterModulus - 1
    BY <1>4, DivMod
  <2> HIDE DEF m
  <2>5. CASE isrPosition + 1 >= MinorPerMajor
    <3>1. isrPosition' = 0 /\ isrMajors' = (m + 1) % CounterModulus
      BY <2>5, <1>0, <1>5 DEF Tick, Wrap
    <3> QED
      BY <3>1, <2>5, <2>1, <2>3, <2>4, <1>0
  <2>6. CASE ~(isrPosition + 1 >= MinorPerMajor)
    <3>1. isrPosition' = isrPosition + 1 /\ isrMajors' = isrMajors
      BY <2>6 DEF Tick
    <3>2. isrPosition + 1 < MinorPerMajor
      BY <2>6, <2>2, <1>0
    <3> QED
      BY <3>1, <3>2, <2>1, <2>3, <1>0
  <2> QED
    BY <2>5, <2>6
<1>7. elapsed' <= now' /\ now' - elapsed' < CounterModulus
  BY <1>2, SMT DEF Tick, LagRepresentable, tickVars, TickInv, CountTypes, CounterInv
<1> HIDE DEF m
<1>8. CountTypes'
  BY <1>2, <1>3, <1>6 DEF Tick, TickInv, CountTypes, statVars, majorVars, tickVars
<1>9. CounterInv'
  BY <1>2, <1>3, <1>6, <1>7
     DEF Tick, TickInv, CounterInv, statVars, majorVars, tickVars
<1> QED
  BY <1>8, <1>9 DEF TickInv

\* Taking all pending ticks at once leaves no lag and moves the slot with them.
LEMMA AdvanceStep ==
  ASSUME TickInv, Advance(Pending), consumed' = isrTicks, UNCHANGED isrVars
  PROVE  /\ elapsed' = now' /\ elapsed' \in Nat
         /\ slot' = elapsed' % MinorPerMajor /\ slot' \in 0 .. MinorPerMajor - 1
         /\ consumed' = elapsed' % CounterModulus /\ consumed' \in 0 .. CounterModulus - 1
         /\ Pending = now - elapsed /\ Pending \in Nat
<1>1. Pending = now - elapsed
  BY PendingIsLag
<1>2. now \in Nat /\ elapsed \in Nat /\ elapsed <= now /\ now - elapsed \in Nat
  BY SMT DEF TickInv, CountTypes, CounterInv
<1>3. elapsed' = now /\ now' = now
  BY <1>1, <1>2, SMT DEF Advance, isrVars
<1>4. slot' = now % MinorPerMajor
  <2>1. ((elapsed % MinorPerMajor) + (now - elapsed)) % MinorPerMajor
          = (elapsed + (now - elapsed)) % MinorPerMajor
    <3>1. elapsed \in Int /\ now - elapsed \in Int
      BY <1>2
    <3> QED
      BY <3>1, ModAdd
  <2>2. elapsed + (now - elapsed) = now
    BY <1>2, SMT
  <2> QED
    BY <2>1, <2>2, <1>1 DEF TickInv, CounterInv, Advance, SlotAfter
<1>5. now % MinorPerMajor \in 0 .. MinorPerMajor - 1
  BY <1>2, DivMod
<1> QED
  BY <1>1, <1>2, <1>3, <1>4, <1>5 DEF TickInv, CountTypes, CounterInv, isrVars

\* The wait accounts for every pending tick: one is executed, the others lost.
LEMMA CollectTicksStep == TickInv /\ CollectTicks => TickInv'
<1> SUFFICES ASSUME TickInv, CollectTicks PROVE TickInv'
  OBVIOUS
<1>1. Pending = now - elapsed /\ Pending \in Nat
  BY AdvanceStep DEF CollectTicks
<1>2. /\ elapsed' = now' /\ elapsed' \in Nat
      /\ slot' = elapsed' % MinorPerMajor /\ slot' \in 0 .. MinorPerMajor - 1
      /\ consumed' = elapsed' % CounterModulus /\ consumed' \in 0 .. CounterModulus - 1
  BY AdvanceStep DEF CollectTicks
<1>3. /\ overrunLost' = overrunLost + (Pending - 1) /\ overrunLost' \in Nat
      /\ overrunEvents' \in Nat /\ overrunWorst' \in Nat
      /\ executed' = executed + 1 /\ executed' \in Nat
  BY <1>1, SMT DEF CollectTicks, TickInv, CountTypes
<1>4. elapsed' = executed' + overrunLost' + discarded'
  BY <1>1, <1>2, <1>3, SMT
     DEF CollectTicks, TickInv, CountTypes, CounterInv, isrVars
<1>5. CountTypes'
  BY <1>2, <1>3 DEF CollectTicks, TickInv, CountTypes, isrVars, majorVars
<1>6. CounterInv'
  BY <1>2, <1>4, SMT DEF CollectTicks, TickInv, CountTypes, CounterInv, isrVars
<1> QED
  BY <1>5, <1>6 DEF TickInv

\* The resync accounts for every pending tick as discarded.
LEMMA ResyncTicksStep == TickInv /\ ResyncTicks => TickInv'
<1> SUFFICES ASSUME TickInv, ResyncTicks PROVE TickInv'
  OBVIOUS
<1>1. Pending = now - elapsed /\ Pending \in Nat
  BY AdvanceStep DEF ResyncTicks
<1>2. /\ elapsed' = now' /\ elapsed' \in Nat
      /\ slot' = elapsed' % MinorPerMajor /\ slot' \in 0 .. MinorPerMajor - 1
      /\ consumed' = elapsed' % CounterModulus /\ consumed' \in 0 .. CounterModulus - 1
  BY AdvanceStep DEF ResyncTicks
<1>3. discarded' = discarded + Pending /\ discarded' \in Nat
  BY <1>1, SMT DEF ResyncTicks, TickInv, CountTypes
<1>4. elapsed' = executed' + overrunLost' + discarded'
  BY <1>1, <1>2, <1>3, SMT
     DEF ResyncTicks, TickInv, CountTypes, CounterInv, isrVars, statVars
<1>5. flaggedUpTo' \in Nat
  <2>1. now \in Nat
    BY DEF TickInv, CountTypes
  <2>2. now \div MinorPerMajor \in Nat
    BY <2>1, DivMod, SMT
  <2> QED
    BY <2>2 DEF ResyncTicks
<1>6. CountTypes'
  BY <1>2, <1>3, <1>5 DEF ResyncTicks, TickInv, CountTypes, isrVars, statVars
<1>7. CounterInv'
  BY <1>2, <1>4, SMT
     DEF ResyncTicks, TickInv, CountTypes, CounterInv, isrVars, statVars
<1> QED
  BY <1>6, <1>7 DEF TickInv

\* The steps that touch no tick count.
LEMMA MajorStep ==
  TickInv /\ (CollectMajors \/ ResyncMajors \/ FinishBody \/ WaitForInterrupt
              \/ UNCHANGED execVars) => TickInv'
<1> SUFFICES ASSUME TickInv,
                    CollectMajors \/ ResyncMajors \/ FinishBody
                    \/ WaitForInterrupt \/ UNCHANGED execVars
             PROVE  TickInv'
  OBVIOUS
<1>0. now \div MinorPerMajor \in Nat
  <2>1. now \in Nat
    BY DEF TickInv, CountTypes
  <2> QED
    BY <2>1, DivMod, SMT
<1> USE DEF TickInv, CountTypes, CounterInv, isrVars, statVars, tickVars, ghostVars
<1>1. CASE CollectMajors
  <2>1. /\ consumedMajors' \in 0 .. CounterModulus - 1
        /\ majorCycles' \in Nat /\ flaggedUpTo' \in Nat
    BY <1>0, <1>1 DEF CollectMajors, majorVars
  <2> QED
    BY <1>1, <2>1 DEF CollectMajors
<1>2. CASE ResyncMajors
  BY <1>2 DEF ResyncMajors
<1>3. CASE FinishBody
  BY <1>3 DEF FinishBody
<1>4. CASE WaitForInterrupt \/ UNCHANGED execVars
  BY <1>4 DEF WaitForInterrupt, execVars, majorVars
<1> QED
  BY <1>1, <1>2, <1>3, <1>4

LEMMA TickInvNext == TickInv /\ [ExecNext]_execVars => TickInv'
  BY TickStep, CollectTicksStep, ResyncTicksStep, MajorStep DEF ExecNext, Loop

\* The inductive invariant holds of every behaviour.
THEOREM TickInvInvariant == ExecSpec => []TickInv
<1>1. ExecInit => TickInv
  BY TickInvInit
<1>2. TickInv /\ [ExecNext]_execVars => TickInv'
  BY TickInvNext
<1> QED
  BY <1>1, <1>2, PTL DEF ExecSpec

\* The state keeps its types: a slot is a slot and a counter fits its width.
THEOREM ExecTypeCorrect == ExecSpec => []ExecTypeOK
<1>1. ExecInit => FlagTypes
  BY DEF ExecInit, FlagTypes
<1>2. FlagTypes /\ [ExecNext]_execVars => FlagTypes'
  BY FlagTypesNext
<1>3. FlagTypes /\ TickInv => ExecTypeOK
  BY DEF ExecTypeOK, TickInv
<1> QED
  BY <1>1, <1>2, <1>3, TickInvInvariant, PTL DEF ExecSpec

\* No tick is lost or counted twice, whenever the interrupt lands and however
\* the counters wrap.
THEOREM TicksConserved == ExecSpec => []NoTickLost
<1>1. TickInv => NoTickLost
  <2> SUFFICES ASSUME TickInv PROVE NoTickLost
    OBVIOUS
  <2>1. Pending = now - elapsed
    BY PendingIsLag
  <2> QED
    BY <2>1, SMT DEF TickInv, CountTypes, CounterInv, NoTickLost
<1> QED
  BY <1>1, TickInvInvariant, PTL

\* exec_slot() stays phase locked to the interrupt across overruns and resync.
THEOREM PhaseLocked == ExecSpec => []SlotPhaseLocked
<1>1. TickInv => SlotPhaseLocked
  <2> SUFFICES ASSUME TickInv PROVE SlotPhaseLocked
    OBVIOUS
  <2>1. Pending = now - elapsed
    BY PendingIsLag
  <2>2. now \in Int /\ elapsed \in Int /\ now - elapsed \in Int
        /\ elapsed + (now - elapsed) = now
    BY SMT DEF TickInv, CountTypes
  <2>3. ((elapsed % MinorPerMajor) + (now - elapsed)) % MinorPerMajor
          = (elapsed + (now - elapsed)) % MinorPerMajor
    BY <2>2, ModAdd
  <2> QED
    BY <2>1, <2>2, <2>3 DEF TickInv, CounterInv, SlotPhaseLocked
<1> QED
  BY <1>1, TickInvInvariant, PTL


-----------------------------------------------------------------------------
(* Boundaries.  The loop looks at isrMajors once a cycle; between two looks  *)
(* lie at most two lags, hence fewer than a whole wrap of boundaries.        *)

\* An upper bound of the minor cycles that are not yet past a boundary the loop
\* was offered: after CollectTicks and until the look one lag more may be.
BoundaryLimit ==
    (MinorPerMajor * flaggedUpTo + MinorPerMajor)
      + (IF loopAt = "majors" THEN CounterModulus - 1 ELSE 0)

\* Which boundary the loop looked at last.
BoundaryInv ==
    /\ flaggedUpTo <= now \div MinorPerMajor
    /\ loopAt # "resync" => consumedMajors = flaggedUpTo % CounterModulus
    /\ loopAt = "resync" => flaggedUpTo = now \div MinorPerMajor
    /\ elapsed < BoundaryLimit

\* Once a tick fell inside the resync nothing is claimed any more.
BoundaryInvUnlessRaced == boundaryRaced \/ BoundaryInv

\* The boundary the interrupt is in is a number, and never moves back.
LEMMA BoundaryIsNumber ==
  ASSUME TickInv
  PROVE  /\ now \in Nat /\ elapsed \in Nat /\ flaggedUpTo \in Nat
         /\ now \div MinorPerMajor \in Nat
         /\ now < MinorPerMajor * (now \div MinorPerMajor) + MinorPerMajor
         /\ MinorPerMajor * (now \div MinorPerMajor) <= now
<1>1. now \in Nat /\ elapsed \in Nat /\ flaggedUpTo \in Nat
  BY DEF TickInv, CountTypes
<1> DEFINE d == now \div MinorPerMajor
           r == now % MinorPerMajor
<1>2. d \in Int /\ r \in 0 .. MinorPerMajor - 1 /\ now = MinorPerMajor * d + r
  BY <1>1, DivMod
<1>3. d \in Nat
  BY <1>1, DivMod, SMT
<1> HIDE DEF d, r
<1>4. MinorPerMajor * d \in Int
  BY <1>2, SMT
<1>5. now < MinorPerMajor * d + MinorPerMajor /\ MinorPerMajor * d <= now
  BY <1>2, <1>4, SMT
<1> QED
  BY <1>1, <1>3, <1>5 DEF d

\* Fewer than a whole wrap of boundaries lie between two looks, so a major
\* counter that did not move is one that stands for the same boundary.
LEMMA FewBoundariesUnseen ==
  ASSUME TickInv, BoundaryInv, loopAt = "majors"
  PROVE  (now \div MinorPerMajor) - flaggedUpTo < CounterModulus
<1> DEFINE d == now \div MinorPerMajor
           M == MinorPerMajor
           C == CounterModulus
           f == flaggedUpTo
<1>1. d \in Nat /\ f \in Nat /\ M * d <= now /\ now \in Nat /\ elapsed \in Nat
  BY BoundaryIsNumber
<1>2. M \in Nat /\ M >= 2 /\ C \in Nat /\ C >= 2
  OBVIOUS
<1>3. now - elapsed < C
  BY DEF TickInv, CounterInv
<1>4. elapsed < (M * f + M) + (C - 1)
  BY DEF BoundaryInv, BoundaryLimit
<1> HIDE DEF d, M, C, f
<1>5. SUFFICES ASSUME d >= f + C PROVE FALSE
  <2>1. d < f + C
    BY <1>1, <1>2, <1>5, SMT
  <2> QED
    BY <2>1, <1>1, <1>2, SMT DEF d, f, C
<1>6. M * d >= M * f + M * C
  <2>1. M * (d - (f + C)) >= 0
    BY <1>1, <1>2, <1>5, SMT
  <2> QED
    BY <2>1, <1>1, <1>2, SMT
<1>7. M * C >= M + C + C - 2
  <2>1. (M - 2) * (C - 1) >= 0
    BY <1>2, SMT
  <2>2. (M - 2) * (C - 1) = M * C - M - C - C + 2
    BY <1>2, SMT
  <2> QED
    BY <2>1, <2>2, <1>2, SMT
<1>8. M * f \in Int /\ M * C \in Int /\ M * d \in Int
  BY <1>1, <1>2, SMT
<1> QED
  BY <1>1, <1>2, <1>3, <1>4, <1>6, <1>7, <1>8, SMT

\* The boundary count of the interrupt never falls.
LEMMA BoundaryCountGrows ==
  ASSUME TickInv, TickInv', Tick
  PROVE  (now \div MinorPerMajor) <= (now \div MinorPerMajor)'
<1> DEFINE d == now \div MinorPerMajor
           e == now' \div MinorPerMajor
<1>1. d \in Nat /\ now \in Nat /\ MinorPerMajor * d <= now
  BY BoundaryIsNumber
<1>2. now' = now + 1
  BY DEF Tick
<1>3. e \in Int /\ now' \in Int
  BY <1>1, <1>2, DivMod, SMT
<1>4. now' < MinorPerMajor * e + MinorPerMajor
  <2>1. e <= e <=> now' < MinorPerMajor * e + MinorPerMajor
    BY <1>3, DivBelow
  <2> HIDE DEF e
  <2> QED
    BY <2>1, <1>3, SMT
<1> HIDE DEF d, e
<1>5. SUFFICES ASSUME ~(d <= e) PROVE FALSE
  BY DEF d, e
<1>6. MinorPerMajor * e + MinorPerMajor <= MinorPerMajor * d
  BY <1>1, <1>3, <1>5, MultiplesApart, SMT
<1>7. MinorPerMajor * e \in Int /\ MinorPerMajor * d \in Int
  BY <1>1, <1>3, SMT
<1> QED
  BY <1>1, <1>2, <1>4, <1>6, <1>7, SMT

\* An interrupt outside the resync leaves what the loop saw as it was.
LEMMA BoundaryTick ==
  ASSUME TickInv, TickInv', Tick, BoundaryInv, loopAt # "resync"
  PROVE  BoundaryInv'
<1>1. (now \div MinorPerMajor) <= (now \div MinorPerMajor)'
  BY BoundaryCountGrows
<1>2. UNCHANGED <<loopAt, flaggedUpTo, consumedMajors, elapsed>>
  BY DEF Tick, majorVars, tickVars
<1>3. flaggedUpTo <= (now \div MinorPerMajor)'
  <2>1. /\ flaggedUpTo \in Nat /\ now \div MinorPerMajor \in Nat
        /\ flaggedUpTo <= now \div MinorPerMajor
    BY BoundaryIsNumber DEF BoundaryInv
  <2>2. now' \in Int
    BY DEF TickInv, CountTypes
  <2>3. now' \div MinorPerMajor \in Int
    BY <2>2, DivMod
  <2> QED
    BY <2>1, <2>3, <1>1, SMT
<1>4. (elapsed < BoundaryLimit)'
  BY <1>2 DEF BoundaryInv, BoundaryLimit
<1> QED
  BY <1>2, <1>3, <1>4 DEF BoundaryInv

\* Every boundary passed by the elapsed time was offered, at any step but the
\* one between the two reads of the wait.
LEMMA BoundaryPassed ==
  ASSUME TickInv, BoundaryInv, loopAt # "majors"
  PROVE  elapsed \div MinorPerMajor <= flaggedUpTo
<1>1. elapsed \in Int /\ flaggedUpTo \in Int
  BY DEF TickInv, CountTypes
<1>2. elapsed < MinorPerMajor * flaggedUpTo + MinorPerMajor
  BY <1>1, SMT DEF BoundaryInv, BoundaryLimit
<1> QED
  BY <1>1, <1>2, DivBelow

\* Taking the ticks may put the elapsed time one lag past the last look.
LEMMA BoundaryCollectTicks ==
  ASSUME TickInv, CollectTicks, BoundaryInv
  PROVE  BoundaryInv'
<1>1. elapsed' = now /\ now' = now
  BY AdvanceStep DEF CollectTicks, isrVars
<1>2. /\ loopAt = "wait" /\ loopAt' = "majors"
      /\ UNCHANGED <<flaggedUpTo, consumedMajors>>
  BY DEF CollectTicks, majorVars
<1>3. (elapsed < BoundaryLimit)'
  <2> DEFINE p == MinorPerMajor * flaggedUpTo + MinorPerMajor
  <2>1. now \in Nat /\ elapsed \in Nat /\ flaggedUpTo \in Nat
    BY BoundaryIsNumber
  <2>2. now - elapsed < CounterModulus
    BY DEF TickInv, CounterInv
  <2>3. elapsed < p /\ p \in Int
    BY <1>2, <2>1, SMT DEF BoundaryInv, BoundaryLimit
  <2>4. BoundaryLimit' = p + (CounterModulus - 1)
    BY <1>2 DEF BoundaryLimit
  <2> HIDE DEF p
  <2> QED
    BY <2>1, <2>2, <2>3, <2>4, <1>1, SMT
<1> QED
  BY <1>1, <1>2, <1>3 DEF BoundaryInv

\* The look offers whatever boundaries were passed since the last one.
LEMMA BoundaryCollectMajors ==
  ASSUME TickInv, CollectMajors, BoundaryInv
  PROVE  BoundaryInv'
<1> DEFINE d == now \div MinorPerMajor
<1>1. /\ now \in Nat /\ elapsed \in Nat /\ flaggedUpTo \in Nat /\ d \in Nat
      /\ now < MinorPerMajor * d + MinorPerMajor
  BY BoundaryIsNumber
<1>2. isrMajors = d % CounterModulus /\ elapsed <= now
  BY DEF TickInv, CounterInv
<1>3. loopAt = "majors" /\ loopAt' \notin {"majors", "resync"}
  BY DEF CollectMajors
<1>4. now' = now /\ elapsed' = elapsed
  BY DEF CollectMajors, isrVars, tickVars
<1>5. flaggedUpTo' = d /\ consumedMajors' = d % CounterModulus
  <2>1. CASE MajorSeen
    BY <2>1, <1>2 DEF CollectMajors
  <2>2. CASE ~MajorSeen
    <3>1. UNCHANGED <<flaggedUpTo, consumedMajors>>
      BY <2>2 DEF CollectMajors, majorVars
    <3>2. consumedMajors = flaggedUpTo % CounterModulus /\ flaggedUpTo <= d
      BY <1>3 DEF BoundaryInv
    <3>3. d - flaggedUpTo < CounterModulus
      BY <1>3, FewBoundariesUnseen
    <3>4. d % CounterModulus = flaggedUpTo % CounterModulus
      BY <2>2, <3>2, <1>2 DEF MajorSeen
    <3>5. d \in Int /\ flaggedUpTo \in Int /\ CounterModulus \in Nat \ {0}
      BY <1>1
    <3>6. d = flaggedUpTo
      BY <3>2, <3>3, <3>4, <3>5, ModEqual
    <3> QED
      BY <3>1, <3>2, <3>6
  <2> QED
    BY <2>1, <2>2
<1>6. (elapsed < BoundaryLimit)'
  <2>1. BoundaryLimit' = (MinorPerMajor * d + MinorPerMajor) + 0
    BY <1>3, <1>5 DEF BoundaryLimit
  <2>2. MinorPerMajor * d + MinorPerMajor \in Int
    BY <1>1, SMT
  <2> HIDE DEF d
  <2> QED
    BY <2>1, <2>2, <1>1, <1>2, <1>4, SMT
<1>7. (now \div MinorPerMajor)' = d
  BY <1>4
<1> HIDE DEF d
<1>8. d <= d
  BY <1>1, SMT
<1> QED
  BY <1>3, <1>5, <1>6, <1>7, <1>8 DEF BoundaryInv

\* The resync takes the ticks, and the boundaries, as they are.
LEMMA BoundaryResyncTicks ==
  ASSUME TickInv, ResyncTicks
  PROVE  BoundaryInv'
<1> DEFINE d == now \div MinorPerMajor
<1>1. now \in Nat /\ d \in Nat /\ now < MinorPerMajor * d + MinorPerMajor
  BY BoundaryIsNumber
<1>2. elapsed' = now /\ now' = now
  BY AdvanceStep DEF ResyncTicks, isrVars
<1>3. loopAt' = "resync" /\ flaggedUpTo' = d
  BY DEF ResyncTicks
<1>4. (elapsed < BoundaryLimit)'
  <2>1. BoundaryLimit' = (MinorPerMajor * d + MinorPerMajor) + 0
    BY <1>3 DEF BoundaryLimit
  <2>2. MinorPerMajor * d + MinorPerMajor \in Int
    BY <1>1, SMT
  <2> HIDE DEF d
  <2> QED
    BY <2>1, <2>2, <1>1, <1>2, SMT
<1>5. (now \div MinorPerMajor)' = d
  BY <1>2
<1> HIDE DEF d
<1>6. d <= d
  BY <1>1, SMT
<1> QED
  BY <1>3, <1>4, <1>5, <1>6 DEF BoundaryInv

\* When no tick fell between the two reads of the resync, the second read is
\* of the boundary the first one took.
LEMMA BoundaryResyncMajors ==
  ASSUME TickInv, ResyncMajors, BoundaryInv
  PROVE  BoundaryInv'
<1>1. /\ loopAt = "resync" /\ loopAt' = "body"
      /\ UNCHANGED <<now, elapsed, flaggedUpTo>> /\ consumedMajors' = isrMajors
  BY DEF ResyncMajors, isrVars, tickVars
<1>2. isrMajors = flaggedUpTo % CounterModulus
  BY <1>1 DEF TickInv, CounterInv, BoundaryInv
<1>3. BoundaryLimit' = BoundaryLimit
  BY <1>1 DEF BoundaryLimit
<1> QED
  BY <1>1, <1>2, <1>3 DEF BoundaryInv

\* The other steps of the loop touch nothing of it.
LEMMA BoundaryRest ==
  ASSUME TickInv, WaitForInterrupt \/ FinishBody \/ UNCHANGED execVars, BoundaryInv
  PROVE  BoundaryInv'
<1>1. /\ UNCHANGED <<now, elapsed, flaggedUpTo, consumedMajors>>
      /\ (loopAt' = loopAt \/ (loopAt = "body" /\ loopAt' = "wait"))
  <2>1. CASE FinishBody
    BY <2>1 DEF FinishBody, isrVars, tickVars
  <2>2. CASE WaitForInterrupt \/ UNCHANGED execVars
    BY <2>2 DEF WaitForInterrupt, execVars, isrVars, tickVars, majorVars
  <2> QED
    BY <2>1, <2>2
<1>2. BoundaryLimit' = BoundaryLimit
  BY <1>1 DEF BoundaryLimit
<1> QED
  BY <1>1, <1>2 DEF BoundaryInv

\* One step, with the claim dropped as soon as the resync is raced.
LEMMA BoundaryInvNext ==
  ASSUME TickInv, TickInv', FlagTypes, [ExecNext]_execVars, BoundaryInvUnlessRaced
  PROVE  BoundaryInvUnlessRaced'
<1>1. CASE Tick
  <2>1. boundaryRaced \/ loopAt = "resync" => boundaryRaced'
    BY <1>1 DEF Tick
  <2>2. ~boundaryRaced /\ loopAt # "resync" => BoundaryInv'
    BY <1>1, BoundaryTick DEF BoundaryInvUnlessRaced
  <2> QED
    BY <2>1, <2>2 DEF BoundaryInvUnlessRaced
<1>2. CASE Loop \/ UNCHANGED execVars
  <2>1. boundaryRaced' = boundaryRaced
    BY <1>2 DEF Loop, WaitForInterrupt, CollectTicks, CollectMajors, ResyncTicks,
                ResyncMajors, FinishBody, execVars, ghostVars
  <2>2. BoundaryInv => BoundaryInv'
    BY <1>2, BoundaryCollectTicks, BoundaryCollectMajors, BoundaryResyncTicks,
       BoundaryResyncMajors, BoundaryRest DEF Loop
  <2> QED
    BY <2>1, <2>2 DEF BoundaryInvUnlessRaced
<1> QED
  BY <1>1, <1>2 DEF ExecNext

\* Every boundary the minor-cycle count has passed reached the loop or was
\* discarded by the resync, unless a tick fell inside the resync itself: no
\* overrun, of however many boundaries, and no wrap hides one.
THEOREM BoundariesReachLoop == ExecSpec => []BoundaryReachesLoop
<1>1. ExecInit => BoundaryInvUnlessRaced
  <2> SUFFICES ASSUME ExecInit PROVE BoundaryInv
    BY DEF BoundaryInvUnlessRaced
  <2>1. 0 % CounterModulus = 0 /\ 0 \div MinorPerMajor = 0
    BY SMT
  <2> QED
    BY <2>1, SMT DEF ExecInit, BoundaryInv, BoundaryLimit
<1>2. ExecInit => FlagTypes
  BY DEF ExecInit, FlagTypes
<1>3. FlagTypes /\ [ExecNext]_execVars => FlagTypes'
  BY FlagTypesNext
<1>4. TickInv /\ TickInv' /\ FlagTypes /\ [ExecNext]_execVars
      /\ BoundaryInvUnlessRaced => BoundaryInvUnlessRaced'
  BY BoundaryInvNext
<1>5. TickInv /\ BoundaryInvUnlessRaced => BoundaryReachesLoop
  BY BoundaryPassed DEF BoundaryInvUnlessRaced, BoundaryReachesLoop
<1> QED
  BY <1>1, <1>2, <1>3, <1>4, <1>5, TickInvInvariant, PTL DEF ExecSpec

-----------------------------------------------------------------------------
(* The event queue.  At most Depth events lie between head and tail, and     *)
(* Depth divides the wrap, so different waiting events have different slots: *)
(* the handler never writes the slot being copied.                           *)

\* Events that entered the queue, and events that left it.
AcceptedCount == taken - dropped
TakenOut      == Len(delivered)

\* What the indices and the stamp stand for.
IndexInv ==
    /\ head = AcceptedCount % Modulus
    /\ tail = TakenOut % Modulus
    /\ TakenOut <= AcceptedCount /\ AcceptedCount - TakenOut <= Depth
    /\ pc # "idle" => TakenOut < AcceptedCount
    /\ seq = taken % SeqModulus

\* What the loop has copied of the event it is taking is what the slot holds.
CopyInv ==
    /\ pc \in {"seq", "release"} => out.datum = q[SlotOf(tail)].datum
    /\ pc = "release" => out.seq = q[SlotOf(tail)].seq

QueueInv == TypeOK /\ IndexInv /\ CopyInv

USE DataAssumption, DepthAssumption, ModulusAssumption, SeqAssumption, BoundAssumption

-----------------------------------------------------------------------------
\* The counts behind the indices are numbers.
LEMMA CountsAreNumbers ==
    ASSUME TypeOK
    PROVE  AcceptedCount \in Int /\ TakenOut \in Nat
<1>1. taken \in Nat /\ dropped \in Nat /\ delivered \in Seq(Event)
  BY DEF TypeOK
<1> QED
  BY <1>1 DEF AcceptedCount, TakenOut

\* The unsigned difference of two indices less than a wrap apart is their lag.
LEMMA LagIsExact ==
    ASSUME NEW h \in Int, NEW t \in Int, t <= h, h - t <= Depth
    PROVE  ((h % Modulus) - (t % Modulus)) % Modulus = h - t /\ h - t \in 0 .. Depth
<1>1. Modulus \in Nat \ {0} /\ Depth \in Nat /\ Depth < Modulus
  BY DepthAssumption, ModulusAssumption
<1> HIDE ModulusAssumption
<1>2. h - t < Modulus /\ h - t \in 0 .. Depth
  BY <1>1, SMT
<1> QED
  BY <1>1, <1>2, ModDiff

\* The unsigned difference of the indices is the number of events waiting.
LEMMA UsedIsLag ==
    ASSUME TypeOK, IndexInv
    PROVE  Used = AcceptedCount - TakenOut /\ Used \in 0 .. Depth
<1>1. AcceptedCount \in Int /\ TakenOut \in Int
  BY CountsAreNumbers
<1>2. TakenOut <= AcceptedCount /\ AcceptedCount - TakenOut <= Depth
  BY DEF IndexInv
<1>3. ((AcceptedCount % Modulus) - (TakenOut % Modulus)) % Modulus
          = AcceptedCount - TakenOut /\ AcceptedCount - TakenOut \in 0 .. Depth
  BY <1>1, <1>2, LagIsExact
<1> QED
  BY <1>3 DEF IndexInv, Used

\* The same of the state a step leads to.
LEMMA UsedIsLagAfter ==
    ASSUME TypeOK', IndexInv'
    PROVE  Used' = AcceptedCount' - TakenOut' /\ Used' \in 0 .. Depth
<1>1. AcceptedCount' \in Int /\ TakenOut' \in Int
  <2>1. taken' \in Nat /\ dropped' \in Nat /\ delivered' \in Seq(Event)
    BY DEF TypeOK, Event
  <2> QED
    BY <2>1 DEF AcceptedCount, TakenOut
<1>2. TakenOut' <= AcceptedCount' /\ AcceptedCount' - TakenOut' <= Depth
  BY DEF IndexInv
<1>3. ((AcceptedCount' % Modulus) - (TakenOut' % Modulus)) % Modulus
          = AcceptedCount' - TakenOut' /\ AcceptedCount' - TakenOut' \in 0 .. Depth
  BY <1>1, <1>2, LagIsExact
<1> QED
  BY <1>3 DEF IndexInv, Used

\* Two events fewer than Depth apart lie in different slots.
LEMMA SlotsApart ==
    ASSUME NEW i \in Int, NEW j \in Int, i < j, j - i < Depth
    PROVE  SlotOf(i % Modulus) # SlotOf(j % Modulus)
<1>1. /\ Modulus \in Nat \ {0} /\ Depth \in Nat \ {0} /\ Modulus % Depth = 0
      /\ i <= j
  OBVIOUS
<1>2. SlotOf(i % Modulus) = i % Depth /\ SlotOf(j % Modulus) = j % Depth
  BY <1>1, ModMod DEF SlotOf
<1>3. ASSUME j % Depth = i % Depth PROVE FALSE
  <2>1. j = i
    BY <1>1, <1>3, ModEqual
  <2> QED
    BY <2>1
<1> QED
  BY <1>2, <1>3

\* Every index has a slot, and every step of an index or a stamp stays in its width.
LEMMA SlotInRange ==
    ASSUME NEW i \in Int
    PROVE  SlotOf(i) \in 0 .. Depth - 1
  BY DivMod DEF SlotOf

LEMMA StepsInRange ==
    ASSUME NEW i \in Int
    PROVE  (i + 1) % Modulus \in 0 .. Modulus - 1 /\ (i + 1) % SeqModulus \in 0 .. SeqModulus - 1
<1>1. i + 1 \in Int /\ Modulus \in Nat \ {0} /\ SeqModulus \in Nat \ {0}
  OBVIOUS
<1> QED
  BY <1>1, DivMod

-----------------------------------------------------------------------------
\* Initially the queue is empty.
LEMMA QueueInvInit == Init => QueueInv
<1> SUFFICES ASSUME Init PROVE QueueInv
  OBVIOUS
<1>1. 0 % Modulus = 0 /\ 0 % SeqModulus = 0
  BY SMT
<1>2. Blank \in Event
  BY DEF Blank, Event
<1>3. delivered \in Seq(Event) /\ Len(delivered) = 0
  BY DEF Init
<1>4. TypeOK
  BY <1>2, <1>3 DEF Init, TypeOK
<1>5. AcceptedCount = 0 /\ TakenOut = 0
  BY <1>3 DEF Init, AcceptedCount, TakenOut
<1>6. IndexInv
  BY <1>1, <1>5 DEF Init, IndexInv
<1>7. CopyInv
  BY DEF Init, CopyInv
<1> QED
  BY <1>4, <1>6, <1>7 DEF QueueInv

\* The handler publishes past everything that waits, or drops.
LEMMA InterruptStep ==
    ASSUME QueueInv, NEW d \in Data, Interrupt(d)
    PROVE  QueueInv'
<1> USE DEF QueueInv
<1>0. /\ taken' = taken + 1 /\ seq' = (seq + 1) % SeqModulus
      /\ UNCHANGED <<tail, pc, out, delivered>>
  BY DEF Interrupt, SeqAfter, loopVars
<1>1. /\ taken \in Nat /\ dropped \in Nat /\ seq \in 0 .. SeqModulus - 1
      /\ taken \in Int /\ TakenOut \in Int
      /\ head \in 0 .. Modulus - 1 /\ AcceptedCount \in Int /\ TakenOut \in Nat
      /\ SeqModulus \in Nat \ {0} /\ Modulus \in Nat \ {0}
  BY CountsAreNumbers DEF TypeOK
<1>2. TakenOut' = TakenOut
  BY <1>0 DEF TakenOut
<1>3. seq' = taken' % SeqModulus /\ seq' \in 0 .. SeqModulus - 1
  <2>1. ((taken % SeqModulus) + 1) % SeqModulus = (taken + 1) % SeqModulus
    BY <1>1, ModSucc
  <2> QED
    BY <1>0, <1>1, <2>1, StepsInRange DEF IndexInv
<1>4. Used = AcceptedCount - TakenOut
  BY UsedIsLag
<1>5. CASE Full
  <2>1. dropped' = dropped + 1 /\ UNCHANGED <<q, head>>
    BY <1>5 DEF Interrupt
  <2>2. AcceptedCount' = AcceptedCount
    BY <1>0, <1>1, <2>1 DEF AcceptedCount
  <2>3. TypeOK'
    BY <1>0, <1>1, <1>3, <2>1 DEF TypeOK
  <2>4. IndexInv'
    BY <1>0, <1>2, <1>3, <2>1, <2>2 DEF IndexInv
  <2>5. CopyInv'
    BY <1>0, <2>1 DEF CopyInv, SlotOf
  <2> QED
    BY <2>3, <2>4, <2>5
<1>6. CASE ~Full
  <2>1. /\ q' = [q EXCEPT ![SlotOf(head)] = [datum |-> d, seq |-> seq]]
        /\ head' = (head + 1) % Modulus /\ UNCHANGED dropped
    BY <1>6 DEF Interrupt
  <2>2. AcceptedCount' = AcceptedCount + 1
    BY <1>0, <1>1, <2>1 DEF AcceptedCount
  <2>3. AcceptedCount - TakenOut < Depth
    BY <1>1, <1>4, <1>6 DEF Full
  <2>4. [datum |-> d, seq |-> seq] \in Event
    BY <1>1 DEF Event
  <2>5. head' \in 0 .. Modulus - 1
    BY <1>1, <2>1, StepsInRange
  <2>6. TypeOK'
    <3>1. q' \in [0 .. Depth - 1 -> Event]
      BY <2>1, <2>4 DEF TypeOK
    <3>2. taken' \in Nat /\ dropped' \in Nat
      BY <1>0, <1>1, <2>1
    <3> QED
      BY <1>0, <1>3, <2>5, <3>1, <3>2 DEF TypeOK
  <2>7. IndexInv'
    <3>1. ((AcceptedCount % Modulus) + 1) % Modulus = (AcceptedCount + 1) % Modulus
      BY <1>1, ModSucc
    <3>2. head' = AcceptedCount' % Modulus
      BY <2>1, <2>2, <3>1 DEF IndexInv
    <3>3. TakenOut' <= AcceptedCount' /\ AcceptedCount' - TakenOut' <= Depth
          /\ (pc # "idle" => TakenOut' < AcceptedCount')
      BY <1>1, <1>2, <2>2, <2>3 DEF IndexInv
    <3> QED
      BY <1>0, <1>2, <1>3, <3>2, <3>3 DEF IndexInv
  <2>8. CopyInv'
    <3>1. CASE pc = "idle"
      BY <1>0, <3>1 DEF CopyInv
    <3>2. CASE pc # "idle"
      <4>1. TakenOut < AcceptedCount
        BY <3>2 DEF IndexInv
      <4>2. SlotOf(TakenOut % Modulus) # SlotOf(AcceptedCount % Modulus)
        BY <1>1, <2>3, <4>1, SlotsApart
      <4>3. tail \in Int
        BY DEF TypeOK
      <4>4. q'[SlotOf(tail)] = q[SlotOf(tail)]
        BY <2>1, <4>2, <4>3, SlotInRange DEF TypeOK, IndexInv
      <4>5. SlotOf(tail)' = SlotOf(tail)
        BY <1>0 DEF SlotOf
      <4> QED
        BY <1>0, <4>4, <4>5 DEF CopyInv
    <3> QED
      BY <3>1, <3>2
  <2> QED
    BY <2>6, <2>7, <2>8
<1> QED
  BY <1>5, <1>6

\* Copying changes nothing but the caller's event.
LEMMA CopyStep ==
    ASSUME QueueInv, TakeBegin \/ CopyDatum \/ CopySeq
    PROVE  QueueInv'
<1> USE DEF QueueInv
<1>0. UNCHANGED <<q, head, tail, taken, dropped, seq, delivered>>
  BY DEF TakeBegin, CopyDatum, CopySeq, handlerVars
<1>1. q[SlotOf(tail)] \in Event
  <2>1. tail \in Int /\ q \in [0 .. Depth - 1 -> Event]
    BY DEF TypeOK
  <2> QED
    BY <2>1, SlotInRange
<1>2. TypeOK'
  <2>1. out' \in Event /\ pc' \in {"idle", "datum", "seq", "release"}
    BY <1>1 DEF TakeBegin, CopyDatum, CopySeq, TypeOK, Event
  <2> QED
    BY <1>0, <2>1 DEF TypeOK
<1>3. IndexInv'
  <2>1. TakenOut < AcceptedCount
    <3>1. CASE TakeBegin
      <4>1. head # tail /\ AcceptedCount \in Int /\ TakenOut \in Nat
        BY <3>1, CountsAreNumbers DEF TakeBegin
      <4>2. AcceptedCount # TakenOut
        BY <4>1 DEF IndexInv
      <4> QED
        BY <4>1, <4>2 DEF IndexInv
    <3>2. CASE CopyDatum \/ CopySeq
      BY <3>2 DEF CopyDatum, CopySeq, IndexInv
    <3> QED
      BY <3>1, <3>2
  <2>2. AcceptedCount' = AcceptedCount /\ TakenOut' = TakenOut
    BY <1>0 DEF AcceptedCount, TakenOut
  <2> QED
    BY <1>0, <2>1, <2>2 DEF IndexInv
<1>4. CopyInv'
  <2>1. SlotOf(tail)' = SlotOf(tail) /\ q' = q
    BY <1>0 DEF SlotOf
  <2>2. out \in Event
    BY DEF TypeOK
  <2>3. CASE TakeBegin
    BY <2>3 DEF TakeBegin, CopyInv
  <2>4. CASE CopyDatum
    BY <2>1, <2>2, <2>4 DEF CopyDatum, CopyInv, Event
  <2>5. CASE CopySeq
    BY <2>1, <2>2, <2>5 DEF CopySeq, CopyInv, Event
  <2> QED
    BY <2>3, <2>4, <2>5
<1> QED
  BY <1>2, <1>3, <1>4

\* The release moves tail past one event, which the caller has.
LEMMA ReleaseStep ==
    ASSUME QueueInv, Release
    PROVE  QueueInv'
<1> USE DEF QueueInv
<1>0. /\ pc = "release" /\ pc' = "idle"
      /\ tail' = (tail + 1) % Modulus /\ delivered' = Append(delivered, out)
      /\ UNCHANGED <<q, head, taken, dropped, seq, out>>
  BY DEF Release, handlerVars
<1>1. /\ delivered \in Seq(Event) /\ out \in Event /\ tail \in Int
      /\ AcceptedCount \in Int /\ TakenOut \in Nat /\ TakenOut \in Int
      /\ Modulus \in Nat \ {0}
  BY CountsAreNumbers DEF TypeOK
<1>2. delivered' \in Seq(Event) /\ TakenOut' = TakenOut + 1
  BY <1>0, <1>1 DEF TakenOut
<1>3. AcceptedCount' = AcceptedCount
  BY <1>0 DEF AcceptedCount
<1>4. TypeOK'
  <2>1. tail' \in 0 .. Modulus - 1
    BY <1>0, <1>1, StepsInRange
  <2> QED
    BY <1>0, <1>2, <2>1 DEF TypeOK
<1>5. IndexInv'
  <2>1. ((TakenOut % Modulus) + 1) % Modulus = (TakenOut + 1) % Modulus
    BY <1>1, ModSucc
  <2>2. tail' = TakenOut' % Modulus
    BY <1>0, <1>2, <2>1 DEF IndexInv
  <2>3. TakenOut' <= AcceptedCount' /\ AcceptedCount' - TakenOut' <= Depth
    BY <1>0, <1>1, <1>2, <1>3 DEF IndexInv
  <2> QED
    BY <1>0, <1>3, <2>2, <2>3 DEF IndexInv
<1>6. CopyInv'
  BY <1>0 DEF CopyInv
<1> QED
  BY <1>4, <1>5, <1>6

\* Every step preserves the invariant.
LEMMA QueueInvNext == QueueInv /\ [Next]_vars => QueueInv'
<1> SUFFICES ASSUME QueueInv, [Next]_vars PROVE QueueInv'
  OBVIOUS
<1>1. CASE TakeNothing \/ UNCHANGED vars
  <2>1. UNCHANGED <<q, head, tail, taken, dropped, seq, pc, out, delivered>>
    BY <1>1 DEF TakeNothing, vars, handlerVars, loopVars
  <2> QED
    BY <2>1 DEF QueueInv, TypeOK, IndexInv, CopyInv, AcceptedCount, TakenOut, SlotOf
<1> QED
  BY <1>1, InterruptStep, CopyStep, ReleaseStep DEF Next, Consume

-----------------------------------------------------------------------------
\* The strengthened invariant of the queue holds in every reachable state.
THEOREM QueueInvariant == Spec => []QueueInv
<1>1. Init => QueueInv
  BY QueueInvInit
<1>2. QueueInv /\ [Next]_vars => QueueInv'
  BY QueueInvNext
<1> QED
  BY <1>1, <1>2, PTL DEF Spec

\* No index, stamp or event leaves its width or its type.
THEOREM TypeCorrect == Spec => []TypeOK
<1>1. QueueInv => TypeOK
  BY DEF QueueInv
<1> QED
  BY <1>1, QueueInvariant, PTL

\* Every interrupt is delivered, waiting or counted as dropped, for every depth
\* and width.
THEOREM EventsConserved == Spec => []InterruptsConserved
<1>1. QueueInv => InterruptsConserved
  <2> SUFFICES ASSUME QueueInv PROVE InterruptsConserved
    OBVIOUS
  <2>1. Used = AcceptedCount - TakenOut
    BY UsedIsLag DEF QueueInv
  <2>2. taken \in Nat /\ dropped \in Nat /\ TakenOut \in Nat
    BY CountsAreNumbers DEF QueueInv, TypeOK
  <2> QED
    BY <2>1, <2>2 DEF InterruptsConserved, AcceptedCount, TakenOut
<1> QED
  BY <1>1, QueueInvariant, PTL

\* The event handed to the caller is one event, for every depth that divides the
\* wrap of the indices.
THEOREM EventsWhole == Spec => []NoTornEvent
<1>1. QueueInv => NoTornEvent
  <2> SUFFICES ASSUME QueueInv, pc = "release" PROVE out = q[SlotOf(tail)]
    BY DEF NoTornEvent
  <2>1. tail \in Int /\ q \in [0 .. Depth - 1 -> Event] /\ out \in Event
    BY DEF QueueInv, TypeOK
  <2>2. q[SlotOf(tail)] \in Event
    BY <2>1, SlotInRange
  <2>3. out.datum = q[SlotOf(tail)].datum /\ out.seq = q[SlotOf(tail)].seq
    BY DEF QueueInv, CopyInv
  <2> QED
    BY <2>1, <2>2, <2>3 DEF Event
<1> QED
  BY <1>1, QueueInvariant, PTL

-----------------------------------------------------------------------------
(* The queue of events behind the indices is the abstract one. *)

\* The slot k places behind tail is that of the event k after those delivered.
LEMMA SlotBehindTail ==
    ASSUME TypeOK, IndexInv, NEW k \in Int
    PROVE  SlotOf(tail + k) = SlotOf((TakenOut + k) % Modulus)
<1>1. /\ TakenOut \in Int /\ tail = TakenOut % Modulus
      /\ Modulus \in Nat \ {0} /\ Depth \in Nat \ {0} /\ Modulus % Depth = 0
  BY CountsAreNumbers DEF IndexInv
<1>2. tail + k \in Int
  BY <1>1 DEF TypeOK
<1>3. ((tail + k) % Modulus) % Depth = (tail + k) % Depth
  BY <1>1, <1>2, ModMod
<1>4. (tail + k) % Modulus = (TakenOut + k) % Modulus
  BY <1>1, ModAdd
<1> QED
  BY <1>3, <1>4 DEF SlotOf

\* What waits is a sequence of as many events as the indices are apart.
LEMMA WaitingIsSeq ==
    ASSUME TypeOK, IndexInv
    PROVE  Waiting \in Seq(Event) /\ Len(Waiting) = Used
<1>1. Used \in Nat
  BY UsedIsLag
<1>2. ASSUME NEW i \in 1 .. Used
      PROVE  q[SlotOf(tail + i - 1)] \in Event
  <2>1. tail + i - 1 \in Int /\ q \in [0 .. Depth - 1 -> Event]
    BY <1>1 DEF TypeOK
  <2> QED
    BY <2>1, SlotInRange
<1>3. Waiting \in [1 .. Used -> Event]
  BY <1>2 DEF Waiting
<1> QED
  BY <1>1, <1>3, LenProperties DEF Waiting

\* An interrupt offers an event to the abstract queue, which takes or refuses it.
LEMMA InterruptOffers ==
    ASSUME QueueInv, QueueInv', NEW d \in Data, Interrupt(d)
    PROVE  Abstract!Offer(d)
<1> USE DEF QueueInv
<1> DEFINE e == [datum |-> d, seq |-> seq]
<1>0. taken' = taken + 1 /\ UNCHANGED <<tail, delivered>>
  BY DEF Interrupt, loopVars
<1>1. /\ Used = AcceptedCount - TakenOut /\ Used \in 0 .. Depth
      /\ Used' = AcceptedCount' - TakenOut' /\ Used' \in 0 .. Depth
      /\ AcceptedCount \in Int /\ TakenOut \in Int
  BY UsedIsLag, UsedIsLagAfter, CountsAreNumbers
<1>2. Waiting \in Seq(Event) /\ Len(Waiting) = Used
  BY WaitingIsSeq
<1>3. seq = taken % SeqModulus
  BY DEF IndexInv
<1>4. taken \in Nat /\ dropped \in Nat
  BY DEF TypeOK
<1>5. CASE Full
  <2>1. dropped' = dropped + 1 /\ UNCHANGED <<q, head>>
    BY <1>5 DEF Interrupt
  <2>2. Waiting' = Waiting
    BY <1>0, <2>1 DEF Waiting, Used, SlotOf
  <2>3. ~(Len(Waiting) < Depth)
    BY <1>1, <1>2, <1>5 DEF Full
  <2> QED
    BY <1>0, <2>1, <2>2, <2>3 DEF Abstract!Offer
<1>6. CASE ~Full
  <2>1. /\ q' = [q EXCEPT ![SlotOf(head)] = e] /\ UNCHANGED dropped
    BY <1>6 DEF Interrupt
  <2>2. Used' = Used + 1 /\ Used < Depth
    BY <1>0, <1>1, <1>4, <1>6, <2>1 DEF AcceptedCount, TakenOut, Full
  <2>3. head = AcceptedCount % Modulus /\ head \in Int /\ q \in [0 .. Depth - 1 -> Event]
    BY DEF IndexInv, TypeOK
  <2>4. SlotOf(head) \in 0 .. Depth - 1
    BY <2>3, SlotInRange
  <2>5. ASSUME NEW i \in 1 .. Used
        PROVE  q'[SlotOf(tail' + i - 1)] = q[SlotOf(tail + i - 1)]
    <3>1. /\ i - 1 \in Int /\ tail + i - 1 = tail + (i - 1)
          /\ TakenOut + (i - 1) \in Int
          /\ TakenOut + (i - 1) < AcceptedCount
          /\ AcceptedCount - (TakenOut + (i - 1)) < Depth
      BY <1>1, <2>2 DEF TypeOK
    <3>2. SlotOf(tail + i - 1) = SlotOf((TakenOut + (i - 1)) % Modulus)
      BY <3>1, SlotBehindTail
    <3>3. SlotOf((TakenOut + (i - 1)) % Modulus) # SlotOf(AcceptedCount % Modulus)
      BY <1>1, <3>1, SlotsApart
    <3> QED
      BY <1>0, <2>1, <2>3, <3>2, <3>3
  <2>6. q'[SlotOf(tail' + (Used + 1) - 1)] = e
    <3>1. tail + (Used + 1) - 1 = tail + Used /\ Used \in Int
      BY <1>1 DEF TypeOK
    <3>2. SlotOf(tail + Used) = SlotOf(head)
      BY <1>1, <2>3, <3>1, SlotBehindTail
    <3> QED
      BY <1>0, <2>1, <2>3, <2>4, <3>1, <3>2
  <2>7. Waiting' = Append(Waiting, e)
    <3>1. Waiting' = [i \in 1 .. Used + 1 |-> q'[SlotOf(tail' + i - 1)]]
      BY <2>2 DEF Waiting, SlotOf
    <3>2. Append(Waiting, e)
              = [i \in 1 .. Used + 1 |-> IF i = Used + 1 THEN e ELSE Waiting[i]]
      BY <1>2
    <3>3. ASSUME NEW i \in 1 .. Used + 1
          PROVE  q'[SlotOf(tail' + i - 1)] = IF i = Used + 1 THEN e ELSE Waiting[i]
      <4>1. CASE i = Used + 1
        BY <2>6, <4>1
      <4>2. CASE i # Used + 1
        <5>1. i \in 1 .. Used
          BY <1>1, <4>2
        <5> QED
          BY <2>5, <4>2, <5>1 DEF Waiting
      <4> QED
        BY <4>1, <4>2
    <3> QED
      BY <3>1, <3>2, <3>3
  <2>8. Len(Waiting) < Depth
    BY <1>2, <2>2
  <2> QED
    BY <1>0, <1>3, <2>1, <2>7, <2>8 DEF Abstract!Offer
<1> QED
  BY <1>5, <1>6

\* The release takes the oldest event of the abstract queue.
LEMMA ReleaseTakes ==
    ASSUME QueueInv, QueueInv', Release
    PROVE  Abstract!Take
<1> USE DEF QueueInv
<1>0. /\ pc = "release"
      /\ tail' = (tail + 1) % Modulus /\ delivered' = Append(delivered, out)
      /\ UNCHANGED <<q, head, taken, dropped, seq, out>>
  BY DEF Release, handlerVars
<1>1. /\ Used = AcceptedCount - TakenOut /\ Used \in 0 .. Depth
      /\ Used' = AcceptedCount' - TakenOut' /\ Used' \in 0 .. Depth
      /\ AcceptedCount \in Int /\ TakenOut \in Int
      /\ TakenOut < AcceptedCount
  BY <1>0, UsedIsLag, UsedIsLagAfter, CountsAreNumbers DEF IndexInv
<1>2. Waiting \in Seq(Event) /\ Len(Waiting) = Used
  BY WaitingIsSeq
<1>3. TakenOut' = TakenOut + 1 /\ AcceptedCount' = AcceptedCount
  BY <1>0 DEF TakenOut, AcceptedCount, TypeOK
<1>4. Used' = Used - 1 /\ Used \in 1 .. Depth
  BY <1>1, <1>3
<1>5. Waiting # <<>> /\ Head(Waiting) = out
  <2>1. Head(Waiting) = q[SlotOf(tail + 1 - 1)]
    BY <1>2, <1>4 DEF Waiting
  <2>2. tail + 1 - 1 = tail /\ tail \in Int /\ q \in [0 .. Depth - 1 -> Event]
        /\ out \in Event
    BY DEF TypeOK
  <2>3. q[SlotOf(tail)] \in Event
    BY <2>2, SlotInRange
  <2>4. out.datum = q[SlotOf(tail)].datum /\ out.seq = q[SlotOf(tail)].seq
    BY <1>0 DEF CopyInv
  <2>5. out = q[SlotOf(tail)]
    BY <2>2, <2>3, <2>4 DEF Event
  <2> QED
    BY <1>2, <1>4, <2>1, <2>2, <2>5
<1>6. Waiting' = Tail(Waiting)
  <2>1. Waiting' = [i \in 1 .. Used - 1 |-> q[SlotOf(tail' + i - 1)]]
    BY <1>0, <1>4 DEF Waiting, SlotOf
  <2>2. Tail(Waiting) = [i \in 1 .. Used - 1 |-> Waiting[i + 1]]
    <3> DEFINE t == Tail(Waiting)
    <3>1. /\ t \in Seq(Event) /\ Len(t) = Used - 1
          /\ \A i \in 1 .. Len(t) : t[i] = Waiting[i + 1]
      BY <1>2, <1>5, HeadTailProperties
    <3> HIDE DEF t
    <3>2. t = [i \in 1 .. Used - 1 |-> t[i]]
      BY <3>1, LenProperties
    <3> QED
      BY <3>1, <3>2 DEF t
  <2>3. ASSUME NEW i \in 1 .. Used - 1
        PROVE  q[SlotOf(tail' + i - 1)] = Waiting[i + 1]
    <3>1. /\ i \in Int /\ i - 1 \in Int /\ tail' + i - 1 = tail' + (i - 1)
          /\ i + 1 \in 1 .. Used /\ tail + (i + 1) - 1 = tail + i
          /\ (TakenOut + 1) + (i - 1) = TakenOut + i
      BY <1>1, <1>4 DEF TypeOK
    <3>2. SlotOf(tail + i) = SlotOf((TakenOut + i) % Modulus)
      BY <3>1, SlotBehindTail
    <3>3. SlotOf(tail' + (i - 1)) = SlotOf((TakenOut + i) % Modulus)
      <4>1. /\ Modulus \in Nat \ {0} /\ Depth \in Nat \ {0} /\ Modulus % Depth = 0
            /\ tail' = TakenOut' % Modulus /\ TakenOut' \in Int
            /\ tail' + (i - 1) \in Int
        BY <1>1, <1>3, <3>1 DEF IndexInv, TypeOK
      <4>2. ((tail' + (i - 1)) % Modulus) % Depth = (tail' + (i - 1)) % Depth
        BY <4>1, ModMod
      <4>3. (tail' + (i - 1)) % Modulus = (TakenOut' + (i - 1)) % Modulus
        BY <3>1, <4>1, ModAdd
      <4> QED
        BY <1>3, <3>1, <4>2, <4>3 DEF SlotOf
    <3>4. Waiting[i + 1] = q[SlotOf(tail + (i + 1) - 1)]
      BY <3>1 DEF Waiting
    <3> QED
      BY <3>1, <3>2, <3>3, <3>4
  <2> QED
    BY <2>1, <2>2, <2>3
<1> QED
  BY <1>0, <1>5, <1>6 DEF Abstract!Take

\* The code's queue implements the abstract one: its indices start an empty queue,
\* and each of its steps offers, takes, or is invisible (safety; that a waiting
\* event is taken is left to the runs).
THEOREM QueueRefines == Spec => Abstract!Init /\ [][Abstract!Next]_(Abstract!vars)
<1>1. Init => Abstract!Init
  <2> SUFFICES ASSUME Init PROVE Abstract!Init
    OBVIOUS
  <2>1. QueueInv /\ AcceptedCount = 0 /\ TakenOut = 0
    BY QueueInvInit DEF Init, AcceptedCount, TakenOut
  <2>2. Used = 0 /\ Waiting \in Seq(Event) /\ Len(Waiting) = Used
    BY <2>1, UsedIsLag, WaitingIsSeq DEF QueueInv
  <2>3. Waiting = <<>>
    BY <2>2
  <2> QED
    BY <2>3 DEF Init, Abstract!Init
<1>2. QueueInv /\ QueueInv' /\ [Next]_vars => [Abstract!Next]_(Abstract!vars)
  <2> SUFFICES ASSUME QueueInv, QueueInv', [Next]_vars
               PROVE  Abstract!Next \/ UNCHANGED Abstract!vars
    OBVIOUS
  <2>1. ASSUME NEW d \in Data, Interrupt(d) PROVE Abstract!Next
    BY <2>1, InterruptOffers DEF Abstract!Next
  <2>2. CASE Release
    BY <2>2, ReleaseTakes DEF Abstract!Next
  <2>3. CASE TakeNothing \/ TakeBegin \/ CopyDatum \/ CopySeq \/ UNCHANGED vars
    <3>1. UNCHANGED <<q, head, tail, taken, dropped, delivered>>
      BY <2>3 DEF TakeNothing, TakeBegin, CopyDatum, CopySeq, vars, handlerVars, loopVars
    <3> QED
      BY <3>1 DEF Abstract!vars, Waiting, Used, SlotOf
  <2> QED
    BY <2>1, <2>2, <2>3 DEF Next, Consume
<1> QED
  BY <1>1, <1>2, QueueInvariant, PTL DEF Spec

=============================================================================
