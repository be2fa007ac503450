----------------------------- MODULE DataProofs -----------------------------
(***************************************************************************)
(* The data: the path of a region from its capture to the loop that        *)
(* reduces it (DataPath), for every number of slots and every capacity,    *)
(* and the downlink behind it (Downlink): link, store and output queue.    *)
(*                                                                         *)
(* The path's invariant gives every raw slot one owner, and ties what the  *)
(* owner may do to the slot to the queue the slot waits in.  The           *)
(* downlink's invariants follow a descriptor and a stored record from      *)
(* their arrival to the link.                                              *)
(***************************************************************************)
EXTENDS DataPath, Downlink, ModularArithmetic, FiniteSetTheorems, SequenceTheorems

-----------------------------------------------------------------------------
(* Queues without repetition. *)

\* One element more at the end of a queue.
LEMMA AppendToQueue ==
    ASSUME NEW S, NEW s \in Seq(S), NEW e \in S
    PROVE  /\ Append(s, e) \in Seq(S)
           /\ ToSet(Append(s, e)) = ToSet(s) \cup {e}
           /\ IsInjective(s) /\ e \notin ToSet(s) => IsInjective(Append(s, e))
<1> DEFINE t == Append(s, e)
<1>1. /\ t \in Seq(S) /\ Len(t) = Len(s) + 1
      /\ \A i \in 1 .. Len(s) : t[i] = s[i]
      /\ t[Len(s) + 1] = e
  BY AppendProperties
<1>2. Len(s) \in Nat /\ DOMAIN s = 1 .. Len(s) /\ DOMAIN t = 1 .. Len(s) + 1
  BY <1>1, LenProperties
<1> HIDE DEF t
<1>3. ToSet(t) = ToSet(s) \cup {e}
  BY <1>1, <1>2 DEF ToSet
<1>4. ASSUME IsInjective(s), e \notin ToSet(s) PROVE IsInjective(t)
  BY <1>1, <1>2, <1>4 DEF IsInjective, ToSet
<1> QED
  BY <1>1, <1>3, <1>4 DEF t

\* One element less at its head.
LEMMA TailOfQueue ==
    ASSUME NEW S, NEW s \in Seq(S), s # <<>>
    PROVE  /\ Head(s) \in S
           /\ Tail(s) \in Seq(S)
           /\ ToSet(s) = ToSet(Tail(s)) \cup {Head(s)}
           /\ IsInjective(s) => IsInjective(Tail(s)) /\ Head(s) \notin ToSet(Tail(s))
<1> DEFINE t == Tail(s)
<1>1. /\ Head(s) \in S /\ t \in Seq(S) /\ Len(t) = Len(s) - 1
      /\ \A i \in 1 .. Len(t) : t[i] = s[i + 1]
  BY HeadTailProperties
<1>2. Len(s) \in Nat \ {0} /\ DOMAIN s = 1 .. Len(s) /\ DOMAIN t = 1 .. Len(s) - 1
  BY <1>1, LenProperties, EmptySeq
<1>3. Head(s) = s[1]
  OBVIOUS
<1> HIDE DEF t
<1>4. ToSet(t) \subseteq ToSet(s)
  <2> SUFFICES ASSUME NEW i \in 1 .. Len(s) - 1
               PROVE  t[i] \in ToSet(s)
    BY <1>2 DEF ToSet
  <2>1. t[i] = s[i + 1] /\ i + 1 \in 1 .. Len(s)
    BY <1>1, <1>2
  <2> QED
    BY <2>1, <1>2 DEF ToSet
<1>5. ToSet(s) \subseteq ToSet(t) \cup {Head(s)}
  <2> SUFFICES ASSUME NEW i \in 1 .. Len(s), s[i] # Head(s)
               PROVE  s[i] \in ToSet(t)
    BY <1>2 DEF ToSet
  <2>1. i - 1 \in 1 .. Len(s) - 1 /\ t[i - 1] = s[i]
    BY <1>1, <1>2, <1>3
  <2> QED
    BY <2>1, <1>2 DEF ToSet
<1>6. ASSUME IsInjective(s) PROVE IsInjective(t) /\ Head(s) \notin ToSet(t)
  <2>1. ASSUME NEW i \in 1 .. Len(s) - 1, NEW j \in 1 .. Len(s) - 1, t[i] = t[j]
        PROVE  i = j
    <3>1. s[i + 1] = s[j + 1] /\ i + 1 \in 1 .. Len(s) /\ j + 1 \in 1 .. Len(s)
      BY <1>1, <1>2, <2>1
    <3>2. i + 1 = j + 1
      BY <3>1, <1>2, <1>6 DEF IsInjective
    <3> QED
      BY <3>2
  <2>2. ASSUME NEW i \in 1 .. Len(s) - 1 PROVE t[i] # Head(s)
    <3>1. t[i] = s[i + 1] /\ i + 1 \in 1 .. Len(s) /\ 1 \in 1 .. Len(s) /\ i + 1 # 1
      BY <1>1, <1>2
    <3> QED
      BY <3>1, <1>2, <1>3, <1>6 DEF IsInjective
  <2> QED
    BY <2>1, <2>2, <1>2 DEF IsInjective, ToSet
<1>7. Head(s) \in ToSet(s)
  BY <1>2, <1>3 DEF ToSet
<1> QED
  BY <1>1, <1>4, <1>5, <1>6, <1>7 DEF t

\* A queue that lacks an element of a finite set has not as many as the set.
LEMMA RoomInQueue ==
    ASSUME NEW S, IsFiniteSet(S), NEW s \in Seq(S), IsInjective(s),
           NEW e \in S, e \notin ToSet(s)
    PROVE  Len(s) < Cardinality(S)
<1>1. Len(s) \in Nat /\ DOMAIN s = 1 .. Len(s) /\ s \in [1 .. Len(s) -> S]
  BY LenProperties
<1>2. /\ IsFiniteSet(S \ {e}) /\ Cardinality(S \ {e}) = Cardinality(S) - 1
      /\ Cardinality(S) \in Nat /\ Cardinality(S \ {e}) \in Nat
  BY FS_RemoveElement, FS_CardinalityType
<1>3. s \in [1 .. Len(s) -> S \ {e}]
  BY <1>1 DEF ToSet
<1>4. IsFiniteSet(1 .. Len(s)) /\ Cardinality(1 .. Len(s)) = Len(s)
  BY <1>1, FS_Interval
<1>5. ~(Cardinality(S \ {e}) < Cardinality(1 .. Len(s)))
  <2> SUFFICES ASSUME Cardinality(S \ {e}) < Cardinality(1 .. Len(s)) PROVE FALSE
    OBVIOUS
  <2>1. \E i, j \in 1 .. Len(s) : i # j /\ s[i] = s[j]
    BY <1>2, <1>3, <1>4, FS_PigeonHole
  <2> QED
    BY <2>1, <1>1 DEF IsInjective
<1> QED
  BY <1>1, <1>2, <1>4, <1>5

\* A set of numbers with anything in it has a least one.
LEMMA LeastNumber ==
    ASSUME NEW S \in SUBSET Nat, S # {}
    PROVE  Min(S) \in S /\ \A n \in S : Min(S) <= n
<1> DEFINE R == OpToRel(<, Nat)
<1>1. IsWellFoundedOn(R, Nat)
  BY NatLessThanWellFounded
<1>2. PICK x \in S : \A y \in S : ~(<<y, x>> \in R)
  <2> HIDE DEF R
  <2> QED
    BY <1>1, WFMin
<1>3. ASSUME NEW y \in S PROVE x <= y
  <2>1. x \in Nat /\ y \in Nat
    OBVIOUS
  <2>2. ~(y < x)
    BY <1>2, <2>1 DEF OpToRel
  <2> QED
    BY <2>1, <2>2
<1> QED
  BY <1>3 DEF Min

-----------------------------------------------------------------------------
(* The regions. *)

\* The raw regions are the first of all.
LEMMA RawRegions ==
    /\ RawCount \in Nat \ {0} /\ RegionCount \in Nat \ {0} /\ RawCount <= RegionCount
    /\ Raw \subseteq Region
    /\ IsFiniteSet(Raw) /\ Cardinality(Raw) = RawCount
<1>1. RawCount \in Nat \ {0}
  BY RegionAssumption, SMT DEF RawCount
<1>2. RegionCount \in Nat \ {0} /\ RawCount <= RegionCount
  BY <1>1, RegionAssumption DEF RegionCount
<1>3. IsFiniteSet(0 .. RawCount - 1) /\ Cardinality(0 .. RawCount - 1) = RawCount
  <2>1. 0 \in Int /\ RawCount - 1 \in Int /\ ~(0 > RawCount - 1)
    BY <1>1
  <2>2. Cardinality(0 .. RawCount - 1) = (RawCount - 1) - 0 + 1
    BY <2>1, FS_Interval
  <2> QED
    BY <1>1, <2>1, <2>2, FS_Interval
<1>4. 0 .. RawCount - 1 \subseteq 0 .. RegionCount - 1
  BY <1>1, <1>2
<1> QED
  BY <1>1, <1>2, <1>3, <1>4 DEF Raw, Region

\* The slots of a channel are raw regions.
LEMMA SlotsAreRaw ==
    ASSUME NEW channel \in 0 .. Channels - 1
    PROVE  SlotsOf(channel) \subseteq Raw
<1> SUFFICES ASSUME NEW i \in 0 .. RawSlots - 1
             PROVE  channel * RawSlots + i \in 0 .. RawCount - 1
  BY DEF SlotsOf, Raw
<1>1. /\ RawSlots \in Nat \ {0} /\ Channels \in Nat \ {0}
      /\ channel \in Int /\ Channels \in Int /\ channel < Channels /\ channel >= 0
  BY RegionAssumption
<1>2. RawSlots * channel + RawSlots <= RawSlots * Channels
  BY <1>1, MultiplesApart
<1>3. /\ RawSlots * channel = channel * RawSlots /\ RawSlots * Channels = RawCount
      /\ channel * RawSlots \in Nat /\ RawCount \in Nat
  BY <1>1, SMT DEF RawCount
<1> QED
  BY <1>1, <1>2, <1>3

\* The slot a channel is armed with is one of its slots, and free.
LEMMA FreeSlotChosen ==
    ASSUME NEW channel \in 0 .. Channels - 1, FreeSlots(channel) # {}
    PROVE  LET r == Min(FreeSlots(channel))
           IN  r \in SlotsOf(channel) /\ r \in Raw /\ owner[r] = "none"
<1>1. FreeSlots(channel) \subseteq SlotsOf(channel) /\ SlotsOf(channel) \subseteq Raw
  BY SlotsAreRaw DEF FreeSlots
<1>2. Raw \subseteq Nat
  BY RawRegions DEF Raw
<1>3. Min(FreeSlots(channel)) \in FreeSlots(channel)
  BY <1>1, <1>2, LeastNumber
<1> QED
  BY <1>1, <1>3 DEF FreeSlots

\* A completion names its region.
LEMMA RegionOfRaw ==
    ASSUME NEW r \in Raw
    PROVE  RegionOf(r) = r
<1>1. r \in 0 .. RegionCount - 1 /\ RegionCount \in Nat \ {0} /\ 0 \in Int
  BY RawRegions DEF Raw
<1>2. (RegionCount * 0 + r) % RegionCount = r
  BY <1>1, DivModUnique
<1> QED
  BY <1>1, <1>2 DEF RegionOf

-----------------------------------------------------------------------------
(* The invariant. *)

\* Raw regions alone go through the queues.
PlaceTypes ==
    /\ owner \in [Region -> Owner]
    /\ events \in Seq(Raw) /\ ready \in Seq(Raw)
    /\ filling \subseteq Raw /\ held \subseteq Raw
    /\ whole \subseteq Raw /\ raced \subseteq Raw /\ missed \subseteq Raw

\* Where a raw region may be, given who owns it.
AccountedFor(r) ==
    /\ r \in ToSet(ready) => owner[r] = "ps" /\ r \notin held
    /\ r \in held => owner[r] = "ps"
    /\ owner[r] = "ps" => r \in held \cup ToSet(ready)
    /\ owner[r] = "pl_dma" => r \in filling \cup ToSet(events) \cup missed

\* What a region armed with nothing of it outstanding may hold, given where it is: its
\* only completion comes after the fabric is done with it.
Undisturbed(r) ==
    r \notin raced =>
        /\ r \in filling => owner[r] = "pl_dma" /\ r \notin ToSet(events)
        /\ r \in ToSet(events) /\ owner[r] = "pl_dma" => r \in whole
        /\ owner[r] \in {"ps", "storage", "comms"} => r \in whole

PlaceOf(r) == AccountedFor(r) /\ Undisturbed(r)

PathInv ==
    /\ PlaceTypes
    /\ IsInjective(ready)
    /\ \A r \in Raw : PlaceOf(r)

\* Initially every region is free.
LEMMA PathInvInit == PathInit => PathInv
<1> SUFFICES ASSUME PathInit PROVE PathInv
  OBVIOUS
<1>1. ToSet(<<>>) = {} /\ IsInjective(<<>>) /\ <<>> \in Seq(Raw)
  BY EmptySeq DEF ToSet, IsInjective
<1>2. PlaceTypes
  BY <1>1 DEF PathInit, DdrInit, PlaceTypes, Owner
<1>3. ASSUME NEW r \in Raw PROVE PlaceOf(r)
  BY <1>1, RawRegions DEF PathInit, DdrInit, PlaceOf, AccountedFor, Undisturbed
<1> QED
  BY <1>1, <1>2, <1>3 DEF PathInit, PathInv

\* A region that is filled gets its completion queued, or remembered as dropped.
LEMMA CompleteStep ==
    ASSUME PathInv, NEW c \in Raw, Complete(c)
    PROVE  PathInv'
<1> USE DEF PathInv, PlaceTypes
<1>1. /\ c \in filling /\ UNCHANGED <<owner, ready, held, raced>>
      /\ filling' = filling \ {c} /\ whole' = whole \cup {c}
  BY DEF Complete, ddrVars
<1>2. /\ events' \in Seq(Raw)
      /\ \/ ToSet(events') = ToSet(events) \cup {c} /\ missed' = missed
         \/ ToSet(events') = ToSet(events) /\ missed' = missed \cup {c}
  BY AppendToQueue DEF Complete
<1>3. ASSUME NEW r \in Raw PROVE PlaceOf(r)'
  <2>1. AccountedFor(r)'
    BY <1>1, <1>2 DEF PlaceOf, AccountedFor
  <2>2. Undisturbed(r)'
    BY <1>1, <1>2 DEF PlaceOf, Undisturbed
  <2> QED
    BY <2>1, <2>2 DEF PlaceOf
<1> QED
  BY <1>1, <1>2, <1>3

\* A completion of a region the fabric does not own is refused; any other makes its
\* region ready, for the table has room for every region.
LEMMA TakeCompletionStep ==
    ASSUME PathInv, TakeCompletion
    PROVE  PathInv'
<1> USE DEF PathInv, PlaceTypes
<1> DEFINE c == Head(events)
<1>1. /\ c \in Raw /\ events' = Tail(events) /\ events' \in Seq(Raw)
      /\ ToSet(events) = ToSet(events') \cup {c}
  BY TailOfQueue DEF TakeCompletion
<1>2. RegionOf(c) = c /\ c \in Region
  BY <1>1, RegionOfRaw, RawRegions
<1>3. UNCHANGED <<filling, held, whole, raced, missed>>
  BY DEF TakeCompletion, historyVars
<1> HIDE DEF c
<1>4. CASE owner[c] = "pl_dma"
  <2>1. owner' = [owner EXCEPT ![c] = "ps"] /\ owner' \in [Region -> Owner]
    BY <1>2, <1>4 DEF TakeCompletion, OwnedBy, Handoff, Owner, c
  <2>2. c \notin ToSet(ready) /\ c \notin held
    BY <1>1, <1>4 DEF PlaceOf, AccountedFor
  <2>3. ReadyRoom
    <3>1. Len(ready) < RawCount /\ Len(ready) \in Nat
      BY <1>1, <2>2, RawRegions, RoomInQueue, LenProperties
    <3> QED
      BY <3>1, RawRegions DEF ReadyRoom
  <2>4. ready' = Append(ready, c)
    BY <1>2, <1>4, <2>3 DEF TakeCompletion, OwnedBy, c
  <2>5. /\ ready' \in Seq(Raw) /\ IsInjective(ready')
        /\ ToSet(ready') = ToSet(ready) \cup {c}
    BY <1>1, <2>2, <2>4, AppendToQueue
  <2>6. ASSUME NEW r \in Raw PROVE PlaceOf(r)'
    <3>1. r \in Region
      BY RawRegions
    <3>2. CASE r = c
      <4>1. owner'[r] = "ps"
        BY <1>2, <2>1, <3>2
      <4>2. AccountedFor(r)'
        BY <1>3, <2>2, <2>5, <3>2, <4>1 DEF AccountedFor
      <4>3. Undisturbed(r)'
        BY <1>1, <1>3, <1>4, <3>2, <4>1 DEF PlaceOf, Undisturbed
      <4> QED
        BY <4>2, <4>3 DEF PlaceOf
    <3>3. CASE r # c
      <4>1. owner'[r] = owner[r]
        BY <2>1, <3>1, <3>3
      <4>2. (r \in ToSet(events') <=> r \in ToSet(events))
            /\ (r \in ToSet(ready') <=> r \in ToSet(ready))
        BY <1>1, <2>5, <3>3
      <4> QED
        BY <1>3, <4>1, <4>2 DEF PlaceOf, AccountedFor, Undisturbed
    <3> QED
      BY <3>2, <3>3
  <2> QED
    BY <1>1, <1>3, <2>1, <2>5, <2>6
<1>5. CASE owner[c] # "pl_dma"
  <2>1. UNCHANGED <<owner, ready>>
    BY <1>2, <1>5 DEF TakeCompletion, OwnedBy, ddrVars, c
  <2>2. ASSUME NEW r \in Raw PROVE PlaceOf(r)'
    BY <1>1, <1>3, <1>5, <2>1 DEF PlaceOf, AccountedFor, Undisturbed
  <2> QED
    BY <1>1, <1>3, <2>1, <2>2
<1> QED
  BY <1>4, <1>5

\* A channel is armed with a free slot; if anything of the slot is outstanding, it races.
LEMMA ArmStep ==
    ASSUME PathInv, NEW channel \in 0 .. Channels - 1, Arm(channel)
    PROVE  PathInv'
<1> USE DEF PathInv, PlaceTypes
<1> DEFINE c == Min(FreeSlots(channel))
<1>1. c \in SlotsOf(channel) /\ c \in Raw /\ owner[c] = "none" /\ c \in Region
  BY FreeSlotChosen, RawRegions DEF Arm
<1>2. /\ owner' = [owner EXCEPT ![c] = "pl_dma"]
      /\ filling' = filling \cup {c} /\ whole' = whole \ {c}
      /\ raced' = IF Unsettled(c) THEN raced \cup {c} ELSE raced \ {c}
      /\ missed' = missed \ {c}
      /\ UNCHANGED <<events, ready, held>>
  BY DEF Arm, Handoff
<1> HIDE DEF c
<1>3. c \notin ToSet(ready) /\ c \notin held
  BY <1>1 DEF PlaceOf, AccountedFor
<1>4. ASSUME NEW r \in Raw PROVE PlaceOf(r)'
  <2>1. r \in Region
    BY RawRegions
  <2>2. CASE r = c
    <3>1. owner'[r] = "pl_dma"
      BY <1>1, <1>2, <2>2
    <3>2. AccountedFor(r)'
      BY <1>2, <1>3, <2>2, <3>1 DEF AccountedFor
    <3>3. Undisturbed(r)'
      BY <1>2, <2>2, <3>1 DEF Undisturbed, Unsettled
    <3> QED
      BY <3>2, <3>3 DEF PlaceOf
  <2>3. CASE r # c
    <3>1. owner'[r] = owner[r]
      BY <1>2, <2>1, <2>3
    <3>2. (r \in raced' <=> r \in raced) /\ (r \in missed' <=> r \in missed)
          /\ (r \in filling' <=> r \in filling) /\ (r \in whole' <=> r \in whole)
      BY <1>2, <2>3
    <3> QED
      BY <1>2, <3>1, <3>2 DEF PlaceOf, AccountedFor, Undisturbed
  <2> QED
    BY <2>2, <2>3
<1>5. PlaceTypes'
  BY <1>1, <1>2 DEF Owner
<1> QED
  BY <1>2, <1>4, <1>5

\* A region taken back is free, whatever completions of it are queued.
LEMMA TakeBackStep ==
    ASSUME PathInv, NEW c \in Raw, TakeBack(c)
    PROVE  PathInv'
<1> USE DEF PathInv, PlaceTypes
<1>1. c \in Region /\ owner[c] = "pl_dma"
  BY RawRegions DEF TakeBack
<1>2. /\ owner' = [owner EXCEPT ![c] = "none"]
      /\ filling' = filling \ {c} /\ whole' = whole \ {c}
      /\ UNCHANGED <<events, ready, held, raced, missed>>
  BY DEF TakeBack, ClearRegion
<1>3. c \notin ToSet(ready) /\ c \notin held
  BY <1>1 DEF PlaceOf, AccountedFor
<1>4. ASSUME NEW r \in Raw PROVE PlaceOf(r)'
  <2>1. r \in Region
    BY RawRegions
  <2>2. CASE r = c
    <3>1. owner'[r] = "none"
      BY <1>1, <1>2, <2>2
    <3> QED
      BY <1>2, <1>3, <2>2, <3>1 DEF PlaceOf, AccountedFor, Undisturbed
  <2>3. CASE r # c
    <3>1. owner'[r] = owner[r]
      BY <1>2, <2>1, <2>3
    <3> QED
      BY <1>2, <2>3, <3>1 DEF PlaceOf, AccountedFor, Undisturbed
  <2> QED
    BY <2>2, <2>3
<1>5. PlaceTypes'
  BY <1>1, <1>2 DEF Owner
<1> QED
  BY <1>2, <1>4, <1>5

\* What is ready passes to the stage that asked.
LEMMA TakeReadyStep ==
    ASSUME PathInv, TakeReady
    PROVE  PathInv'
<1> USE DEF PathInv, PlaceTypes
<1> DEFINE c == Head(ready)
<1>1. /\ c \in Raw /\ ready' \in Seq(Raw) /\ IsInjective(ready')
      /\ ToSet(ready) = ToSet(ready') \cup {c} /\ c \notin ToSet(ready')
  BY TailOfQueue DEF TakeReady, ReadyAfterTake
<1>2. held' = held \cup {c} /\ UNCHANGED <<owner, events, filling, whole, raced, missed>>
  BY DEF TakeReady, ddrVars, historyVars
<1> HIDE DEF c
<1>3. ASSUME NEW r \in Raw PROVE PlaceOf(r)'
  BY <1>1, <1>2 DEF PlaceOf, AccountedFor, Undisturbed
<1> QED
  BY <1>1, <1>2, <1>3

\* What a stage does with a region: nothing to who owns it, or the region is the
\* processor's or comes after it, and goes on.
LEMMA ReduceCases ==
    ASSUME PathInv, NEW c \in Region, Reduce(c)
    PROVE  /\ UNCHANGED <<events, ready, filling, whole, raced, missed>>
           /\ \/ UNCHANGED <<owner, held>>
              \/ /\ c \notin Raw /\ UNCHANGED held
                 /\ \E to \in Owner : owner' = [owner EXCEPT ![c] = to]
              \/ /\ owner[c] \in {"storage", "comms"} /\ UNCHANGED held
                 /\ \E to \in {"comms", "none"} : owner' = [owner EXCEPT ![c] = to]
              \/ /\ c \in Raw => c \in held
                 /\ held' = held \ {c}
                 /\ \E to \in {"storage", "none"} : owner' = [owner EXCEPT ![c] = to]
<1>1. CASE Reduces(c)
  <2>1. CASE c \in held /\ SetUsed(c, "ps", Bytes)
    BY <1>1, <2>1 DEF Reduces, Reduce, SetUsed, historyVars
  <2>2. CASE c \notin Raw /\ Handoff(c, "none", "ps")
    BY <1>1, <2>2 DEF Reduces, Reduce, Handoff, Owner, historyVars
  <2>3. CASE c \notin Raw /\ \E len \in 1 .. Bytes : AppendTo(c, "ps", len)
    BY <1>1, <2>3 DEF Reduces, Reduce, AppendTo, historyVars
  <2>4. CASE Handoff(c, "storage", "comms") \/ ClearRegion(c, "storage") \/ ClearRegion(c, "comms")
    BY <1>1, <2>4 DEF Reduces, Reduce, Handoff, ClearRegion, OwnedBy, historyVars
  <2> QED
    BY <1>1, <2>1, <2>2, <2>3, <2>4 DEF Reduces
<1>2. CASE LetsGo(c)
  BY <1>2 DEF LetsGo, Reduce, Handoff, ClearRegion, historyVars
<1> QED
  BY <1>1, <1>2 DEF Reduce

\* A stage keeps every other region where it was.
LEMMA ReduceStep ==
    ASSUME PathInv, NEW c \in Region, Reduce(c)
    PROVE  PathInv'
<1> USE DEF PathInv, PlaceTypes
<1>1. UNCHANGED <<events, ready, filling, whole, raced, missed>>
  BY ReduceCases
<1>2. CASE UNCHANGED <<owner, held>>
  BY <1>1, <1>2 DEF PlaceOf, AccountedFor, Undisturbed
<1>3. ASSUME c \notin Raw, UNCHANGED held,
             NEW to \in Owner, owner' = [owner EXCEPT ![c] = to]
      PROVE  PathInv'
  <2>1. ASSUME NEW r \in Raw PROVE PlaceOf(r)'
    <3>1. owner'[r] = owner[r]
      BY <1>3, RawRegions
    <3> QED
      BY <1>1, <1>3, <3>1 DEF PlaceOf, AccountedFor, Undisturbed
  <2> QED
    BY <1>1, <1>3, <2>1
<1>4. ASSUME owner[c] \in {"storage", "comms"}, UNCHANGED held,
             NEW to \in {"comms", "none"}, owner' = [owner EXCEPT ![c] = to]
      PROVE  PathInv'
  <2>1. ASSUME NEW r \in Raw PROVE PlaceOf(r)'
    <3>1. r \in Region
      BY RawRegions
    <3>2. CASE r = c
      <4>1. owner'[r] \in {"comms", "none"}
        BY <1>4, <3>1, <3>2
      <4>2. /\ r \notin ToSet(ready) /\ r \notin held
            /\ r \notin raced => r \notin filling /\ r \in whole
        BY <1>4, <3>2 DEF PlaceOf, AccountedFor, Undisturbed
      <4> QED
        BY <1>1, <1>4, <4>1, <4>2 DEF PlaceOf, AccountedFor, Undisturbed
    <3>3. CASE r # c
      <4>1. owner'[r] = owner[r]
        BY <1>4, <3>1, <3>3
      <4> QED
        BY <1>1, <1>4, <4>1 DEF PlaceOf, AccountedFor, Undisturbed
    <3> QED
      BY <3>2, <3>3
  <2>2. owner' \in [Region -> Owner]
    BY <1>4 DEF Owner
  <2> QED
    BY <1>1, <1>4, <2>1, <2>2
<1>5. ASSUME c \in Raw => c \in held, held' = held \ {c},
             NEW to \in {"storage", "none"}, owner' = [owner EXCEPT ![c] = to]
      PROVE  PathInv'
  <2>1. ASSUME NEW r \in Raw PROVE PlaceOf(r)'
    <3>1. r \in Region
      BY RawRegions
    <3>2. CASE r = c
      <4>1. owner'[r] \in {"storage", "none"} /\ r \notin held'
        BY <1>5, <3>1, <3>2
      <4>2. r \notin ToSet(ready) /\ (r \notin raced => r \notin filling /\ r \in whole)
        BY <1>5, <3>2 DEF PlaceOf, AccountedFor, Undisturbed
      <4> QED
        BY <1>1, <4>1, <4>2 DEF PlaceOf, AccountedFor, Undisturbed
    <3>3. CASE r # c
      <4>1. owner'[r] = owner[r] /\ (r \in held' <=> r \in held)
        BY <1>5, <3>1, <3>3
      <4> QED
        BY <1>1, <4>1 DEF PlaceOf, AccountedFor, Undisturbed
    <3> QED
      BY <3>2, <3>3
  <2>2. owner' \in [Region -> Owner]
    BY <1>5 DEF Owner
  <2> QED
    BY <1>1, <1>5, <2>1, <2>2
<1> QED
  BY <1>2, <1>3, <1>4, <1>5, ReduceCases

\* Every step preserves the invariant.
LEMMA PathInvNext ==
    ASSUME PathInv, [PathNext]_pathVars
    PROVE  PathInv'
<1>1. CASE TakeCompletion
  BY <1>1, TakeCompletionStep
<1>2. CASE CompletionsTaken \/ StagesDone \/ UNCHANGED pathVars
  <2>1. UNCHANGED <<owner, events, ready, filling, held, whole, raced, missed>>
    BY <1>2 DEF CompletionsTaken, StagesDone, pathVars, ddrVars, historyVars
  <2> QED
    BY <2>1 DEF PathInv, PlaceTypes, PlaceOf, AccountedFor, Undisturbed
<1>3. CASE \E r \in Raw : Complete(r) \/ TakeBack(r)
  BY <1>3, CompleteStep, TakeBackStep
<1>4. CASE \E channel \in 0 .. Channels - 1 : Arm(channel)
  BY <1>4, ArmStep
<1>5. CASE \E channel \in 0 .. Channels - 1 : ArmRefused(channel)
  BY <1>5, <1>2 DEF ArmRefused
<1>6. CASE TakeReady
  BY <1>6, TakeReadyStep
<1>7. CASE \E r \in Region : Reduce(r)
  BY <1>7, ReduceStep
<1> QED
  BY <1>1, <1>2, <1>3, <1>4, <1>5, <1>6, <1>7 DEF PathNext, PathLoop

\* Where every region is, in every reachable state, whatever the stages do and
\* however deep the interrupt queue is.
THEOREM PathInvariant == PathSpec => []PathInv
<1>1. PathInit => PathInv
  BY PathInvInit
<1>2. PathInv /\ [PathNext]_pathVars => PathInv'
  BY PathInvNext
<1> QED
  BY <1>1, <1>2, PTL DEF PathSpec

\* Nobody reads a region the fabric may still write, or that holds no whole
\* acquisition, unless it was armed before an earlier arming of it was settled.
THEOREM WholeIsRead == PathSpec => []ReadsWholeOnly
<1>1. PathInv => ReadsWholeOnly
  BY DEF PathInv, PlaceOf, Undisturbed, ReadsWholeOnly
<1> QED
  BY <1>1, PathInvariant, PTL

\* No region is lost between the fabric and the stages, races included.
THEOREM SlotsReturn == PathSpec => []NoSlotLeaked
<1>1. PathInv => NoSlotLeaked
  BY DEF PathInv, PlaceOf, AccountedFor, NoSlotLeaked
<1> QED
  BY <1>1, PathInvariant, PTL

\* What is used of a region never exceeds it, whatever the stages append, set and hand on.
UsedFits == used \in [Region -> 0 .. Bytes]

\* One region at a time is appended to, set, or emptied; the others keep what they hold.
LEMMA UsedCases ==
    ASSUME UsedFits, [PathNext]_pathVars
    PROVE  \/ UNCHANGED used
           \/ \E r \in Region, n \in 0 .. Bytes : used' = [used EXCEPT ![r] = n]
<1> USE DEF UsedFits
<1>0. 0 \in 0 .. Bytes /\ Bytes \in 0 .. Bytes /\ Bytes \in Nat
  BY RegionAssumption
<1>1. CASE PathLoop \/ UNCHANGED pathVars
  BY <1>1 DEF PathLoop, TakeCompletion, Handoff, CompletionsTaken, StagesDone, pathVars, ddrVars
<1>2. CASE \E r \in Raw : Complete(r) \/ TakeBack(r)
  <2>1. PICK r \in Raw : Complete(r) \/ TakeBack(r)
    BY <1>2
  <2>2. r \in Region
    BY RawRegions
  <2> QED
    BY <1>0, <2>1, <2>2 DEF Complete, TakeBack, ClearRegion, ddrVars
<1>3. CASE \E channel \in 0 .. Channels - 1 : Arm(channel) \/ ArmRefused(channel)
  BY <1>3 DEF Arm, ArmRefused, Handoff, pathVars, ddrVars
<1>4. CASE TakeReady
  BY <1>4 DEF TakeReady, ddrVars
<1>5. ASSUME NEW r \in Region, Reduce(r)
      PROVE  \/ UNCHANGED used
             \/ \E n \in 0 .. Bytes : used' = [used EXCEPT ![r] = n]
  <2>1. CASE \E from \in Owner : ClearRegion(r, from)
    BY <1>0, <2>1 DEF ClearRegion
  <2>2. CASE \E from, to \in Owner : Handoff(r, from, to)
    BY <2>2 DEF Handoff
  <2>3. CASE SetUsed(r, "ps", Bytes)
    BY <1>0, <2>3 DEF SetUsed
  <2>4. ASSUME NEW len \in 1 .. Bytes, AppendTo(r, "ps", len)
        PROVE  \E n \in 0 .. Bytes : used' = [used EXCEPT ![r] = n]
    <3>1. used[r] + len \in 0 .. Bytes
      BY <1>0, <2>4 DEF AppendTo, Fits
    <3> QED
      BY <2>4, <3>1 DEF AppendTo
  <2>5. {"none", "ps", "storage", "comms"} \subseteq Owner
    BY DEF Owner
  <2> QED
    BY <1>5, <2>1, <2>2, <2>3, <2>4, <2>5 DEF Reduce, Reduces, LetsGo
<1> QED
  BY <1>1, <1>2, <1>3, <1>4, <1>5 DEF PathNext

\* No region is ever driven past its capacity, for every capacity and any order of
\* the calls the stages make.
THEOREM RegionsWithinCapacity == PathSpec => []UsedFits
<1>1. PathInit => UsedFits
  BY RegionAssumption DEF PathInit, DdrInit, UsedFits
<1>2. UsedFits /\ [PathNext]_pathVars => UsedFits'
  BY UsedCases DEF UsedFits
<1> QED
  BY <1>1, <1>2, PTL DEF PathSpec

-----------------------------------------------------------------------------
(* The downlink: the store.                                                 *)

Record == [number : Nat, cls : RecordClass, len : RecordLens]

\* The offset stays within the store, and the count of transferred records within
\* the offset.
StoreInv ==
    /\ store \in Seq(Record) /\ sequence \in Nat
    /\ offset \in 0 .. Len(store) /\ transferred \in 0 .. offset

\* What one step of the downlink may do to the store, other than hand a record on.
StoreMoves ==
    \/ \E cls \in RecordClass, len \in RecordLens : Store(cls, len)
    \/ TransferBegin \/ ClearStore \/ TransferEnd \/ HeaderStops \/ SkipLong
    \/ PayloadStops \/ SkipWorn \/ StageRefused
    \/ UNCHANGED nandVars

\* What one step does to store, queue and history together.
Moves ==
    \/ /\ StageTaken
       /\ Accepted(Current.cls, Current.len, "stage", Current.number)
       /\ UNCHANGED gone
    \/ StoreMoves /\ UNCHANGED <<queueVars, gone>>
    \/ /\ \E len \in EventLens : Accepted(EventClass, len, "own", 0)
       /\ UNCHANGED <<nandVars, gone>>
    \/ /\ DropOne \/ SendOne
       /\ gone' = IF sent' = sent THEN gone ELSE gone \cup FromStage(Pick)
       /\ UNCHANGED nandVars

\* Every step of the downlink is one of these.
LEMMA NextMoves == [Next]_vars => Moves
<1> SUFFICES ASSUME [Next]_vars PROVE Moves
  OBVIOUS
<1>1. CASE StageUsesStore
  <2>1. StoreMoves /\ UNCHANGED <<queueVars, gone>>
    BY <1>1 DEF StageUsesStore, StoreRefused, ClearRefused, StoreMoves
  <2> QED
    BY <2>1 DEF Moves
<1>2. CASE DataPath
  <2>1. CASE StageTaken /\ Accepted(Current.cls, Current.len, "stage", Current.number)
    BY <1>2, <2>1 DEF DataPath, Moves
  <2>2. CASE ~(StageTaken /\ Accepted(Current.cls, Current.len, "stage", Current.number))
    <3>1. StoreMoves /\ UNCHANGED <<queueVars, gone>>
      BY <1>2, <2>2 DEF DataPath, TransferRecord, Refused, StoreMoves
    <3> QED
      BY <3>1 DEF Moves
  <2> QED
    BY <2>1, <2>2
<1>3. CASE OthersSubmit
  <2>1. PICK len \in EventLens : Accepted(EventClass, len, "own", 0) \/ Refused(len)
    BY <1>3 DEF OthersSubmit
  <2>2. CASE Accepted(EventClass, len, "own", 0)
    BY <1>3, <2>2 DEF OthersSubmit, Moves
  <2>3. CASE Refused(len)
    BY <1>3, <2>3 DEF OthersSubmit, Refused, Moves, StoreMoves
  <2> QED
    BY <2>1, <2>2, <2>3
<1>4. CASE ServiceOutput
  BY <1>4 DEF ServiceOutput, SendRefused, Moves, StoreMoves
<1>5. CASE LinkErrors \/ ServiceLink \/ InterruptsDrained \/ ControlEnds \/ ClockRuns
           \/ UNCHANGED vars
  <2>1. UNCHANGED <<nandVars, queueVars, gone>>
    BY <1>5 DEF LinkErrors, ServiceLink, InterruptsDrained, ControlEnds, ClockRuns, vars
  <2> QED
    BY <2>1 DEF Moves, StoreMoves
<1> QED
  BY <1>1, <1>2, <1>3, <1>4, <1>5 DEF Next, Loop

\* A record more leaves those before it where they are.
LEMMA StoreAppends ==
    ASSUME StoreInv, NEW cls \in RecordClass, NEW len \in RecordLens, Store(cls, len)
    PROVE  /\ store' \in Seq(Record) /\ Len(store') = Len(store) + 1
           /\ \A i \in 1 .. offset : store'[i] = store[i]
           /\ sequence' = sequence + 1 /\ UNCHANGED <<offset, transferred>>
<1> USE DEF StoreInv
<1> DEFINE rec == [number |-> sequence, cls |-> cls, len |-> len]
<1>1. rec \in Record
  BY DEF Record
<1>2. store' = Append(store, rec) /\ sequence' = sequence + 1
      /\ UNCHANGED <<offset, transferred>>
  BY DEF Store
<1> HIDE DEF rec
<1>3. /\ store' \in Seq(Record) /\ Len(store') = Len(store) + 1
      /\ \A i \in 1 .. Len(store) : store'[i] = store[i]
  BY <1>1, <1>2, AppendProperties
<1>4. Len(store) \in Nat
  BY LenProperties
<1> QED
  BY <1>2, <1>3, <1>4

\* What a step of the transfer does to the two counts.
LEMMA TransferCounts ==
    ASSUME SkipLong \/ SkipWorn \/ StageTaken
    PROVE  /\ offset < Len(store) /\ offset' = offset + 1
           /\ UNCHANGED <<store, sequence>>
           /\ SkipLong \/ SkipWorn => transferred' = transferred
           /\ StageTaken => transferred' = transferred + 1
  BY DEF SkipLong, SkipWorn, StageTaken, Stageable, Reading, OffsetAfterSkip

\* Whatever the device makes of the records and whenever a transfer stops.
LEMMA StoreInvNext == StoreInv /\ Moves => StoreInv'
<1> SUFFICES ASSUME StoreInv, Moves PROVE StoreInv'
  OBVIOUS
<1> USE DEF StoreInv
<1>0. Len(store) \in Nat /\ offset \in Nat /\ transferred \in Nat
  BY LenProperties
<1>1. CASE \E cls \in RecordClass, len \in RecordLens : Store(cls, len)
  BY <1>0, <1>1, StoreAppends
<1>2. CASE TransferBegin
  BY <1>0, <1>2 DEF TransferBegin, CountAtBegin
<1>3. CASE ClearStore
  <2>1. store' = <<>> /\ offset' = 0 /\ transferred' = 0 /\ UNCHANGED sequence
    BY <1>3 DEF ClearStore
  <2>2. <<>> \in Seq(Record) /\ Len(<<>>) = 0
    BY EmptySeq
  <2> QED
    BY <2>1, <2>2
<1>4. CASE TransferEnd \/ HeaderStops \/ PayloadStops \/ StageRefused \/ UNCHANGED nandVars
  BY <1>4 DEF TransferEnd, HeaderStops, PayloadStops, StageRefused, nandVars
<1>5. CASE SkipLong \/ SkipWorn \/ StageTaken
  BY <1>0, <1>5, TransferCounts
<1> QED
  BY <1>1, <1>2, <1>3, <1>4, <1>5 DEF Moves, StoreMoves

\* The bounds of the store's counts in every reachable state.
THEOREM StoreInvariant == Spec => []StoreInv
<1>1. Init => StoreInv
  BY EmptySeq DEF Init, NandInit, StoreInv
<1>2. StoreInv /\ [Next]_vars => StoreInv'
  BY NextMoves, StoreInvNext
<1> QED
  BY <1>1, <1>2, PTL DEF Spec

-----------------------------------------------------------------------------
(* The downlink: the queue.                                                 *)

Entry == [used : {TRUE}, cls : OutClass, len : Nat,
          buffer : {"own", "stage"}, want : Nat, since : Nat]

\* Each entry in use is a descriptor of a length that fits a packet; the counts
\* account for them all, and none was dropped.
QueueInv ==
    /\ slot \in [Slot -> {Free} \cup Entry]
    /\ pending \in Nat /\ submitted \in Nat /\ sent \in Nat /\ failed = 0
    /\ pending = Cardinality(Used)
    /\ submitted = sent + pending
    /\ \A i \in Used : Packetisable(slot[i].len)

\* The record a transfer is at is one of the store, if there is one left to read.
LEMMA CurrentIsRecord ==
    ASSUME StoreInv, Reading
    PROVE  Current \in Record /\ offset + 1 \in 1 .. Len(store)
<1>1. offset + 1 \in 1 .. Len(store) /\ store \in Seq(Record)
  <2>1. Len(store) \in Nat /\ offset \in Nat /\ offset < Len(store) /\ store \in Seq(Record)
    BY LenProperties DEF StoreInv, Reading
  <2> QED
    BY <2>1
<1> QED
  BY <1>1, ElementOfSeq DEF Current

\* What submission accepts, transmission can packetise: the two length tests agree.
LEMMA LengthTestsAgree ==
    ASSUME NEW len \in Nat
    PROVE  Accepts(len) <=> Packetisable(len)
  BY LengthAssumption DEF Accepts, Packetisable

\* The slots are finite in number, and so are those in use.
LEMMA SlotsAreFinite ==
    /\ Slot \subseteq Nat /\ IsFiniteSet(Slot)
    /\ Used \subseteq Slot /\ IsFiniteSet(Used) /\ Cardinality(Used) \in Nat
<1>1. IsFiniteSet(Slot)
  <2>1. 1 \in Int /\ Depth \in Int
    BY DepthAssumption
  <2> QED
    BY <2>1, FS_Interval DEF Slot
<1>2. Used \subseteq Slot
  BY DEF Used
<1>3. Used \in SUBSET Slot
  BY <1>2
<1>4. IsFiniteSet(Used)
  BY <1>1, <1>3, FS_Subset
<1>5. Cardinality(Used) \in Nat
  BY <1>4, FS_CardinalityType
<1> QED
  BY <1>1, <1>2, <1>4, <1>5 DEF Slot

\* A free entry is not in use, a descriptor is.
LEMMA UsedEntries ==
    ASSUME QueueInv, NEW i \in Slot
    PROVE  /\ i \in Used => slot[i] \in Entry
           /\ i \notin Used => slot[i] = Free
<1>1. slot[i] \in {Free} \cup Entry
  BY DEF QueueInv
<1>2. Free.used = FALSE
  BY DEF Free
<1>3. \A e \in Entry : e.used = TRUE
  BY DEF Entry
<1> QED
  BY <1>1, <1>2, <1>3 DEF Used

\* The entry picked is in use.
LEMMA PickIsUsed ==
    ASSUME QueueInv, Used # {}
    PROVE  Pick \in Used
<1> DEFINE P(i) == Priority[slot[i].cls]
           S    == {P(i) : i \in Used}
           T    == {i \in Used : P(i) = Best}
<1>1. \A i \in Used : P(i) \in Nat
  <2> SUFFICES ASSUME NEW i \in Used PROVE P(i) \in Nat
    OBVIOUS
  <2>1. i \in Slot
    BY SlotsAreFinite
  <2>2. slot[i].cls \in OutClass
    BY <2>1, UsedEntries DEF Entry
  <2> QED
    BY <2>2, PriorityAssumption
<1>2. Best = Min(S) /\ Pick = Min(T)
  BY DEF Best, Pick
<1>3. S \in SUBSET Nat /\ S # {}
  BY <1>1
<1>4. Best \in S
  <2> HIDE DEF S
  <2> QED
    BY <1>2, <1>3, LeastNumber
<1>5. T \in SUBSET Nat /\ T # {}
  <2>1. Used \subseteq Nat
    BY SlotsAreFinite
  <2>2. PICK i \in Used : P(i) = Best
    BY <1>4
  <2> QED
    BY <2>1, <2>2
<1>6. Pick \in T
  <2> HIDE DEF T
  <2> QED
    BY <1>2, <1>5, LeastNumber
<1> QED
  BY <1>6

\* A descriptor goes to a free entry, and the others stay.
LEMMA AcceptedEntry ==
    ASSUME QueueInv, NEW cls \in OutClass, NEW len \in Nat,
           NEW buffer \in {"own", "stage"}, NEW want \in Nat,
           Accepted(cls, len, buffer, want)
    PROVE  \E i \in Slot \ Used :
               /\ slot' = [slot EXCEPT ![i] = Descriptor(cls, len, buffer, want)]
               /\ slot'[i] = Descriptor(cls, len, buffer, want)
               /\ \A j \in Slot : j # i => slot'[j] = slot[j]
               /\ Used' = Used \cup {i}
<1> DEFINE i == Min(Slot \ Used)
           d == Descriptor(cls, len, buffer, want)
<1>1. i \in Slot \ Used
  <2>1. Slot \ Used \in SUBSET Nat /\ Slot \ Used # {}
    BY SlotsAreFinite DEF Accepted, HasRoom
  <2> QED
    BY <2>1, LeastNumber
<1>2. d.used = TRUE
  BY DEF Descriptor
<1>3. slot' = [slot EXCEPT ![i] = d]
  BY DEF Accepted
<1> HIDE DEF i, d
<1>4. slot'[i] = d /\ \A j \in Slot : j # i => slot'[j] = slot[j]
  BY <1>1, <1>3 DEF QueueInv
<1>5. Used' = Used \cup {i}
  BY <1>1, <1>2, <1>4 DEF Used
<1> QED
  BY <1>1, <1>3, <1>4, <1>5 DEF d

\* One more descriptor in use, of a length that can be sent.
LEMMA AcceptedStep ==
    ASSUME QueueInv, NEW cls \in OutClass, NEW len \in Nat,
           NEW buffer \in {"own", "stage"}, NEW want \in Nat,
           Accepted(cls, len, buffer, want)
    PROVE  QueueInv'
<1> DEFINE d == Descriptor(cls, len, buffer, want)
<1>1. PICK i \in Slot \ Used :
          /\ slot' = [slot EXCEPT ![i] = d] /\ slot'[i] = d
          /\ \A j \in Slot : j # i => slot'[j] = slot[j]
          /\ Used' = Used \cup {i}
  BY AcceptedEntry
<1>2. d \in Entry /\ d.len = len
  BY DEF Descriptor, Entry, QueueInv
<1>3. /\ pending' = pending + 1 /\ submitted' = submitted + 1
      /\ sent' = sent /\ failed' = failed /\ Accepts(len)
  BY DEF Accepted
<1> HIDE DEF d
<1>4. slot' \in [Slot -> {Free} \cup Entry]
  BY <1>1, <1>2 DEF QueueInv
<1>5. Cardinality(Used') = Cardinality(Used) + 1 /\ Cardinality(Used) \in Nat
  BY <1>1, SlotsAreFinite, FS_AddElement
<1>6. ASSUME NEW j \in Used' PROVE Packetisable(slot'[j].len)
  <2>1. CASE j = i
    BY <1>1, <1>2, <1>3, <2>1, LengthTestsAgree
  <2>2. CASE j # i
    BY <1>1, <2>2 DEF QueueInv, Used
  <2> QED
    BY <2>1, <2>2
<1>7. (\A j \in Used : Packetisable(slot[j].len))'
  BY <1>6 DEF Packetisable
<1> QED
  BY <1>3, <1>4, <1>5, <1>7 DEF QueueInv

\* An entry is released.
LEMMA ReleaseStep ==
    ASSUME QueueInv, Used # {}, Release(Pick)
    PROVE  /\ slot' \in [Slot -> {Free} \cup Entry]
           /\ pending' = Cardinality(Used') /\ pending' = pending - 1 /\ pending' \in Nat
           /\ Pick \in Used /\ Used' = Used \ {Pick}
           /\ \A j \in Used' : slot'[j] = slot[j]
           /\ (\A j \in Used : Packetisable(slot[j].len))'
           /\ submitted' = submitted
<1>1. Pick \in Used /\ Pick \in Slot
  BY PickIsUsed, SlotsAreFinite
<1>2. slot' = [slot EXCEPT ![Pick] = Free] /\ pending' = pending - 1 /\ submitted' = submitted
  BY DEF Release
<1> HIDE DEF Pick
<1>3. slot' \in [Slot -> {Free} \cup Entry]
  BY <1>2 DEF QueueInv
<1>4. slot'[Pick] = Free /\ \A j \in Slot : j # Pick => slot'[j] = slot[j]
  BY <1>1, <1>2 DEF QueueInv
<1>5. Free.used = FALSE
  BY DEF Free
<1>6. Used' = Used \ {Pick}
  BY <1>4, <1>5 DEF Used
<1>7. Cardinality(Used') = Cardinality(Used) - 1
  BY <1>1, <1>6, SlotsAreFinite, FS_RemoveElement
<1>8. Cardinality(Used) # 0
  BY SlotsAreFinite, FS_EmptySet
<1>9. \A j \in Used' : slot'[j] = slot[j]
  BY <1>4, <1>6 DEF Used
<1>10. ASSUME NEW j \in Used' PROVE Packetisable(slot'[j].len)
  BY <1>4, <1>6 DEF QueueInv, Used
<1>11. (\A j \in Used : Packetisable(slot[j].len))'
  BY <1>10 DEF Packetisable
<1> QED
  BY <1>1, <1>2, <1>3, <1>6, <1>7, <1>8, <1>9, <1>11, SlotsAreFinite DEF QueueInv

\* Every step preserves the invariant; an entry nothing can packetise never occurs.
LEMMA QueueInvNext == StoreInv /\ QueueInv /\ Moves => QueueInv'
<1> SUFFICES ASSUME StoreInv, QueueInv, Moves PROVE QueueInv'
  OBVIOUS
<1>1. CASE StageTaken /\ Accepted(Current.cls, Current.len, "stage", Current.number)
  <2>1. Current \in Record
    BY <1>1, CurrentIsRecord DEF StageTaken, Stageable
  <2>2. Current.cls \in OutClass /\ Current.len \in Nat /\ Current.number \in Nat
    BY <2>1, DownlinkAssumption, StageAssumption DEF Record
  <2> QED
    BY <1>1, <2>2, AcceptedStep
<1>2. CASE \E len \in EventLens : Accepted(EventClass, len, "own", 0)
  BY <1>2, AcceptedStep, DownlinkAssumption
<1>3. CASE DropOne
  BY <1>3, PickIsUsed DEF DropOne, QueueInv
<1>4. CASE SendOne
  <2>1. Used # {} /\ Release(Pick) /\ sent' = sent + 1 /\ failed' = failed
    BY <1>4 DEF SendOne
  <2> QED
    BY <2>1, ReleaseStep DEF QueueInv
<1>5. CASE UNCHANGED queueVars
  BY <1>5 DEF queueVars, QueueInv, Used, Packetisable
<1> QED
  BY <1>1, <1>2, <1>3, <1>4, <1>5 DEF Moves

\* Initially every entry is free.
LEMMA QueueInvInit == Init => QueueInv
<1> SUFFICES ASSUME Init PROVE QueueInv
  OBVIOUS
<1>1. slot = [i \in Slot |-> Free] /\ pending = 0 /\ submitted = 0 /\ sent = 0 /\ failed = 0
  BY DEF Init, QueueInit
<1>2. Used = {}
  BY <1>1 DEF Used, Free
<1> QED
  BY <1>1, <1>2, FS_EmptySet DEF QueueInv

\* The invariant of the queue in every reachable state: in particular no packet is
\* ever dropped, for what is accepted can be sent.
THEOREM QueueInvariant == Spec => []QueueInv
<1>1. StoreInv /\ QueueInv /\ [Next]_vars => QueueInv'
  BY NextMoves, QueueInvNext
<1> QED
  BY <1>1, QueueInvInit, StoreInvariant, PTL DEF Spec

\* No path of submission, refusal and release loses a descriptor or counts it twice,
\* and none is dropped.
THEOREM DescriptorsConserved == Spec => []QueueConserved
<1>1. QueueInv => QueueConserved
  BY DEF QueueInv, QueueConserved
<1> QED
  BY <1>1, QueueInvariant, PTL

-----------------------------------------------------------------------------
(* The downlink: what an erase may count on.                                *)

\* The records with a descriptor of their own, queued or sent.
HandedOn == SentFor \cup Queued

\* While count and offset agree nothing was passed over, and what lies before the
\* offset was handed on.
HandedInv == transferred = offset => \A i \in 1 .. offset : store[i].number \in HandedOn

\* A descriptor taken on joins the queue without displacing another.
LEMMA AcceptedQueues ==
    ASSUME QueueInv, NEW cls \in OutClass, NEW len \in Nat,
           NEW buffer \in {"own", "stage"}, NEW want \in Nat,
           Accepted(cls, len, buffer, want)
    PROVE  Queued \subseteq Queued' /\ (buffer = "stage" => want \in Queued')
<1> DEFINE d == Descriptor(cls, len, buffer, want)
<1>1. PICK i \in Slot \ Used :
          /\ slot'[i] = d
          /\ \A j \in Slot : j # i => slot'[j] = slot[j]
          /\ Used' = Used \cup {i}
  BY AcceptedEntry
<1>2. d.buffer = buffer /\ d.want = want
  BY DEF Descriptor
<1> HIDE DEF d
<1>3. \A j \in Used : j \in Used' /\ slot'[j] = slot[j]
  BY <1>1 DEF Used
<1>4. Queued \subseteq Queued'
  BY <1>3 DEF Queued
<1>5. ASSUME buffer = "stage" PROVE want \in Queued'
  BY <1>1, <1>2, <1>5 DEF Queued
<1> QED
  BY <1>4, <1>5

\* A descriptor sent leaves the queue and is remembered.
LEMMA SendHandsOn ==
    ASSUME QueueInv, SendOne, gone' = gone \cup FromStage(Pick)
    PROVE  HandedOn \subseteq HandedOn'
<1>1. /\ Pick \in Used /\ Used' = Used \ {Pick}
      /\ \A j \in Used' : slot'[j] = slot[j]
  BY ReleaseStep DEF SendOne
<1> DEFINE p == Pick
<1>2. FromStage(p) = IF slot[p].buffer = "stage" THEN {<<slot[p].want, stage>>} ELSE {}
  BY DEF FromStage
<1>3. p \in Used /\ Used' = Used \ {p} /\ gone' = gone \cup FromStage(p)
  BY <1>1
<1> HIDE DEF p
<1>4. SentFor \subseteq SentFor'
  BY <1>3 DEF SentFor
<1>5. ASSUME NEW j \in Used, slot[j].buffer = "stage"
      PROVE  slot[j].want \in SentFor' \cup Queued'
  <2>1. CASE j = p
    <3>1. <<slot[j].want, stage>> \in gone'
      BY <1>2, <1>3, <1>5, <2>1
    <3>2. <<slot[j].want, stage>>[1] = slot[j].want
      OBVIOUS
    <3> QED
      BY <3>1, <3>2 DEF SentFor
  <2>2. CASE j # p
    <3>1. j \in Used' /\ slot'[j] = slot[j]
      BY <1>1, <1>3, <2>2
    <3> QED
      BY <1>5, <3>1 DEF Queued
  <2> QED
    BY <2>1, <2>2
<1> QED
  BY <1>4, <1>5 DEF HandedOn, Queued

\* Nothing handed on is ever forgotten, and a record the transfer moves past with its
\* count is handed on.
LEMMA HandedOnGrows ==
    ASSUME StoreInv, QueueInv, Moves
    PROVE  /\ HandedOn \subseteq HandedOn'
           /\ \/ StoreMoves
              \/ StageTaken /\ store[offset + 1].number \in HandedOn'
<1>1. CASE /\ StageTaken
           /\ Accepted(Current.cls, Current.len, "stage", Current.number)
           /\ UNCHANGED gone
  <2>1. Current \in Record
    BY <1>1, CurrentIsRecord DEF StageTaken, Stageable
  <2>2. Current.cls \in OutClass /\ Current.len \in Nat /\ Current.number \in Nat
    BY <2>1, DownlinkAssumption, StageAssumption DEF Record
  <2>3. Queued \subseteq Queued' /\ Current.number \in Queued'
    BY <1>1, <2>2, AcceptedQueues
  <2>4. SentFor' = SentFor
    BY <1>1 DEF SentFor
  <2> QED
    BY <1>1, <2>3, <2>4 DEF HandedOn, Current
<1>2. CASE StoreMoves /\ UNCHANGED <<queueVars, gone>>
  BY <1>2 DEF HandedOn, SentFor, Queued, Used, queueVars
<1>3. CASE /\ \E len \in EventLens : Accepted(EventClass, len, "own", 0)
           /\ UNCHANGED <<nandVars, gone>>
  <2>1. Queued \subseteq Queued'
    BY <1>3, AcceptedQueues, DownlinkAssumption
  <2>2. SentFor' = SentFor
    BY <1>3 DEF SentFor
  <2> QED
    BY <1>3, <2>1, <2>2 DEF HandedOn, StoreMoves
<1>4. CASE /\ DropOne \/ SendOne
           /\ gone' = IF sent' = sent THEN gone ELSE gone \cup FromStage(Pick)
           /\ UNCHANGED nandVars
  <2>1. ~DropOne
    BY PickIsUsed DEF DropOne, QueueInv
  <2>2. SendOne /\ sent' = sent + 1 /\ sent \in Nat
    BY <1>4, <2>1 DEF SendOne, QueueInv
  <2>3. gone' = gone \cup FromStage(Pick)
    BY <1>4, <2>2
  <2> QED
    BY <1>4, <2>2, <2>3, SendHandsOn DEF StoreMoves
<1> QED
  BY <1>1, <1>2, <1>3, <1>4 DEF Moves

\* Storing more, stopping early, beginning again and passing over keep the agreement
\* from arising by accident.
LEMMA HandedInvNext == StoreInv /\ QueueInv /\ HandedInv /\ Moves => HandedInv'
<1> SUFFICES ASSUME StoreInv, QueueInv, HandedInv, Moves,
                    transferred' = offset', NEW i \in 1 .. offset'
             PROVE  store'[i].number \in HandedOn'
  BY DEF HandedInv
<1>0. Len(store) \in Nat /\ offset \in Nat /\ transferred \in Nat /\ transferred <= offset
  BY LenProperties DEF StoreInv
<1>1. HandedOn \subseteq HandedOn'
  BY HandedOnGrows
<1>2. CASE StageTaken /\ store[offset + 1].number \in HandedOn'
  <2>1. offset' = offset + 1 /\ transferred' = transferred + 1 /\ store' = store
    BY <1>2, TransferCounts
  <2>2. transferred = offset /\ (i \in 1 .. offset \/ i = offset + 1)
    BY <1>0, <2>1
  <2> QED
    BY <1>1, <1>2, <2>1, <2>2 DEF HandedInv
<1>3. CASE \E cls \in RecordClass, len \in RecordLens : Store(cls, len)
  <2>1. store'[i] = store[i] /\ transferred = offset /\ i \in 1 .. offset
    BY <1>3, StoreAppends
  <2> QED
    BY <1>1, <2>1 DEF HandedInv
<1>4. CASE TransferBegin \/ ClearStore
  <2>1. offset' = 0
    BY <1>4 DEF TransferBegin, ClearStore
  <2> QED
    BY <2>1
<1>5. CASE TransferEnd \/ HeaderStops \/ PayloadStops \/ StageRefused \/ UNCHANGED nandVars
  <2>1. UNCHANGED <<store, offset, transferred>>
    BY <1>5 DEF TransferEnd, HeaderStops, PayloadStops, StageRefused, nandVars
  <2> QED
    BY <1>1, <2>1 DEF HandedInv
<1>6. CASE SkipLong \/ SkipWorn
  <2>1. offset' = offset + 1 /\ transferred' = transferred
    BY <1>6, TransferCounts
  <2> QED
    BY <1>0, <2>1
<1> QED
  BY <1>2, <1>3, <1>4, <1>5, <1>6, HandedOnGrows DEF StoreMoves

\* No history of transfers stopped, begun again or followed by further stores lets a
\* store be erased that holds a record without a descriptor of its own, queued or
\* sent.
THEOREM ErasedWasQueued == Spec => []ErasableWasQueued
<1>1. Init => HandedInv
  BY DEF Init, NandInit, HandedInv
<1>2. StoreInv /\ QueueInv /\ HandedInv /\ [Next]_vars => HandedInv'
  BY HandedInvNext, NextMoves
<1>3. StoreInv /\ HandedInv => ErasableWasQueued
  <2> SUFFICES ASSUME StoreInv, HandedInv, Clearable, NEW i \in 1 .. Len(store)
               PROVE  store[i].number \in SentFor \cup Queued
    BY DEF ErasableWasQueued
  <2>1. Len(store) \in Nat
    BY LenProperties DEF StoreInv
  <2>2. store # <<>>
    BY <2>1, EmptySeq DEF StoreInv
  <2>3. transferred = Len(store)
    BY <2>2 DEF Clearable
  <2>4. offset = Len(store) /\ transferred = offset
    BY <2>1, <2>3 DEF StoreInv
  <2> QED
    BY <2>4 DEF HandedInv, HandedOn
<1> QED
  BY <1>1, <1>2, <1>3, StoreInvariant, QueueInvariant, PTL DEF Spec

=============================================================================
