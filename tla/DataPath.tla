------------------------------ MODULE DataPath ------------------------------
(***************************************************************************)
(* Acquisition buffers between the fabric and the processor,               *)
(* src/src/data/data_path.c over StorageDdr.                               *)
(*                                                                         *)
(* The fabric fills the regions it was armed with and raises an interrupt  *)
(* that names the region, at any time; the loop takes the events in its    *)
(* INTERRUPTS slot.  The stages that arm, reduce and release regions run   *)
(* in its PL_CONTROL slot; no stage owner is in the repository, so they    *)
(* make any of the calls, in the order of the life cycle that              *)
(* storage_ddr.h gives an owner.                                           *)
(***************************************************************************)
EXTENDS StorageDdr, Sequences, SequencesExt

CONSTANT EventDepth    \* QIRAN_IRQ_QUEUE_DEPTH, 8 in the code

ASSUME EventAssumption == EventDepth \in Nat

VARIABLES
    duty,     \* the slot of the cycle that runs
    events,   \* completions of the DMA interrupt queue not yet taken
    ready,    \* s_ready[0 .. s_ready_count - 1]
    filling,  \* regions the fabric is filling
    held,     \* raw regions the stages were given to reduce
    \* History:
    whole,    \* regions that hold one whole acquisition
    raced,    \* regions armed while an earlier arming of theirs was not settled
    missed    \* regions whose completion the full interrupt queue dropped

historyVars == <<whole, raced, missed>>
pathVars == <<ddrVars, duty, events, ready, filling, held, historyVars>>

PathInit ==
    /\ DdrInit
    /\ duty = "interrupts"
    /\ events = <<>> /\ ready = <<>>
    /\ filling = {} /\ held = {} /\ whole = {} /\ raced = {} /\ missed = {}

-----------------------------------------------------------------------------
EventRoom == Len(events) < EventDepth

\* The fabric finishes a region and its interrupt is queued, or dropped if full.
Complete(r) ==
    /\ r \in filling
    /\ filling' = filling \ {r}
    /\ whole' = whole \cup {r}
    /\ events' = IF EventRoom THEN Append(events, r) ELSE events
    /\ missed' = IF EventRoom THEN missed ELSE missed \cup {r}
    /\ UNCHANGED <<ddrVars, duty, ready, held, raced>>

\* Seeded fault: the region is worked out from what seems to be in flight.
RegionInFlight(datum) ==
    LET inFlight == {r \in Raw : owner[r] = "pl_dma"}
    IN  IF inFlight = {} THEN datum ELSE Min(inFlight)

\* complete(): the region is the one the interrupt named.
RegionOf(datum) == datum % RegionCount

ReadyRoom == Len(ready) < RegionCount

\* data_path_service_interrupts(), one turn of its loop: a region the fabric did
\* not own is refused; one it did is handed over and becomes ready.
TakeCompletion ==
    /\ duty = "interrupts" /\ events # <<>>
    /\ events' = Tail(events)
    /\ LET r == RegionOf(Head(events)) IN
       IF OwnedBy(r, "pl_dma")
       THEN /\ Handoff(r, "pl_dma", "ps")
            /\ ready' = IF ReadyRoom THEN Append(ready, r) ELSE ready
       ELSE UNCHANGED <<ddrVars, ready>>
    /\ UNCHANGED <<duty, filling, held, historyVars>>

CompletionsTaken ==
    /\ duty = "interrupts" /\ events = <<>>
    /\ duty' = "control"
    /\ UNCHANGED <<ddrVars, events, ready, filling, held, historyVars>>

-----------------------------------------------------------------------------
(* The stages. *)

\* An earlier arming is still filling the region, or its completion is queued.
Unsettled(r) == r \in filling \cup ToSet(events)

\* data_path_arm(): the first free slot of the channel, if there is one.
Arm(channel) ==
    /\ duty = "control"
    /\ FreeSlots(channel) # {}
    /\ LET r == Min(FreeSlots(channel)) IN
       /\ Handoff(r, "none", "pl_dma")
       /\ filling' = filling \cup {r}
       /\ whole' = whole \ {r}
       /\ raced' = IF Unsettled(r) THEN raced \cup {r} ELSE raced \ {r}
       /\ missed' = missed \ {r}
    /\ UNCHANGED <<duty, events, ready, held>>

\* Both slots are held: acquisition has outrun reduction.
ArmRefused(channel) ==
    /\ duty = "control"
    /\ FreeSlots(channel) = {}
    /\ UNCHANGED pathVars

\* A stage that gives up stops the fabric and releases what it was filling.
TakeBack(r) ==
    /\ duty = "control" /\ r \in Raw /\ owner[r] = "pl_dma"
    /\ ClearRegion(r, "pl_dma")
    /\ filling' = filling \ {r}
    /\ whole' = whole \ {r}
    /\ UNCHANGED <<duty, events, ready, held, raced, missed>>

ReadyAfterTake == Tail(ready)

\* data_path_take_ready(): the stage learns which region to reduce, ...
TakeReady ==
    /\ duty = "control" /\ ready # <<>>
    /\ ready' = ReadyAfterTake
    /\ held' = held \cup {Head(ready)}
    /\ UNCHANGED <<ddrVars, duty, events, filling, historyVars>>

\* ... says how much of it is used, appends what it derives to another region,
\* hands regions on, and releases them.
Reduces(r) ==
    /\ UNCHANGED held
    /\ \/ r \in held /\ SetUsed(r, "ps", Bytes)
       \/ r \notin Raw /\ Handoff(r, "none", "ps")
       \/ r \notin Raw /\ \E len \in 1 .. Bytes : AppendTo(r, "ps", len)
       \/ Handoff(r, "storage", "comms") \/ ClearRegion(r, "storage")
       \/ ClearRegion(r, "comms")

LetsGo(r) ==
    /\ r \in Raw => r \in held
    /\ Handoff(r, "ps", "storage") \/ ClearRegion(r, "ps")
    /\ held' = held \ {r}

Reduce(r) ==
    /\ duty = "control"
    /\ Reduces(r) \/ LetsGo(r)
    /\ UNCHANGED <<duty, events, ready, filling, historyVars>>

StagesDone ==
    /\ duty = "control"
    /\ duty' = "interrupts"
    /\ UNCHANGED <<ddrVars, events, ready, filling, held, historyVars>>

PathLoop == TakeCompletion \/ CompletionsTaken \/ StagesDone

PathNext ==
    \/ PathLoop
    \/ \E r \in Raw : Complete(r) \/ TakeBack(r)
    \/ \E channel \in 0 .. Channels - 1 : Arm(channel) \/ ArmRefused(channel)
    \/ TakeReady
    \/ \E r \in Region : Reduce(r)

\* The loop runs; the fabric and the stages owe nothing.
PathSpec == PathInit /\ [][PathNext]_pathVars /\ WF_pathVars(PathLoop)

-----------------------------------------------------------------------------
\* storage_ddr.h:11-14 and FW-44: the race between the fabric writing a buffer and
\* the processor reading it becomes a refused call.  What the fabric is still
\* filling is nobody else's.  A completion that was queued when its region was
\* taken back refutes this once the region is armed again: complete() knows a
\* region by its number alone.
RaceIsRefused ==
    \A r \in Raw :
        owner[r] \in {"ps", "storage", "comms"} => r \notin filling

\* Arming a region before an earlier arming of it is settled is the only way to
\* that race: any other region the processor, or anyone after it, reads is a whole
\* acquisition the fabric has let go of, whatever was taken back meanwhile and
\* however many completions the interrupt queue dropped.
ReadsWholeOnly ==
    \A r \in Raw :
        owner[r] \in {"ps", "storage", "comms"} /\ r \notin raced =>
            r \in whole /\ r \notin filling

\* No acquisition buffer is lost, races included: a region the fabric owns is being
\* filled, or its completion is on its way, or was one the full interrupt queue
\* dropped and counted; one handed to the processor waits to be offered or is
\* with the stage it was offered to, so the channel gets its slot back.
NoSlotLeaked ==
    \A r \in Raw :
        /\ owner[r] = "pl_dma" => r \in filling \cup ToSet(events) \cup missed
        /\ owner[r] = "ps" => r \in held \cup ToSet(ready)

\* A finished acquisition whose completion was not dropped is offered for reduction,
\* or was taken back.
FinishedIsOffered ==
    \A r \in Raw :
        owner[r] = "pl_dma" /\ r \notin filling \cup missed
            ~> r \in ToSet(ready) \/ owner[r] = "none"
=============================================================================
