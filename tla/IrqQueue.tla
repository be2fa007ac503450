------------------------------ MODULE IrqQueue ------------------------------
(***************************************************************************)
(* The event queue of one interrupt source, src/src/plat/plat_irq.c.       *)
(*                                                                         *)
(* Producer: irq_handler, which runs to completion between any two steps   *)
(* of the loop.  Consumer: plat_irq_take in the loop, which reads head,    *)
(* copies the event word by word and only then releases the slot.  There   *)
(* is no lock: head belongs to the interrupt, tail to the loop, both run   *)
(* free and wrap, and the slot is the index masked by the depth.           *)
(***************************************************************************)
EXTENDS Integers, Sequences

CONSTANTS
    Data,           \* status snapshots an acknowledge hook may return
    Depth,          \* QIRAN_IRQ_QUEUE_DEPTH, 8 in the code
    Modulus,        \* where head and tail wrap, 2^32 in the code
    SeqModulus,     \* where seq wraps, 2^16 in the code
    MaxInterrupts   \* bound of the model: interrupts taken

ASSUME DataAssumption    == Data # {}
ASSUME DepthAssumption   == Depth \in Nat \ {0}
\* The mask of a free-running index is only a slot if the depth divides the wrap.
ASSUME ModulusAssumption ==
    Modulus \in Nat \ {0} /\ Modulus % Depth = 0 /\ Depth < Modulus
ASSUME SeqAssumption     == SeqModulus \in Nat \ {0}
ASSUME BoundAssumption   == MaxInterrupts \in Nat

VARIABLES
    q,          \* the slots
    head,       \* written by the handler only
    tail,       \* written by the loop only
    taken,      \* interrupts serviced
    dropped,    \* events lost to a full queue
    seq,        \* stamp of the next event
    pc,         \* where plat_irq_take is
    out,        \* the caller's copy of the event
    delivered   \* history: events plat_irq_take returned

handlerVars == <<q, head, taken, dropped, seq>>
loopVars    == <<tail, pc, out, delivered>>
vars        == <<handlerVars, loopVars>>

Event == [datum : Data, seq : 0 .. SeqModulus - 1]
Blank == [datum |-> CHOOSE d \in Data : TRUE, seq |-> 0]

-----------------------------------------------------------------------------
SlotOf(index) == index % Depth           \* index & Q_MASK
Used          == (head - tail) % Modulus

\* Seeded faults of the full test.
FullAtOneMore == Used > Depth
FullByOrder   == head - tail > Depth - 1

\* (head - tail) > Q_MASK
Full == Used > Depth - 1

\* Seeded fault: a dropped event takes no stamp.
SeqAfterAccepted == IF Full THEN seq ELSE (seq + 1) % SeqModulus

\* The stamp advances even on a drop.
SeqAfter == (seq + 1) % SeqModulus

-----------------------------------------------------------------------------
\* plat_irq_init(): the counters are cleared; the slots keep what they held.
Init ==
    /\ q = [i \in 0 .. Depth - 1 |-> Blank]
    /\ head = 0 /\ tail = 0
    /\ taken = 0 /\ dropped = 0 /\ seq = 0
    /\ pc = "idle" /\ out = Blank
    /\ delivered = <<>>

\* irq_handler(): acknowledge, then publish one event or count one drop.
Interrupt(d) ==
    /\ taken < MaxInterrupts
    /\ taken' = taken + 1
    /\ IF Full
       THEN dropped' = dropped + 1 /\ UNCHANGED <<q, head>>
       ELSE /\ q' = [q EXCEPT ![SlotOf(head)] = [datum |-> d, seq |-> seq]]
            /\ head' = (head + 1) % Modulus
            /\ UNCHANGED dropped
    /\ seq' = SeqAfter
    /\ UNCHANGED loopVars

\* plat_irq_take(), up to the comparison of head with tail: nothing pending ...
TakeNothing ==
    /\ pc = "idle"
    /\ head = tail
    /\ UNCHANGED vars

\* ... or an event to copy.
TakeBegin ==
    /\ pc = "idle"
    /\ head # tail
    /\ pc' = "datum"
    /\ UNCHANGED <<handlerVars, tail, out, delivered>>

\* *out = q[tail & Q_MASK] is several loads; the handler may run between them.
CopyDatum ==
    /\ pc = "datum"
    /\ out' = [out EXCEPT !.datum = q[SlotOf(tail)].datum]
    /\ pc' = "seq"
    /\ UNCHANGED <<handlerVars, tail, delivered>>

CopySeq ==
    /\ pc = "seq"
    /\ out' = [out EXCEPT !.seq = q[SlotOf(tail)].seq]
    /\ pc' = "release"
    /\ UNCHANGED <<handlerVars, tail, delivered>>

\* After the barrier, tail moves past the slot and the caller has its event.
Release ==
    /\ pc = "release"
    /\ tail' = (tail + 1) % Modulus
    /\ delivered' = Append(delivered, out)
    /\ pc' = "idle"
    /\ UNCHANGED <<handlerVars, out>>

Consume == TakeBegin \/ CopyDatum \/ CopySeq \/ Release
Next    == TakeNothing \/ Consume \/ \E d \in Data : Interrupt(d)

\* The interrupt owes nothing; every source is drained by a task of every cycle.
Spec == Init /\ [][Next]_vars /\ WF_vars(Consume)

-----------------------------------------------------------------------------
\* Types, and with them that no index leaves its width.
TypeOK ==
    /\ q \in [0 .. Depth - 1 -> Event]
    /\ head \in 0 .. Modulus - 1 /\ tail \in 0 .. Modulus - 1
    /\ taken \in Nat /\ dropped \in Nat
    /\ seq \in 0 .. SeqModulus - 1
    /\ pc \in {"idle", "datum", "seq", "release"}
    /\ out \in Event
    /\ delivered \in Seq(Event)

\* Every interrupt is accounted for: delivered, still queued or counted as
\* dropped, through any number of wraps of the indices.
InterruptsConserved ==
    taken = Len(delivered) + Used + dropped

\* The event about to be handed to the caller is one event, not halves of two:
\* the handler never reuses a slot the loop is still reading.
NoTornEvent ==
    pc = "release" => out = q[SlotOf(tail)]

\* The indices implement the abstract queue: same order, same stamps, refusal
\* only when Depth events are waiting, and everything accepted is delivered.
Waiting == [i \in 1 .. Used |-> q[SlotOf(tail + i - 1)]]

Abstract == INSTANCE LossyQueue WITH
    Capacity <- Depth, Stamps <- SeqModulus,
    queue <- Waiting, delivered <- delivered, offered <- taken, refused <- dropped

ImplementsLossyQueue == Abstract!Spec

=============================================================================
