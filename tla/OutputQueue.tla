---------------------------- MODULE OutputQueue -----------------------------
(***************************************************************************)
(* The outbound queue, src/src/comm/comm_output.c: a table of descriptors  *)
(* that point at their producers' buffers, drained in order of class.      *)
(* Only the cyclic loop touches it.                                        *)
(*                                                                         *)
(* Of a packet, its class, its length and whose buffer it is in are kept;   *)
(* the record it was to send and when it was submitted are history.        *)
(***************************************************************************)
EXTENDS Integers, FiniteSets, FiniteSetsExt

CONSTANTS
    Depth,        \* COMM_OUTPUT_DEPTH, 16 in the code
    OutClass,     \* the classes producers submit
    Priority,     \* k_priority: lower is sent sooner
    PacketBytes,  \* OUTPUT_PACKET_BYTES
    Overhead      \* CCSDS primary header and integrity bytes

ASSUME DepthAssumption  == Depth \in Nat \ {0}
ASSUME LengthAssumption == PacketBytes \in Nat /\ Overhead \in Nat
ASSUME PriorityAssumption == Priority \in [OutClass -> Nat]

VARIABLES
    slot,        \* s_slot
    pending,     \* s_pending
    submitted,   \* s_submitted
    sent,        \* s_sent
    failed       \* s_failed

queueVars == <<slot, pending, submitted, sent, failed>>

-----------------------------------------------------------------------------
Slot == 1 .. Depth

\* An entry with used = FALSE, whose other fields mean nothing.
Free == [used |-> FALSE]

\* A descriptor: what it points at is the buffer.  The record the producer meant
\* to send (want) and the number of the submission (since) are history.
Descriptor(cls, len, buffer, want) ==
    [used |-> TRUE, cls |-> cls, len |-> len, buffer |-> buffer,
     want |-> want, since |-> submitted]

QueueInit ==
    /\ slot = [i \in Slot |-> Free]
    /\ pending = 0 /\ submitted = 0 /\ sent = 0 /\ failed = 0

Used == {i \in Slot : slot[i].used}

\* Seeded fault: what is put around the data is forgotten.
AcceptsBare(len) == len <= PacketBytes

\* The length test of comm_output_submit() ...
Accepts(len) == len + Overhead <= PacketBytes

\* ... and that of comm_ccsds_build(), into the one packet buffer.
Packetisable(len) == Overhead + len <= PacketBytes

HasRoom == Used # Slot

\* comm_output_submit() that succeeds: the first slot free takes it.
Accepted(cls, len, buffer, want) ==
    /\ Accepts(len) /\ HasRoom
    /\ slot' = [slot EXCEPT ![Min(Slot \ Used)] = Descriptor(cls, len, buffer, want)]
    /\ pending' = pending + 1
    /\ submitted' = submitted + 1
    /\ UNCHANGED <<sent, failed>>

\* comm_output_submit() that fails: the length is out of range, or all is used.
Refused(len) ==
    /\ ~Accepts(len) \/ ~HasRoom
    /\ UNCHANGED queueVars

\* pick(): the lowest index among those of the best priority.
Best == Min({Priority[slot[i].cls] : i \in Used})
Pick == Min({i \in Used : Priority[slot[i].cls] = Best})

Release(i) ==
    /\ slot' = [slot EXCEPT ![i] = Free]
    /\ pending' = pending - 1
    /\ UNCHANGED submitted

\* One turn of the loop of comm_output_service(), on a link that runs: an entry
\* nothing can packetise is dropped, one the link takes is released, ...
DropOne ==
    /\ Used # {} /\ ~Packetisable(slot[Pick].len)
    /\ Release(Pick)
    /\ failed' = failed + 1 /\ UNCHANGED sent

SendOne ==
    /\ Used # {} /\ Packetisable(slot[Pick].len)
    /\ Release(Pick)
    /\ sent' = sent + 1 /\ UNCHANGED failed

\* ... and one the link refuses stays where it is and ends the pass.
SendRefused ==
    /\ Used # {} /\ Packetisable(slot[Pick].len)
    /\ UNCHANGED queueVars

-----------------------------------------------------------------------------
\* What was accepted is sent or still held: no path of submission, refusal and
\* release loses a descriptor or counts one twice, and what submission accepts
\* transmission never has to drop.
QueueConserved ==
    /\ pending = Cardinality(Used)
    /\ submitted = sent + pending
    /\ failed = 0
=============================================================================
