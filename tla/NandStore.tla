----------------------------- MODULE NandStore ------------------------------
(***************************************************************************)
(* The non-volatile store of a run's products and their transfer to the    *)
(* output queue, src/src/data/storage_nand.c.                              *)
(*                                                                         *)
(* Records have one size on the device, so an offset is the number of      *)
(* records before it and s_used is the number of them all.  What the       *)
(* device makes of a record (a header that describes none, a payload that  *)
(* fails its checksum) is chosen at each reading of it.  Failure counters  *)
(* and fault reports, on which nothing here is decided, are left out.      *)
(***************************************************************************)
EXTENDS Integers, Sequences

CONSTANTS
    Capacity,     \* records the device holds
    RecordLens,   \* lengths of records
    RecordClass,  \* class_of(): the classes records are sent under
    StageBytes,   \* NAND_TRANSFER_STAGE
    MaxStored     \* bound of the model: records stored

ASSUME CapacityAssumption == Capacity \in Nat \ {0} /\ MaxStored \in Nat
ASSUME StageAssumption    == StageBytes \in Nat /\ RecordLens \subseteq Nat \ {0}

VARIABLES
    store,        \* the records on the device; s_used and s_records
    sequence,     \* s_sequence, the number of the next record
    active,       \* s_transfer_active
    offset,       \* s_transfer_offset, as the number of records before it
    transferred,  \* s_transferred
    stage         \* s_stage: the record its bytes are, 0 for none

nandVars == <<store, sequence, active, offset, transferred, stage>>

-----------------------------------------------------------------------------
\* storage_nand_init() and storage_nand_set_ops().
NandInit ==
    /\ store = <<>> /\ sequence = 1
    /\ active = FALSE /\ offset = 0 /\ transferred = 0
    /\ stage = 0

\* storage_nand_store() that succeeds.
Store(cls, len) ==
    /\ ~active
    /\ Len(store) < Capacity
    /\ store' = Append(store, [number |-> sequence, cls |-> cls, len |-> len])
    /\ sequence' = sequence + 1
    /\ UNCHANGED <<active, offset, transferred, stage>>

\* storage_nand_store() refused by a transfer, a full device or a write that
\* fails: the used mark stays, so a partial record is never read.
StoreRefused == UNCHANGED nandVars

\* Seeded fault: the count of an earlier transfer is kept.
CountAtBeginKept == transferred

CountAtBegin == 0

\* storage_nand_transfer_begin().
TransferBegin ==
    /\ ~active
    /\ active' = TRUE /\ offset' = 0 /\ transferred' = CountAtBegin
    /\ UNCHANGED <<store, sequence, stage>>

\* storage_nand_transfer_complete().
TransferComplete == ~active /\ transferred = Len(store) /\ store # <<>>

Clearable == ~active /\ (store # <<>> => transferred = Len(store))

\* storage_nand_clear() that succeeds ...
ClearStore ==
    /\ Clearable
    /\ store' = <<>> /\ offset' = 0 /\ transferred' = 0
    /\ UNCHANGED <<sequence, active, stage>>

\* ... and that is refused, or whose erase fails.
ClearRefused == UNCHANGED nandVars

-----------------------------------------------------------------------------
(* storage_nand_transfer_service(): one record per call. *)

Current == store[offset + 1]
Reading == active /\ offset < Len(store)

\* Seeded fault: a record passed over is not moved past.
OffsetKept == offset

OffsetAfterSkip == offset + 1

\* Nothing is left: the transfer is over.
TransferEnd ==
    /\ active /\ offset >= Len(store)
    /\ active' = FALSE
    /\ UNCHANGED <<store, sequence, offset, transferred, stage>>

\* A header that cannot be read, or describes no record, stops the transfer.
HeaderStops ==
    /\ Reading
    /\ active' = FALSE
    /\ UNCHANGED <<store, sequence, offset, transferred, stage>>

\* A record too long for the staging buffer is passed over.
SkipLong ==
    /\ Reading /\ Current.len > StageBytes
    /\ offset' = OffsetAfterSkip
    /\ UNCHANGED <<store, sequence, active, transferred, stage>>

Stageable == Reading /\ Current.len <= StageBytes

\* A payload that cannot be read stops the transfer; what it left in the staging
\* buffer is nobody's record.
PayloadStops ==
    /\ Stageable
    /\ stage' = 0
    /\ active' = FALSE
    /\ UNCHANGED <<store, sequence, offset, transferred>>

\* A payload that fails its checksum is read in full and passed over.
SkipWorn ==
    /\ Stageable
    /\ stage' = 0
    /\ offset' = OffsetAfterSkip
    /\ UNCHANGED <<store, sequence, active, transferred>>

\* The record is staged; if the queue takes it the transfer moves on, if not the
\* same record is read and offered again at the next call.
StageTaken ==
    /\ Stageable
    /\ stage' = Current.number
    /\ offset' = offset + 1
    /\ transferred' = transferred + 1
    /\ UNCHANGED <<store, sequence, active>>

StageRefused ==
    /\ Stageable
    /\ stage' = Current.number
    /\ UNCHANGED <<store, sequence, active, offset, transferred>>

=============================================================================
