----------------------------- MODULE StorageDdr -----------------------------
(***************************************************************************)
(* Regions of external memory and who owns each,                           *)
(* src/src/data/storage_ddr.c.  Ownership is stated by every caller and    *)
(* checked against the record, never inferred; only the cyclic loop calls. *)
(*                                                                         *)
(* The contents of a region are left out; how much of it is used is kept.  *)
(***************************************************************************)
EXTENDS Integers

CONSTANTS
    Channels,  \* DDR_CHANNELS, 2 in the code
    RawSlots,  \* DDR_RAW_SLOTS, 2 in the code
    Others,    \* regions after the raw ones, 3 in the code
    Bytes      \* capacity of every region

ASSUME RegionAssumption ==
    /\ Channels \in Nat \ {0} /\ RawSlots \in Nat \ {0}
    /\ Others \in Nat /\ Bytes \in Nat \ {0}

VARIABLES
    owner,  \* s_region[].owner
    used    \* s_region[].used

ddrVars == <<owner, used>>

RawCount    == Channels * RawSlots
RegionCount == RawCount + Others
Region      == 0 .. RegionCount - 1
Raw         == 0 .. RawCount - 1
SlotsOf(channel) == {channel * RawSlots + i : i \in 0 .. RawSlots - 1}

Owner == {"none", "pl_dma", "ps", "storage", "comms"}

-----------------------------------------------------------------------------
\* storage_ddr_init(), and storage_ddr_set_region() for every region.
DdrInit ==
    /\ owner = [r \in Region |-> "none"]
    /\ used = [r \in Region |-> 0]

\* Seeded fault: whoever calls is believed.
OwnedByAnyone(r, from) == TRUE

\* The check every operation makes; a caller that fails it is refused and
\* reported, and nothing changes.
OwnedBy(r, from) == owner[r] = from

\* storage_ddr_handoff().
Handoff(r, from, to) ==
    /\ OwnedBy(r, from)
    /\ owner' = [owner EXCEPT ![r] = to]
    /\ UNCHANGED used

\* storage_ddr_clear().
ClearRegion(r, from) ==
    /\ OwnedBy(r, from)
    /\ owner' = [owner EXCEPT ![r] = "none"]
    /\ used' = [used EXCEPT ![r] = 0]

\* Refused rather than truncated.
Fits(r, len) == len <= Bytes - used[r]

\* storage_ddr_append().
AppendTo(r, from, len) ==
    /\ OwnedBy(r, from) /\ Fits(r, len)
    /\ used' = [used EXCEPT ![r] = @ + len]
    /\ UNCHANGED owner

\* storage_ddr_set_used().
SetUsed(r, from, n) ==
    /\ OwnedBy(r, from) /\ n <= Bytes
    /\ used' = [used EXCEPT ![r] = n]
    /\ UNCHANGED owner

\* storage_ddr_free_raw_slot() chooses among these.
FreeSlots(channel) == {r \in SlotsOf(channel) : owner[r] = "none"}

=============================================================================
