----------------------------- MODULE PacketLayer -----------------------------
(***************************************************************************)
(* The receiving side of the packet layer, comm_ccsds_receive() of         *)
(* src/src/comm/comm_ccsds.c, for the class that has a consumer: commands. *)
(* The observer's side numbers its packets as comm_ccsds_build() does.     *)
(*                                                                         *)
(* The link may lose a packet or damage it; the checksum covers the        *)
(* application data alone, so damage to the count or to the identifier     *)
(* goes unseen.  The counters that nothing decides on are left out, but    *)
(* for that of the gaps.                                                   *)
(***************************************************************************)
EXTENDS Integers

CONSTANTS
    Counts,        \* CCSDS_SEQ_COUNT_MAX + 1, 16384 in the code
    MaxTampered    \* bound of the model: packets that arrive under a wrong count

ASSUME CountsAssumption == Counts \in Nat \ {0} /\ MaxTampered \in Nat

VARIABLES
    built,      \* packets of the class built, the observer's count before it wraps
    seen,       \* s_rx_seen
    expect,     \* s_rx_expect
    gaps,       \* s_gaps
    \* History:
    followed,   \* the packet followed last, numbered from one; 0 for none
    losses,     \* runs of missing packets between two that were followed
    tampered    \* packets followed under a count that was not theirs

packetVars == <<built, seen, expect, gaps, followed, losses, tampered>>

Count == 0 .. Counts - 1

PacketInit ==
    /\ built = 0
    /\ seen = FALSE /\ expect = 0 /\ gaps = 0
    /\ followed = 0 /\ losses = 0 /\ tampered = 0

\* s_tx_count of the n-th packet built.
CountOf(n) == (n - 1) % Counts

\* Seeded fault: the expectation moves on by itself.
ExpectOneMore(count) == (expect + 1) % Counts

\* A gap is adopted: what arrived is followed.
ExpectAfter(count) == (count + 1) % Counts

\* Seeded fault: the first packet of all is compared, too.
IsGapFromZero(count) == count # expect

IsGap(count) == seen /\ count # expect

\* The header and the checksum hold and the identifier is that of the class.
Follow(count) ==
    /\ gaps' = IF IsGap(count) THEN gaps + 1 ELSE gaps
    /\ seen' = TRUE
    /\ expect' = ExpectAfter(count)

\* A run of a multiple of Counts leaves no trace in the counts.
RunEndsAt(n) == followed > 0 /\ (n - followed - 1) % Counts # 0

\* The next packet arrives, its length and its data being whole.
ReceiveNext ==
    /\ built' = built + 1
    /\ Follow(CountOf(built + 1))
    /\ losses' = IF RunEndsAt(built + 1) THEN losses + 1 ELSE losses
    /\ followed' = built + 1
    /\ UNCHANGED tampered

\* It arrives, and its count does not match any longer.
ReceiveTampered(count) ==
    /\ tampered < MaxTampered /\ count # CountOf(built + 1)
    /\ built' = built + 1
    /\ Follow(count)
    /\ losses' = IF RunEndsAt(built + 1) THEN losses + 1 ELSE losses
    /\ followed' = built + 1
    /\ tampered' = tampered + 1

\* A packet of another class arrives under the identifier of this one.
ReceiveForeign(count) ==
    /\ tampered < MaxTampered
    /\ Follow(count)
    /\ tampered' = tampered + 1
    /\ UNCHANGED <<built, losses, followed>>

\* It is refused: its length is not what it declares, its data fails the checksum,
\* or its identifier is that of no class or of another.
RefuseNext ==
    /\ built' = built + 1
    /\ UNCHANGED <<seen, expect, gaps, followed, losses, tampered>>

PacketNext ==
    \/ ReceiveNext \/ RefuseNext
    \/ \E count \in Count : ReceiveTampered(count) \/ ReceiveForeign(count)

PacketSpec == PacketInit /\ [][PacketNext]_packetVars

-----------------------------------------------------------------------------
\* FW-40: one report for each discontinuity and none without: whatever was lost,
\* refused for its data or overtaken by the wrap of the count, the gaps counted are
\* the runs of missing packets, as long as no header is damaged.
OneGapPerLoss == tampered = 0 => gaps = losses

\* comm_ccsds.c:288-291: adopting the count ends the disturbance: a packet under a
\* wrong count makes for two false reports at most, itself and its successor, and
\* never hides more than two.
DisturbanceEnds ==
    /\ gaps   <= losses + 2 * tampered
    /\ losses <= gaps + 2 * tampered

\* FW-40 and comm_ccsds.c:288-289: a corrupted count is not mistaken for a lost
\* packet.
CorruptIsNotLost == losses = 0 => gaps = 0
=============================================================================
