----------------------------- MODULE ConfigStore -----------------------------
(***************************************************************************)
(* The configuration block, src/src/svc/svc_config.c: live values under a  *)
(* checksum, limits, a lock, and an image in a store that may not answer.  *)
(* The checksum of a block is the block it was computed over.  An upset    *)
(* changes a live value, or the checksum, behind the setter's back.        *)
(* Calibration, which nothing here decides on, is left out.                *)
(***************************************************************************)
EXTENDS Integers

CONSTANTS
    Param,         \* svc_config_param_t
    Value,         \* what a live value may hold
    Legal,         \* k_def[].min .. k_def[].max of each
    Default,       \* k_def[].def
    InFlight,      \* k_def[].writable_in_flight
    Short          \* parameters an image of an earlier build may lack

ASSUME ConfigAssumption ==
    /\ Legal \in [Param -> SUBSET Value]
    /\ Default \in [Param -> Value] /\ \A p \in Param : Default[p] \in Legal[p]
    /\ InFlight \subseteq Param /\ Short \subseteq Param

VARIABLES
    value,     \* s_value
    summed,    \* the block s_live_crc was computed over, or NoBlock
    locked,    \* s_locked
    image,     \* what the store holds, NoStore if none is attached
    \* History:
    meant,     \* the block as it was last set, parameter by parameter, or restored
    sealed,    \* parameters nobody set a setting of another was summed over
    kept       \* parameters nobody set a correction from the store left alone

historyVars == <<meant, sealed, kept>>
configVars == <<value, summed, locked, image, historyVars>>

Block   == [Param -> Value]
NoBlock == [p \in {} |-> 0]
\* Intact by magic, version and checksum, but of how many parameters?
Image   == [intact : {TRUE}, holds : {Param, Param \ Short}, values : Block]
\* A store that is erased or damaged, and none at all.
Blank   == [intact |-> FALSE, holds |-> {}, values |-> Default]
NoStore == [intact |-> FALSE, holds |-> {}, values |-> NoBlock]

-----------------------------------------------------------------------------
InRange(p, v) == v \in Legal[p]

\* What svc_config_set, load_defaults and read_params do to the block.
Leave(block) == value' = block /\ summed' = block

\* svc_config_init(), before the start-up that may attach a store.
ConfigInit ==
    /\ value = Default /\ summed = Default
    /\ locked = FALSE
    /\ image \in {NoStore, Blank} \cup
                 [intact : {TRUE}, holds : {Param, Param \ Short}, values : {Default}]
    /\ meant = Default /\ sealed = {} /\ kept = {}

Disturbed == {p \in Param : value[p] # meant[p]}

\* svc_config_set() by a command handler; out of range or locked, it is refused.
Set(p, v) ==
    /\ InRange(p, v) /\ (locked => p \in InFlight)
    /\ Leave([value EXCEPT ![p] = v])
    /\ meant' = [meant EXCEPT ![p] = v]
    /\ sealed' = Disturbed \ {p} /\ kept' = kept \ {p}
    /\ UNCHANGED <<locked, image>>

\* svc_config_save(): whatever is live, without verifying it first.  A write that
\* fails leaves what was there, or damages it.
Save ==
    /\ image # NoStore
    /\ image' \in {[intact |-> TRUE, holds |-> Param, values |-> value], image, Blank}
    /\ UNCHANGED <<value, summed, locked, historyVars>>

\* read_params(): a value outside its limits becomes the default; one the image
\* does not hold stays what it is.
Taken(live) ==
    [p \in Param |-> IF p \notin image.holds THEN live[p]
                     ELSE IF InRange(p, image.values[p]) THEN image.values[p]
                     ELSE Default[p]]
Corrected == \E p \in image.holds : ~InRange(p, image.values[p])

\* The live block is replaced as a whole, ...
Restore(block) ==
    /\ Leave(block)
    /\ meant' = block /\ sealed' = {} /\ kept' = {}
    /\ UNCHANGED image

\* ... or as far as the image goes.
RestoreImage ==
    /\ Leave(Taken(value))
    /\ meant' = Taken(meant)
    /\ sealed' = {} /\ kept' = Disturbed \ image.holds
    /\ UNCHANGED image

\* svc_config_init(), svc_config_load() if a store is attached, svc_config_lock().
StartUp(answers) ==
    /\ Restore(IF image.intact /\ answers THEN Taken(Default) ELSE Default)
    /\ locked' = TRUE

\* Seeded faults: one of the two tests of svc_config_verify() is left out.
IntactByRange    == \A p \in Param : InRange(p, value[p])
IntactByChecksum == summed = value

Intact == summed = value /\ \A p \in Param : InRange(p, value[p])

\* svc_config_verify(): the store is authoritative if it answers and had nothing
\* to correct; otherwise the defaults are.
Verify(answers) ==
    IF Intact
    THEN UNCHANGED configVars
    ELSE /\ IF image.intact /\ answers /\ ~Corrected THEN RestoreImage
                                                     ELSE Restore(Default)
         /\ UNCHANGED locked

\* A bit of the live block, or of its checksum, flips.
FlipValue(p, v) ==
    /\ v # value[p]
    /\ value' = [value EXCEPT ![p] = v]
    /\ UNCHANGED <<summed, locked, image, historyVars>>
FlipChecksum ==
    /\ summed' = NoBlock
    /\ UNCHANGED <<value, locked, image, historyVars>>
=============================================================================
