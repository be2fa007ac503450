------------------------------ MODULE Downlink ------------------------------
(***************************************************************************)
(* The way of a run's products to the observer: the store (NandStore)      *)
(* hands records to the output queue (OutputQueue), which sends them over  *)
(* the link (SpwLink), in the order of main.c's loop:                      *)
(*   INTERRUPTS (link errors), COMMS (the link, then the queue),           *)
(*   PL_CONTROL (stage owners store, begin and clear; others submit),      *)
(*   DATA_PATH (data_path_manage, one record of the transfer).             *)
(***************************************************************************)
EXTENDS SpwLink, OutputQueue, NandStore

CONSTANTS
    EventClass,    \* the class of what producers other than the store submit
    EventLens,     \* lengths they submit
    MaxSubmitted   \* bound of the model: packets submitted

ASSUME DownlinkAssumption ==
    /\ RecordClass \cup {EventClass} \subseteq OutClass
    /\ EventLens \subseteq Nat /\ MaxSubmitted \in Nat
\* A record that fits the staging buffer fits a packet: 512 + 10 <= 1024.
ASSUME StageFitsPacket == StageBytes + Overhead <= PacketBytes

VARIABLES
    turn,      \* the slot of the minor cycle that runs next
    handling,  \* mission_stage() = STAGE_DATA_HANDLING
    \* History:
    gone       \* what the link took from the staging buffer: the record a
               \* descriptor was to send, with the record whose bytes went

vars == <<linkVars, queueVars, nandVars, turn, handling, gone>>

-----------------------------------------------------------------------------
Init ==
    /\ LinkInit /\ QueueInit /\ NandInit
    /\ turn = "interrupts"
    /\ handling = FALSE
    /\ gone = {}

\* EXEC_TASK_INTERRUPTS: comm_spw_link_service_interrupts() drains its events.
LinkErrors ==
    /\ turn = "interrupts"
    /\ LinkError
    /\ UNCHANGED <<queueVars, nandVars, turn, handling, gone>>

InterruptsDrained ==
    /\ turn = "interrupts"
    /\ turn' = "link"
    /\ UNCHANGED <<linkVars, queueVars, nandVars, handling, gone>>

\* EXEC_TASK_COMMS: comm_spw_link_service(), once.
ServiceLink ==
    /\ turn = "link"
    /\ LinkService
    /\ turn' = "output"
    /\ UNCHANGED <<queueVars, nandVars, handling, gone>>

\* What an entry takes out of the staging buffer.
FromStage(i) == IF slot[i].buffer = "stage" THEN {<<slot[i].want, stage>>} ELSE {}

\* EXEC_TASK_COMMS: comm_output_service() sends while the link takes packets; a
\* refusal is reported by comm_spw_link_send() and ends the pass.
ServiceOutput ==
    /\ turn = "output"
    /\ \/ /\ Running /\ (DropOne \/ SendOne)
          /\ gone' = IF sent' = sent THEN gone ELSE gone \cup FromStage(Pick)
          /\ UNCHANGED <<turn, linkVars>>
       \/ /\ Running /\ SendRefused
          /\ ReportLink /\ UNCHANGED <<link, budgetOver, gone>>
          /\ turn' = "control"
       \/ /\ ~Running \/ Used = {}
          /\ turn' = "control" /\ UNCHANGED <<linkVars, queueVars, gone>>
    /\ UNCHANGED <<nandVars, handling>>

\* EXEC_TASK_PL_CONTROL: the stage owners use the store.
StageUsesStore ==
    /\ turn = "control"
    /\ \/ /\ sequence <= MaxStored
          /\ \E cls \in RecordClass, len \in RecordLens : Store(cls, len)
       \/ TransferBegin
       \/ ClearStore
       \/ StoreRefused
       \/ ClearRefused
    /\ UNCHANGED <<linkVars, queueVars, turn, handling, gone>>

\* Others submit from buffers of their own, which they leave alone.
OthersSubmit ==
    /\ turn = "control"
    /\ submitted < MaxSubmitted
    /\ \E len \in EventLens :
           Accepted(EventClass, len, "own", 0) \/ Refused(len)
    /\ UNCHANGED <<linkVars, nandVars, turn, handling, gone>>

\* mission_seq_step() enters or leaves the stage that owns the transfer.
ControlEnds ==
    /\ turn = "control"
    /\ handling' \in BOOLEAN
    /\ turn' = "data"
    /\ UNCHANGED <<linkVars, queueVars, nandVars, gone>>

\* EXEC_TASK_DATA_PATH: storage_nand_transfer_service() in its stage.
TransferRecord ==
    \/ /\ TransferEnd \/ HeaderStops \/ SkipLong \/ PayloadStops \/ SkipWorn
       /\ UNCHANGED queueVars
    \/ /\ submitted < MaxSubmitted
       /\ StageTaken
       /\ Accepted(Current.cls, Current.len, "stage", Current.number)
    \/ /\ StageRefused
       /\ Refused(Current.len)

DataPath ==
    /\ turn = "data"
    /\ \/ handling /\ TransferRecord
       \/ ~(handling /\ active) /\ UNCHANGED <<queueVars, nandVars>>
    /\ turn' = "interrupts"
    /\ UNCHANGED <<linkVars, handling, gone>>

ClockRuns ==
    /\ BudgetElapses
    /\ UNCHANGED <<queueVars, nandVars, turn, handling, gone>>

Loop == InterruptsDrained \/ ServiceLink \/ ServiceOutput \/ ControlEnds \/ DataPath

Next ==
    \/ Loop
    \/ LinkErrors \/ StageUsesStore \/ OthersSubmit \/ ClockRuns

\* The processor runs the loop; what the others do is up to them.
Spec == Init /\ [][Next]_vars /\ WF_vars(Loop)

-----------------------------------------------------------------------------
\* Records a descriptor in the queue was made for, and those it can still send.
Queued  == {slot[i].want : i \in {j \in Used : slot[j].buffer = "stage"}}
Intact  == Queued \cap {stage}
SentFor == {g[1] : g \in gone}
Sent    == {g[1] : g \in {h \in gone : h[1] = h[2]}}

\* Whenever the count that permits an erase matches, each record in the store has
\* a descriptor of its own in the queue or already sent: no passing over, stopping
\* early, beginning again or storing more makes them add up.  That its bytes have
\* gone, as storage_nand.h:52 has it, is more than the count shows.
ErasableWasQueued ==
    Clearable => \A i \in 1 .. Len(store) : store[i].number \in SentFor \cup Queued

\* FW-48: an erase does not destroy what had not gone.  A record whose own bytes were
\* sent, or are safe in the staging buffer with a descriptor that points at them,
\* is not lost with the store.  The next transfer step refills that buffer while
\* the descriptor is queued, and the erase counts the record as transferred: the
\* code refutes this, and with it the rule of comm_output.h:17-19 that a
\* descriptor's buffer is left alone until it has been sent.
ErasesNothingUnsent ==
    [][store # <<>> /\ store' = <<>> =>
          \A i \in 1 .. Len(store) : store[i].number \in Sent \cup Intact]_vars

\* comm_output.c:102-104 and FW-41: among equal priorities the earliest submission
\* goes first.  A freed slot below an older entry refutes this.
EarliestFirst ==
    [][\A i \in Used : sent' = sent + 1 /\ slot'[i] = Free =>
          \A j \in Used :
              Priority[slot[i].cls] = Priority[slot[j].cls]
                  => slot[i].since <= slot[j].since]_vars

\* While its stage lasts and the queue keeps finding room, a transfer ends,
\* whatever the device makes of the records, and the store is usable again.
TransferEnds ==
    ([]<>(turn = "data" /\ HasRoom) /\ <>[]handling) => (active ~> ~active)
=============================================================================
