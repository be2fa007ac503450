------------------------------ MODULE SpwLink -------------------------------
(***************************************************************************)
(* The manager of the SpaceWire link, src/src/comm/comm_spw_link.c: bring  *)
(* it up, watch it, decide when to stop trying.  comm_spw_link_service     *)
(* runs once per minor cycle and takes one step of the state machine; what *)
(* the fabric answers is any of its outcomes.                              *)
(*                                                                         *)
(* The retry counter is the occurrence count of QIRAN_FAULT_SPW_LINK in    *)
(* svc_fdir.c, which no code clears: it is kept here up to the limit it is *)
(* compared with.  Status words and the packets received are left out.     *)
(***************************************************************************)
EXTENDS Integers

CONSTANT LinkLimit    \* k_policy[QIRAN_FAULT_SPW_LINK].limit, 3 in the code

ASSUME LinkLimitAssumption == LinkLimit \in Nat \ {0}

VARIABLES
    link,         \* s_state
    budgetOver,   \* s_start_budget has expired
    linkFaults    \* svc_fdir_occurrences(QIRAN_FAULT_SPW_LINK), up to LinkLimit

linkVars == <<link, budgetOver, linkFaults>>

-----------------------------------------------------------------------------
\* comm_spw_link_set_ops(): the link operations are attached.
LinkInit ==
    /\ link = "down"
    /\ budgetOver = FALSE
    /\ linkFaults = 0

Running == link = "run"

\* svc_fdir_report(QIRAN_FAULT_SPW_LINK, ...).
ReportLink == linkFaults' = IF linkFaults < LinkLimit THEN linkFaults + 1 ELSE LinkLimit

\* svc_fdir_retries_exhausted() right after the report.
DownOrFailed == IF linkFaults + 1 >= LinkLimit THEN "failed" ELSE "down"

\* SPW_LINK_DOWN: the start is refused ...
StartRefused ==
    /\ link = "down"
    /\ ReportLink
    /\ link' = DownOrFailed
    /\ UNCHANGED budgetOver

\* ... or accepted, and has until the budget to bring the link up.
StartAccepted ==
    /\ link = "down"
    /\ link' = "starting"
    /\ budgetOver' = FALSE
    /\ UNCHANGED linkFaults

\* SPW_LINK_STARTING and SPW_LINK_RUN: a status that cannot be read, or a link
\* that ran and does not, drops the link without asking whether to stop trying.
LinkLost ==
    /\ link \in {"starting", "run"}
    /\ ReportLink
    /\ link' = "down"
    /\ UNCHANGED budgetOver

CameUp ==
    /\ link = "starting"
    /\ link' = "run"
    /\ budgetOver' = FALSE        \* svc_timeout_disarm()
    /\ UNCHANGED linkFaults

StartTimesOut ==
    /\ link = "starting"
    /\ budgetOver
    /\ ReportLink
    /\ link' = DownOrFailed
    /\ UNCHANGED budgetOver

\* A start within its budget, a link that runs on, a link given up.
LinkIdles ==
    /\ \/ link = "starting" /\ ~budgetOver
       \/ link \in {"run", "failed"}
    /\ UNCHANGED linkVars

LinkService ==
    \/ StartRefused \/ StartAccepted \/ LinkLost \/ CameUp
    \/ StartTimesOut \/ LinkIdles

\* comm_spw_link_service_interrupts(): an error event is one more report.
LinkError ==
    /\ ReportLink
    /\ UNCHANGED <<link, budgetOver>>

\* Time passes while the link is starting.
BudgetElapses ==
    /\ link = "starting" /\ ~budgetOver
    /\ budgetOver' = TRUE
    /\ UNCHANGED <<link, linkFaults>>

=============================================================================
