---------------------------- MODULE MCSupervision ----------------------------
(* The interval of housekeeping, which a command may change in flight, and a  *)
(* parameter it may not; the two gating monitors and an advisory one.  The    *)
(* timeout lies between the tolerance of exec_timing and the period of        *)
(* config_integrity, as 5 does between 2 and 25.                              *)
EXTENDS Supervision

MCLegal     == [hk |-> {1, 2}, budget |-> {1, 2}]
MCDefault   == [hk |-> 2, budget |-> 1]
MCPeriod    == <<1, 4, 2>>
MCTolerance == <<2, 1, 0>>
=============================================================================
