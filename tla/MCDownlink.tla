----------------------------- MODULE MCDownlink -----------------------------
(* A store of two records and a queue of two entries, shared with one       *)
(* producer of more urgent packets.                                         *)
EXTENDS Downlink

MCPriority == [raw |-> 4, event |-> 0]
=============================================================================
