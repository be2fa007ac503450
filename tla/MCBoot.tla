------------------------------- MODULE MCBoot -------------------------------
(* The five classes of the boot steps in the order of k_policy, then the     *)
(* link's; two outputs; a device each of two tiers and one nobody requires.  *)
EXTENDS Boot

MCLimit     == <<2, 0, 2, 2, 2, 2>>
MCStepFault == <<2, 1, 3, 4, 5>>
MCTier      == [bus |-> 1, sensor |-> 2, spare |-> 2]
MCDevice    == {"bus", "sensor", "spare"}
MCRequired  == {"bus", "sensor"}
=============================================================================
