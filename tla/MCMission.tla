------------------------------ MODULE MCMission ------------------------------
(* Four stages: one with a class of its own and a budget, the detector stage *)
(* (severe class, no limit), and two that share a class which the data path   *)
(* reports as well, as EXPERIMENT and PROCESS share DDR_OVERRUN.              *)
EXTENDS Mission

\* Classes: 1 detector (severe), 2 link, 3 tuning, 4 shared.
MCLimit       == <<0, 2, 2, 2>>
MCStageFault  == <<3, 1, 4, 4>>
MCNamedFaults == <<{4}, {}, {}, {3}>>
=============================================================================
