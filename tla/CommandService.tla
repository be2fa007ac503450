--------------------------- MODULE CommandService ---------------------------
(***************************************************************************)
(* What the ground may rely on, whichever link a command takes and in      *)
(* whatever pieces its bytes arrive: a command gets a final result, alone  *)
(* or after one acceptance, and none after that; a command that was        *)
(* accepted and not yet finished runs alone, and it ends.                  *)
(***************************************************************************)
EXTENDS Naturals

CONSTANT Command

VARIABLES accepted,  \* acceptances sent, by command
          final      \* final results sent, by command

vars == <<accepted, final>>

New(c)     == accepted[c] = 0 /\ final[c] = 0
Running(c) == accepted[c] = 1 /\ final[c] = 0

Init ==
    /\ accepted = [c \in Command |-> 0]
    /\ final = [c \in Command |-> 0]

\* Refused, or carried out at once.
Answer(c) ==
    /\ New(c)
    /\ final' = [final EXCEPT ![c] = 1]
    /\ UNCHANGED accepted

\* Left running.
Accept(c) ==
    /\ New(c) /\ \A other \in Command : ~Running(other)
    /\ accepted' = [accepted EXCEPT ![c] = 1]
    /\ UNCHANGED final

\* Completed, failed or timed out.
Finish(c) ==
    /\ Running(c)
    /\ final' = [final EXCEPT ![c] = 1]
    /\ UNCHANGED accepted

Next == \E c \in Command : Answer(c) \/ Accept(c) \/ Finish(c)

\* Nobody need send a command; one that runs ends.
Spec == Init /\ [][Next]_vars /\ \A c \in Command : WF_vars(Finish(c))

=============================================================================
