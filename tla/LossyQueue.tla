----------------------------- MODULE LossyQueue -----------------------------
(***************************************************************************)
(* What an interrupt source promises its consumer, without indices, masks  *)
(* or wrap: a bounded first-in first-out queue that refuses the newest     *)
(* event when it is full, stamps every event with its position among all   *)
(* events offered (refused ones included, so that a consumer can see the   *)
(* gap), and delivers everything it accepted.                              *)
(***************************************************************************)
EXTENDS Integers, Sequences

CONSTANTS Data,      \* what an event may carry
          Capacity,  \* events the queue holds
          Stamps     \* number of distinct stamps

VARIABLES queue,      \* accepted, not yet delivered
          delivered,  \* what the consumer received, in order
          offered,    \* events offered so far
          refused     \* those that found the queue full

vars == <<queue, delivered, offered, refused>>

Event == [datum : Data, seq : 0 .. Stamps - 1]

Init ==
    /\ queue = <<>> /\ delivered = <<>>
    /\ offered = 0 /\ refused = 0

Offer(d) ==
    /\ offered' = offered + 1
    /\ IF Len(queue) < Capacity
       THEN /\ queue' = Append(queue, [datum |-> d, seq |-> offered % Stamps])
            /\ refused' = refused
       ELSE /\ queue' = queue
            /\ refused' = refused + 1
    /\ UNCHANGED delivered

Take ==
    /\ queue # <<>>
    /\ delivered' = Append(delivered, Head(queue))
    /\ queue' = Tail(queue)
    /\ UNCHANGED <<offered, refused>>

Next == Take \/ \E d \in Data : Offer(d)

\* The source may fall silent; the consumer, polled every minor cycle, may not.
Spec == Init /\ [][Next]_vars /\ WF_vars(Take)

=============================================================================
