------------------------------- MODULE MCFdir -------------------------------
(* A severe class, the link's own critical class and a stage's critical     *)
(* class: the link's identifier lies between the other two, so that its     *)
(* failure is reported to a class the pass has yet to visit or has passed.  *)
EXTENDS Fdir

MCLimit == <<0, 2, 2>>
=============================================================================
