----------------------------- MODULE MCParentald -----------------------------
(* Values for the constants of Parentald. *)
EXTENDS Parentald

MCInstants == 1 .. MaxTime
=============================================================================
