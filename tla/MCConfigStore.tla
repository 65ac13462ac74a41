---------------------------- MODULE MCConfigStore ----------------------------
(***************************************************************************)
(* Values for the constants of ConfigStore, in weeks of two short days.    *)
(***************************************************************************)
EXTENDS ConfigStore, TLC

EveryDay == {0, 1}

(* The first minute of every day. *)
MCDaily == { [days |-> EveryDay, from |-> 0, to |-> 1] }

(* Two windows that overlap. *)
MCOverlap == { [days |-> EveryDay, from |-> 0, to |-> 1], [days |-> EveryDay, from |-> 0, to |-> 2] }

MCSymmetry == Permutations(Users) \cup Permutations(Handlers)
=============================================================================
