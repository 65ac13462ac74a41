------------------------------- MODULE Promises -------------------------------
(***************************************************************************)
(* What the server promises: the rules it answers a daemon with agree, from*)
(* now on, with every lock and every bonus an administrator was told of.   *)
(* A request changes the rules and the promises of one user; a restart may *)
(* change the rules of all, and breaks no promise.                         *)
(*                                                                         *)
(* Rules are what they decide: the instants at which a user is denied.     *)
(***************************************************************************)
EXTENDS Integers

CONSTANTS
  Users,
  Instants,   \* the instants the rules are looked at
  MaxTime     \* bound on the clock

VARIABLES
  now,
  denied,     \* by user: the instants from now on at which the rules deny access
  lock,       \* by user: the instants of a lock the admin was told of
  bonus       \* by user: the instants of the bonuses the admin was told of

promises == << lock, bonus >>
vars == << now, denied, promises >>

Ahead == { t \in Instants : now =< t }

Init ==
  /\ now = 0
  /\ denied = [u \in Users |-> {}]
  /\ lock = [u \in Users |-> {}]
  /\ bonus = [u \in Users |-> {}]

(* The promises agree with the rules. *)
Kept == \A u \in Users : lock[u] \cap Ahead \subseteq denied[u] /\ bonus[u] \cap denied[u] = {}

Tick ==
  /\ now < MaxTime /\ now' = now + 1
  /\ denied' = [u \in Users |-> denied[u] \ {now}]
  /\ UNCHANGED promises

Request(u) ==
  /\ UNCHANGED now
  /\ denied' \in [Users -> SUBSET Ahead]
  /\ lock' \in [Users -> SUBSET Instants] /\ bonus' \in [Users -> SUBSET Instants]
  /\ \A v \in Users \ {u} : denied'[v] = denied[v] /\ lock'[v] = lock[v] /\ bonus'[v] = bonus[v]
  /\ Kept'

Restart ==
  /\ UNCHANGED << now, promises >>
  /\ denied' \in [Users -> SUBSET Ahead]
  /\ Kept'

Next == (\E u \in Users : Request(u)) \/ Restart \/ Tick

Spec == Init /\ [][Next]_vars
=============================================================================
