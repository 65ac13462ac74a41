------------------------------ MODULE MCEnforcer ------------------------------
(* Values for the constants of Enforcer, in days of three minutes. *)
EXTENDS Enforcer

Restricted(windows) == [schedules |-> windows, lockedUntil |-> Nil, bonusUntil |-> Nil]
Locked(until) == [ZeroUser EXCEPT !.lockedUntil = until]

Early == [days |-> {0}, from |-> 0, to |-> 1]

(***************************************************************************)
(* The first configuration lets u in for the first minute; the second locks*)
(* v up to minute 2 and drops u's window; the third knows u only.          *)
(***************************************************************************)
MCConfigs ==
  << [u |-> Restricted(<< Early >>), v |-> ZeroUser],
     [u |-> ZeroUser, v |-> Locked(2)],
     [u |-> Locked(9)] >>

MCAccounts == {"u", "v"}
=============================================================================
