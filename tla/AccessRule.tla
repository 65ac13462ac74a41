------------------------------ MODULE AccessRule ------------------------------
(***************************************************************************)
(* What a computer promises about its deny file, the list PAM consults at  *)
(* each login.  The file is at any time the whole verdict of one version of*)
(* the rules at one moment: a version the server has published, or version *)
(* 0, no rules at all.  The moments only move forward.                     *)
(***************************************************************************)
EXTENDS Integers

CONSTANTS
  LastVersion,      \* the server publishes versions 1 to LastVersion
  Verdict(_, _),    \* the users a version denies at a time
  MaxTime           \* bound on the clock

VARIABLES
  now,       \* the time
  served,    \* the version the server answers with
  denied,    \* the users in the deny file
  basis      \* the version and the moment the file was computed from

vars == << now, served, denied, basis >>

Init ==
  /\ now = 0
  /\ served = 1
  /\ denied = {}
  /\ basis = [version |-> 0, time |-> 0]

Tick    == now < MaxTime /\ now' = now + 1 /\ UNCHANGED << served, denied, basis >>
Publish == served < LastVersion /\ served' = served + 1 /\ UNCHANGED << now, denied, basis >>

Apply(version, time) ==
  /\ version =< served
  /\ basis.time =< time /\ time =< now
  /\ basis' = [version |-> version, time |-> time]
  /\ denied' = Verdict(version, time)
  /\ UNCHANGED << now, served >>

Next ==
  \/ Tick
  \/ Publish
  \/ \E version \in 0 .. LastVersion, time \in 0 .. MaxTime : Apply(version, time)

Spec == Init /\ [][Next]_vars
=============================================================================
