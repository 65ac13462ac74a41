-------------------------- MODULE MCScheduleMigration --------------------------
(***************************************************************************)
(* Two specifications that share nothing, checked one after the other: the *)
(* walk of ScheduleCheck for every user record, and at the end of the walk *)
(* of the record without rules the starts of Migration.                    *)
(***************************************************************************)
EXTENDS MCScheduleCheck, MCMigration

WalkAndMigrationInit == WalkInit /\ Init

WalkAndMigrationNext ==
  \/ WalkNext /\ UNCHANGED vars
  \/ user = ZeroUser /\ clock = Horizon /\ Next /\ UNCHANGED walkVars

WalkAndMigrationSpec ==
  WalkAndMigrationInit /\ [][WalkAndMigrationNext]_<< walkVars, vars >>
=============================================================================
