------------------------------ MODULE MCMigration ------------------------------
(***************************************************************************)
(* Values for the constants of Migration: two days with nothing but screen *)
(* time, the first of them before any day with an application.             *)
(***************************************************************************)
EXTENDS Migration

Day(apps, screen) == [apps |-> apps, screen |-> screen]
MCFiles == << Day(0, 2), Day(1, 1), Day(2, 3), Day(0, 1) >>
=============================================================================
