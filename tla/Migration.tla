------------------------------- MODULE Migration -------------------------------
(***************************************************************************)
(* The move of the legacy activity files, one JSON file per day, into the  *)
(* database: internal/activity/migrate.go, run by cmd/server/main.go at    *)
(* each start of the server, before it serves.  Each day is a transaction  *)
(* of its own, and the server can end between any two.                     *)
(***************************************************************************)
EXTENDS Integers, FiniteSets, Sequences

CONSTANTS
  Files,       \* the files by name: the seconds in each, 0 where it has no entry
  MaxStarts,   \* bound on the starts of the server
  MaxSkips     \* bound on the days that fail

Seconds == [apps : Nat, screen : Nat]

ASSUME MigrationAssumption ==
  /\ Files \in Seq(Seconds)
  /\ MaxStarts \in Nat /\ MaxSkips \in Nat

VARIABLES
  pc,         \* "down", "migrating" or "serving"
  next,       \* the file migrated next
  rows,       \* the seconds in the tables, for the day of each file
  reported,   \* a report has brought an application of a later day
  \* History, for the properties only:
  starts, skipped,
  broken      \* migrations cut short

vars == << pc, next, rows, reported, starts, skipped, broken >>

Days == DOMAIN Files

TypeOK ==
  /\ pc \in {"down", "migrating", "serving"}
  /\ next \in Days \cup {Len(Files) + 1}
  /\ rows \in [Days -> Seconds]
  /\ reported \in BOOLEAN
  /\ starts \in 0 .. MaxStarts /\ broken \in 0 .. MaxStarts
  /\ skipped \subseteq Days /\ Cardinality(skipped) =< MaxSkips

Init ==
  /\ pc = "down" /\ next = 1
  /\ rows = [d \in Days |-> [apps |-> 0, screen |-> 0]]
  /\ reported = FALSE
  /\ starts = 0 /\ broken = 0 /\ skipped = {}

MutHasDataNever == FALSE

(* SELECT COUNT( * ) FROM app_activity: the other table is not looked at. *)
HasData == reported \/ \E d \in Days : rows[d].apps > 0

FirstFile == 1

(* A query that fails is a warning: the server serves what it has. *)
Start ==
  /\ pc = "down" /\ starts < MaxStarts /\ starts' = starts + 1
  /\ \/ /\ ~ HasData /\ Files # << >>
        /\ pc' = "migrating" /\ next' = FirstFile
        /\ UNCHANGED broken
     \/ /\ HasData \/ Files = << >>
        /\ pc' = "serving" /\ UNCHANGED << next, broken >>
     \/ pc' = "serving" /\ broken' = broken + 1 /\ UNCHANGED next
  /\ UNCHANGED << rows, reported, skipped >>

MutAdvanceStops(d) ==
  /\ next' = IF d \in skipped' THEN Len(Files) + 1 ELSE d + 1
  /\ pc' = IF next' > Len(Files) THEN "serving" ELSE "migrating"

Advance(d) ==
  /\ next' = d + 1
  /\ pc' = IF next' > Len(Files) THEN "serving" ELSE "migrating"

(* migrateDay: both tables in one transaction, added to what is there. *)
MigrateDay ==
  /\ pc = "migrating"
  /\ rows' = [rows EXCEPT ![next] = [apps   |-> @.apps + Files[next].apps,
                                     screen |-> @.screen + Files[next].screen]]
  /\ UNCHANGED << reported, starts, skipped, broken >>
  /\ Advance(next)

(* A file that is not read, does not parse or does not commit is passed over. *)
SkipDay ==
  /\ pc = "migrating" /\ Cardinality(skipped \cup {next}) =< MaxSkips
  /\ skipped' = skipped \cup {next}
  /\ UNCHANGED << rows, reported, starts, broken >>
  /\ Advance(next)

(* The first report of a daemon with an application in it. *)
Report ==
  /\ pc = "serving" /\ ~ reported /\ reported' = TRUE
  /\ UNCHANGED << pc, next, rows, starts, skipped, broken >>

(* The server ends; in the middle of the migration, that is a crash. *)
End ==
  /\ pc # "down" /\ pc' = "down"
  /\ broken' = IF pc = "migrating" THEN broken + 1 ELSE broken
  /\ UNCHANGED << next, rows, reported, starts, skipped >>

Next == Start \/ MigrateDay \/ SkipDay \/ Report \/ End

Spec == Init /\ [][Next]_vars

-----------------------------------------------------------------------------
(***************************************************************************)
(* The time of an application is never added twice, however often the      *)
(* server starts and wherever it crashed before.                           *)
(***************************************************************************)
AppTimeOnce == \A d \in Days : rows[d].apps =< Files[d].apps

(***************************************************************************)
(* A server that serves has, unless a migration was cut short, all of each *)
(* file, but for the files it passed over: one bad file stops no other.    *)
(***************************************************************************)
BadFilesAlone ==
  pc = "serving" /\ broken = 0 =>
    \A d \in Days \ skipped :
      rows[d].apps >= Files[d].apps /\ rows[d].screen >= Files[d].screen

(***************************************************************************)
(* migrate.go:19, "Skips migration if the database already has data": the  *)
(* screen time of a day is not added twice.                                *)
(***************************************************************************)
ScreenTimeOnce == \A d \in Days : rows[d].screen =< Files[d].screen
=============================================================================
