---------------------------- MODULE MigrationProofs ----------------------------
(***************************************************************************)
(* Proofs about Migration: for any files, any number of starts and failures*)
(* anywhere, the time of an application is added once.                     *)
(***************************************************************************)
EXTENDS Migration, TLAPS

(* The variables' types, as far as the argument needs them. *)
Typed ==
  /\ pc \in {"down", "migrating", "serving"}
  /\ pc = "migrating" => next \in Days
  /\ rows \in [Days -> Seconds]

(***************************************************************************)
(* A day is either ahead of the running migration, and the table has no    *)
(* application of it, or it is in with what its file has at most.  A day   *)
(* with an application in the table closes the door for later migrations.  *)
(***************************************************************************)
Ahead ==
  pc = "migrating" => \A d \in Days : d >= next => rows[d].apps = 0

IInv == Typed /\ Ahead /\ AppTimeOnce

LEMMA FilesType == Files \in Seq(Seconds) /\ Len(Files) \in Nat /\ Days = 1 .. Len(Files)
BY MigrationAssumption DEF Days

LEMMA InitIInv == Init => IInv
<1> SUFFICES ASSUME Init PROVE IInv
  OBVIOUS
<1>1. Typed
  BY DEF Init, Typed, Seconds
<1>2. Ahead
  BY DEF Init, Ahead
<1>3. AppTimeOnce
  <2> SUFFICES ASSUME NEW d \in Days PROVE rows[d].apps =< Files[d].apps
    BY DEF AppTimeOnce
  <2>1. Files[d] \in Seconds
    BY FilesType
  <2> QED
    BY <2>1 DEF Init, Seconds
<1> QED
  BY <1>1, <1>2, <1>3 DEF IInv

(* Where Advance goes: to a file that is there, or to serving. *)
LEMMA AdvanceType ==
  ASSUME NEW d \in Days, Advance(d)
  PROVE  /\ next' = d + 1
         /\ pc' \in {"migrating", "serving"}
         /\ pc' = "migrating" => next' \in Days
<1> USE FilesType
<1>1. d \in Nat /\ d >= 1
  OBVIOUS
<1>2. CASE next' > Len(Files)
  BY <1>1, <1>2 DEF Advance
<1>3. CASE ~ (next' > Len(Files))
  BY <1>1, <1>3 DEF Advance
<1> QED
  BY <1>2, <1>3

(* Two records of seconds added up. *)
LEMMA SumOfSeconds ==
  ASSUME NEW r \in Seconds, NEW f \in Seconds, r.apps = 0
  PROVE  /\ [apps |-> r.apps + f.apps, screen |-> r.screen + f.screen] \in Seconds
         /\ r.apps + f.apps = f.apps
<1>1. r.apps \in Nat /\ r.screen \in Nat /\ f.apps \in Nat /\ f.screen \in Nat
  BY DEF Seconds
<1>2. r.apps + f.apps = f.apps
  BY <1>1
<1>3. r.apps + f.apps \in Nat /\ r.screen + f.screen \in Nat
  BY <1>1
<1> QED
  BY <1>2, <1>3 DEF Seconds

LEMMA NextIInv == IInv /\ [Next]_vars => IInv'
<1> SUFFICES ASSUME IInv, [Next]_vars PROVE IInv'
  OBVIOUS
<1> USE FilesType DEF IInv
<1>1. CASE Start
  <2>1. CASE pc' = "migrating"
    <3>1. ~ HasData /\ next' = 1 /\ Files # << >> /\ rows' = rows
      BY <1>1, <2>1 DEF Start, FirstFile
    <3>2. Len(Files) # 0
      BY <3>1
    <3>3. \A d \in Days : rows[d].apps = 0
      <4> TAKE d \in Days
      <4>1. ~ (rows[d].apps > 0)
        BY <3>1 DEF HasData
      <4>2. rows[d].apps \in Nat
        BY DEF Typed, Seconds
      <4> QED
        BY <4>1, <4>2
    <3> QED
      BY <2>1, <3>1, <3>2, <3>3 DEF Typed, Ahead, AppTimeOnce
  <2>2. CASE pc' = "serving"
    BY <1>1, <2>2 DEF Start, Typed, Ahead, AppTimeOnce
  <2> QED
    BY <1>1, <2>1, <2>2 DEF Start
<1>2. CASE MigrateDay
  <2>1. pc = "migrating" /\ next \in Days /\ Advance(next)
    BY <1>2 DEF MigrateDay, Typed
  <2>2. /\ next' = next + 1
        /\ pc' \in {"migrating", "serving"}
        /\ pc' = "migrating" => next' \in Days
    BY <2>1, AdvanceType
  <2>3. rows[next].apps = 0 /\ rows[next] \in Seconds /\ Files[next] \in Seconds
    BY <2>1 DEF Ahead, Typed
  <2>4. /\ rows' \in [Days -> Seconds]
        /\ rows'[next].apps = Files[next].apps
        /\ \A d \in Days : d # next => rows'[d] = rows[d]
    <3> DEFINE day == [apps   |-> rows[next].apps + Files[next].apps,
                       screen |-> rows[next].screen + Files[next].screen]
    <3>1. rows' = [rows EXCEPT ![next] = day]
      BY <1>2 DEF MigrateDay
    <3>2. day \in Seconds /\ day.apps = Files[next].apps
      <4>1. day \in Seconds /\ rows[next].apps + Files[next].apps = Files[next].apps
        BY <2>3, SumOfSeconds
      <4> QED
        BY <4>1
    <3> HIDE DEF day
    <3> QED
      BY <2>1, <3>1, <3>2 DEF Typed
  <2>5. Typed'
    BY <2>2, <2>4 DEF Typed
  <2>6. Ahead'
    BY <2>1, <2>2, <2>4 DEF Ahead
  <2>7. AppTimeOnce'
    <3> SUFFICES ASSUME NEW d \in Days PROVE rows'[d].apps =< Files[d].apps
      BY DEF AppTimeOnce
    <3>1. CASE d = next
      BY <2>3, <2>4, <3>1 DEF Seconds
    <3>2. CASE d # next
      BY <2>4, <3>2 DEF AppTimeOnce
    <3> QED
      BY <3>1, <3>2
  <2> QED
    BY <2>5, <2>6, <2>7
<1>3. CASE SkipDay
  <2>1. pc = "migrating" /\ next \in Days /\ Advance(next) /\ rows' = rows
    BY <1>3 DEF SkipDay, Typed
  <2>2. /\ next' = next + 1
        /\ pc' \in {"migrating", "serving"}
        /\ pc' = "migrating" => next' \in Days
    BY <2>1, AdvanceType
  <2>3. Typed'
    BY <2>1, <2>2 DEF Typed
  <2>4. Ahead'
    BY <2>1, <2>2 DEF Ahead
  <2> QED
    BY <2>1, <2>3, <2>4 DEF AppTimeOnce
<1>4. CASE Report
  BY <1>4 DEF Report, Typed, Ahead, AppTimeOnce
<1>5. CASE End
  BY <1>5 DEF End, Typed, Ahead, AppTimeOnce
<1>6. CASE UNCHANGED vars
  BY <1>6 DEF vars, Typed, Ahead, AppTimeOnce
<1> QED
  BY <1>1, <1>2, <1>3, <1>4, <1>5, <1>6 DEF Next

(***************************************************************************)
(* The time of an application is never added twice by the migration, which *)
(* looks at the table of applications before it begins.                    *)
(***************************************************************************)
THEOREM AppTimeAddedOnce == Spec => []AppTimeOnce
<1>1. Spec => []IInv
  BY InitIInv, NextIInv, PTL DEF Spec
<1>2. IInv => AppTimeOnce
  BY DEF IInv
<1> QED
  BY <1>1, <1>2, PTL

-----------------------------------------------------------------------------
(***************************************************************************)
(* As long as no migration was cut short, the days a migration has passed  *)
(* are in or were skipped.  Between two runs of the server this must be    *)
(* known of all days if an application is in the table: the next start will*)
(* not migrate again.                                                      *)
(***************************************************************************)
MovedIn(d) == rows[d].apps >= Files[d].apps /\ rows[d].screen >= Files[d].screen

Moved ==
  /\ broken \in Nat
  /\ broken = 0 /\ pc = "migrating" => \A d \in Days \ skipped : d < next => MovedIn(d)
  /\ broken = 0 /\ (pc = "serving" \/ (pc = "down" /\ HasData))
       => \A d \in Days \ skipped : MovedIn(d)

LEMMA InitMoved == Init => Moved
<1> SUFFICES ASSUME Init PROVE Moved
  OBVIOUS
<1>1. ~ HasData
  <2>1. \A d \in Days : ~ (rows[d].apps > 0)
    BY DEF Init
  <2> QED
    BY <2>1 DEF Init, HasData
<1> QED
  BY <1>1 DEF Init, Moved

(* Adding a day's file to its rows moves it in, and no day moves out. *)
LEMMA AddingMovesIn ==
  ASSUME NEW r \in Seconds, NEW f \in Seconds
  PROVE  r.apps + f.apps >= f.apps /\ r.screen + f.screen >= f.screen
<1>1. r.apps \in Nat /\ r.screen \in Nat /\ f.apps \in Nat /\ f.screen \in Nat
  BY DEF Seconds
<1> QED
  BY <1>1

LEMMA NextMoved ==
  ASSUME IInv, Moved, [Next]_vars
  PROVE  Moved'
<1> USE FilesType DEF IInv
<1>1. CASE Start
  <2>1. rows' = rows /\ skipped' = skipped /\ reported' = reported /\ pc = "down"
    BY <1>1 DEF Start
  <2>2. CASE ~ HasData /\ pc' = "migrating" /\ next' = FirstFile /\ broken' = broken
    BY <2>1, <2>2 DEF Moved, FirstFile
  <2>3. CASE (HasData \/ Files = << >>) /\ pc' = "serving" /\ broken' = broken
    <3>1. Files = << >> => Days = {}
      BY DEF Days
    <3> QED
      BY <2>1, <2>3, <3>1 DEF Moved, MovedIn
  <2>4. CASE pc' = "serving" /\ broken' = broken + 1
    BY <2>4 DEF Moved
  <2> QED
    BY <1>1, <2>2, <2>3, <2>4 DEF Start
<1>2. ASSUME pc = "migrating", Advance(next), broken' = broken,
             \A d \in Days \ skipped' : d < next => d \notin skipped /\ (MovedIn(d) => MovedIn(d)'),
             \A d \in Days \ skipped' : d = next => MovedIn(d)'
      PROVE  Moved'
  <2>1. next \in Days
    BY <1>2 DEF Typed
  <2>2. next' = next + 1 /\ pc' \in {"migrating", "serving"}
    BY <1>2, <2>1, AdvanceType
  <2>3. broken = 0 => \A d \in Days \ skipped' : d =< next => MovedIn(d)'
    <3> SUFFICES ASSUME broken = 0, NEW d \in Days \ skipped', d =< next PROVE MovedIn(d)'
      OBVIOUS
    <3>1. CASE d = next
      BY <1>2, <3>1
    <3>2. CASE d < next
      BY <1>2, <3>2 DEF Moved
    <3> QED
      BY <2>1, <3>1, <3>2
  <2>4. pc' = "serving" => \A d \in Days : d =< next
    BY <1>2, <2>1, <2>2 DEF Advance
  <2> QED
    BY <1>2, <2>1, <2>2, <2>3, <2>4 DEF Moved
<1>3. CASE MigrateDay
  <2> DEFINE day == [apps   |-> rows[next].apps + Files[next].apps,
                     screen |-> rows[next].screen + Files[next].screen]
  <2>1. /\ pc = "migrating" /\ Advance(next) /\ next \in Days
        /\ skipped' = skipped /\ broken' = broken
        /\ rows' = [rows EXCEPT ![next] = day]
    BY <1>3 DEF MigrateDay, Typed
  <2>2. rows[next] \in Seconds /\ Files[next] \in Seconds
    BY <2>1 DEF Typed
  <2>3. day.apps >= Files[next].apps /\ day.screen >= Files[next].screen
    BY <2>2, AddingMovesIn
  <2> HIDE DEF day
  <2>4. rows'[next] = day /\ \A d \in Days : d # next => rows'[d] = rows[d]
    BY <2>1 DEF Typed
  <2>5. \A d \in Days \ skipped' : d = next => MovedIn(d)'
    BY <2>3, <2>4 DEF MovedIn
  <2>6. \A d \in Days \ skipped' : d < next => d \notin skipped /\ (MovedIn(d) => MovedIn(d)')
    BY <2>1, <2>4 DEF MovedIn
  <2> QED
    BY <1>2, <2>1, <2>5, <2>6
<1>4. CASE SkipDay
  <2>1. /\ pc = "migrating" /\ Advance(next) /\ broken' = broken
        /\ skipped' = skipped \cup {next} /\ rows' = rows
    BY <1>4 DEF SkipDay
  <2> QED
    BY <1>2, <2>1 DEF MovedIn
<1>5. CASE Report
  BY <1>5 DEF Report, Moved, MovedIn
<1>6. CASE End
  <2>1. rows' = rows /\ skipped' = skipped /\ reported' = reported /\ pc' = "down"
    BY <1>6 DEF End
  <2>2. CASE pc = "migrating"
    BY <1>6, <2>1, <2>2 DEF End, Moved
  <2>3. CASE pc = "serving"
    BY <1>6, <2>1, <2>3 DEF End, Moved, MovedIn
  <2> QED
    BY <1>6, <2>2, <2>3 DEF End, Typed
<1>7. CASE UNCHANGED vars
  BY <1>7 DEF vars, Moved, MovedIn, HasData
<1> QED
  BY <1>1, <1>3, <1>4, <1>5, <1>6, <1>7 DEF Next

(***************************************************************************)
(* A server that serves, and whose migrations all came to their end, has   *)
(* all of each file but those it passed over: a bad file keeps no other    *)
(* out, and the data that stops a second migration came from a whole one.  *)
(***************************************************************************)
THEOREM BadFilesStopNoOther == Spec => []BadFilesAlone
<1>1. Init => IInv /\ Moved
  BY InitIInv, InitMoved
<1>2. IInv /\ Moved /\ [Next]_vars => (IInv /\ Moved)'
  BY NextIInv, NextMoved
<1>3. Moved => BadFilesAlone
  BY DEF Moved, MovedIn, BadFilesAlone
<1> QED
  BY <1>1, <1>2, <1>3, PTL DEF Spec
=============================================================================
