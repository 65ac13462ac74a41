---------------------------- MODULE TickScanProofs ----------------------------
(***************************************************************************)
(* The walk over the processes visits none twice and finds every           *)
(* application left alone, for any number of processes that come and go;   *)
(* the check of the sessions is right about every user, for any number of  *)
(* sessions, as long as loginctl answers; and what the system has files of *)
(* keeps its name, for any files.  Induction is written as a least         *)
(* counterexample.                                                         *)
(***************************************************************************)
EXTENDS TickScan, FiniteSetTheorems, WellFoundedInduction, TLAPS

(***************************************************************************)
(* What the walk has come to hangs together: each process was reached from *)
(* its parent, which is a root or has been visited.  Cycles of the map that*)
(* was read are never entered, as none of their processes has such a       *)
(* parent.                                                                 *)
(***************************************************************************)
Reached ==
  /\ phase \in {"list", "read"} => pending = {} /\ visited = {}
  /\ phase # "read" => half = NoEntry
  /\ phase = "list" => procs = << >>
  /\ \A p \in pending \cup visited :
       /\ p \in DOMAIN procs /\ procs[p].parent \in DOMAIN procs
       /\ procs[p].parent \in Roots \cup visited

(* The scan has the right parent of every process nothing happens to. *)
ParentRead ==
  \A p \in DOMAIN live \ disturbed :
    /\ p \in DOMAIN procs => procs[p].parent = live[p].parent
    /\ half # NoEntry /\ half[1] = p => half[2] = live[p].parent

ScanInv == TypeOK /\ Reached /\ NoSecondVisit /\ ParentRead

LEMMA WithTable ==
  ASSUME NEW f, IsTable(f), NEW p \in Pids, NEW v \in Process
  PROVE  IsTable(With(f, p, v))
  BY DEF IsTable, With

LEMMA ParentsType == \A p : NewParents(p) \subseteq Pids \cup {Outside}
  BY ProcessScanAssumption DEF NewParents

(* Nothing has been read. *)
LEMMA ReadyInv ==
  ASSUME ScanReady, IsTable(live), events \in 0 .. MaxEvents
  PROVE  ScanInv
  <1>1. DOMAIN procs = {} BY DEF ScanReady
  <1>2. TypeOK BY <1>1 DEF ScanReady, TypeOK, IsTable
  <1>3. Reached /\ NoSecondVisit BY DEF ScanReady, Reached, NoSecondVisit
  <1>4. ParentRead BY <1>1 DEF ScanReady, ParentRead
  <1> QED BY <1>2, <1>3, <1>4 DEF ScanInv

(* What forks and exits change is disturbed. *)
LEMMA EventsDisturb ==
  ASSUME TypeOK, Events
  PROVE  /\ disturbed \subseteq disturbed' /\ disturbed' \subseteq Pids
         /\ \A p \in DOMAIN live' \ disturbed' : p \in DOMAIN live \ disturbed /\ live'[p] = live[p]
  <1>1. disturbed \subseteq disturbed' /\ disturbed' \subseteq Pids
    BY DEF Events, Fork, Exit, TypeOK, IsTable
  <1>2. \A p \in DOMAIN live' \ disturbed' : p \in DOMAIN live \ disturbed /\ live'[p] = live[p]
    BY <1>1 DEF Events, Fork, Exit, With
  <1> QED BY <1>1, <1>2

(* Forks and exits touch nothing that has been read. *)
LEMMA EventsInv ==
  ASSUME ScanInv, Events
  PROVE  ScanInv'
  <1> USE DEF ScanInv
  <1>1. UNCHANGED scan BY DEF Events, Fork, Exit
  <1>2. events' \in 0 .. MaxEvents
    <2>1. Event BY DEF Events, Fork, Exit
    <2> QED BY <2>1, ProcessScanAssumption DEF Event, TypeOK
  <1>3. IsTable(live')
    <2>1. CASE \E p \in Pids \cup {Outside}, child \in Pids, program \in Programs :
                 Fork(p, child, program)
      <3> PICK p \in Pids \cup {Outside}, child \in Pids, program \in Programs :
                 Fork(p, child, program) BY <2>1
      <3>1. [parent |-> p, program |-> program] \in Process BY DEF Process
      <3> QED BY <3>1, WithTable DEF Fork, TypeOK
    <2>2. CASE \E p \in Pids : Exit(p)
      <3> PICK p \in Pids : Exit(p) BY <2>2
      <3> PICK q \in NewParents(p) :
            live' = [r \in DOMAIN live \ {p} |->
                      IF live[r].parent = p THEN [live[r] EXCEPT !.parent = q] ELSE live[r]]
        BY DEF Exit
      <3>1. q \in Pids \cup {Outside} BY ParentsType
      <3> QED BY <3>1 DEF TypeOK, IsTable, Process
    <2> QED BY <2>1, <2>2 DEF Events
  <1>4. disturbed' \subseteq Pids BY EventsDisturb
  <1>5. \A p \in DOMAIN live' \ disturbed' : p \in DOMAIN live \ disturbed /\ live'[p] = live[p]
    BY EventsDisturb
  <1>6. TypeOK' BY <1>1, <1>2, <1>3, <1>4 DEF TypeOK, IsTable, scan
  <1>7. Reached' /\ NoSecondVisit' BY <1>1 DEF Reached, NoSecondVisit, Roots, scan
  <1>8. ParentRead' BY <1>1, <1>5 DEF ParentRead, scan
  <1> QED BY <1>6, <1>7, <1>8

(* Reading an entry; the walk has not begun. *)
LEMMA ReadInv ==
  ASSUME ScanInv, List \/ (\E p \in Pids : ReadStatus(p)) \/ ReadExe
  PROVE  ScanInv'
  <1> USE DEF ScanInv
  <1>1. CASE List
    <2>1. TypeOK' BY <1>1 DEF List, TypeOK, IsTable
    <2>2. Reached' /\ NoSecondVisit'
      BY <1>1 DEF List, Reached, NoSecondVisit
    <2>3. ParentRead'
      BY <1>1 DEF List, ParentRead, Reached
    <2> QED BY <2>1, <2>2, <2>3
  <1>2. CASE \E p \in Pids : ReadStatus(p)
    <2> PICK p \in Pids : ReadStatus(p) BY <1>2
    <2>1. half' \in {NoEntry} \cup (Pids \X (Pids \cup {Outside}))
      BY DEF ReadStatus, TypeOK, IsTable, Process
    <2>2. TypeOK' BY <2>1 DEF ReadStatus, TypeOK, IsTable, world
    <2>3. Reached' /\ NoSecondVisit' BY DEF ReadStatus, Reached, NoSecondVisit, Roots, world
    <2>4. ParentRead' BY DEF ReadStatus, ParentRead, world, NoEntry
    <2> QED BY <2>2, <2>3, <2>4
  <1>3. CASE ReadExe
    <2>1. half \in Pids \X (Pids \cup {Outside}) /\ phase = "read"
      BY <1>3 DEF ReadExe, TypeOK, Reached
    <2>2. IsTable(procs')
      <3>1. half[1] \in DOMAIN live =>
              [parent |-> half[2], program |-> live[half[1]].program] \in Process
        BY <2>1 DEF TypeOK, IsTable, Process
      <3> QED BY <1>3, <2>1, <3>1, WithTable DEF ReadExe, TypeOK
    <2>3. pending = {} /\ visited = {} BY <2>1 DEF Reached
    <2>4. TypeOK' BY <1>3, <2>2, <2>3 DEF ReadExe, TypeOK, IsTable, world
    <2>5. Reached' /\ NoSecondVisit' BY <1>3, <2>1, <2>3 DEF ReadExe, Reached, NoSecondVisit
    <2>6. ParentRead' BY <1>3, <2>1 DEF ReadExe, ParentRead, With, world
    <2> QED BY <2>4, <2>5, <2>6
  <1> QED BY <1>1, <1>2, <1>3

(***************************************************************************)
(* A child of a process being visited has neither been visited nor is it   *)
(* that process: its parent would be a root, which are never visited, or   *)
(* have been visited before.                                               *)
(***************************************************************************)
LEMMA WalkInv ==
  ASSUME ScanInv, StartWalk \/ (\E p \in Pids : Visit(p)) \/ EndWalk
  PROVE  ScanInv'
  <1> USE DEF ScanInv
  <1>0. ParentRead' BY DEF StartWalk, Visit, EndWalk, ParentRead, world
  <1>1. CASE StartWalk
    <2>1. TopLevel \subseteq DOMAIN procs
          /\ \A p \in TopLevel : procs[p].parent \in Roots /\ procs[p].parent \in DOMAIN procs
      BY DEF TopLevel, Children, Roots
    <2>2. TypeOK' BY <1>1, <2>1 DEF StartWalk, TypeOK, IsTable, world
    <2>3. Reached' BY <1>1, <2>1 DEF StartWalk, Reached, Roots
    <2>4. NoSecondVisit' BY <1>1 DEF StartWalk, NoSecondVisit, Reached
    <2> QED BY <1>0, <2>2, <2>3, <2>4
  <1>2. CASE \E p \in Pids : Visit(p)
    <2> PICK p \in Pids : Visit(p) BY <1>2
    <2>1. p \in DOMAIN procs /\ p \notin Roots /\ p \in pending
      BY DEF Visit, Reached, Roots
    <2>2. \A q \in Children(p) : q \in DOMAIN procs /\ procs[q].parent = p
      BY DEF Children
    <2>3. TypeOK' BY <2>1, <2>2 DEF Visit, TypeOK, IsTable, world
    <2>4. Reached' BY <2>1, <2>2 DEF Visit, Reached, Roots
    <2>5. Children(p) \cap (visited \cup {p}) = {}
      BY <2>1, <2>2 DEF Reached, NoSecondVisit
    <2>6. NoSecondVisit' BY <2>5 DEF Visit, NoSecondVisit
    <2> QED BY <1>0, <2>3, <2>4, <2>6
  <1>3. CASE EndWalk
    BY <1>0, <1>3 DEF EndWalk, TypeOK, IsTable, Reached, NoSecondVisit, Roots, world
  <1> QED BY <1>1, <1>2, <1>3

LEMMA ScanStep == ScanInv /\ [Next]_vars => ScanInv'
  <1> SUFFICES ASSUME ScanInv, [Next]_vars PROVE ScanInv' OBVIOUS
  <1>1. CASE Scan BY <1>1, ReadInv, WalkInv DEF Scan
  <1>2. CASE Events BY <1>2, EventsInv
  <1>3. CASE UNCHANGED vars
    BY <1>3 DEF ScanInv, TypeOK, IsTable, Reached, NoSecondVisit, ParentRead, Roots, vars, world, scan
  <1> QED BY <1>1, <1>2, <1>3 DEF Next

-----------------------------------------------------------------------------
(* The tick. *)

(***************************************************************************)
(* As long as the check goes on without a reason to count the user for, no *)
(* session has been active at all; and a session that has been active all  *)
(* the time is still to be looked at.  A refused answer ends the check.    *)
(***************************************************************************)
Checked ==
  /\ steady \subseteq Active
  /\ tick = "sessions" => steady = {}
  /\ tick = "check" => steady \subseteq toCheck /\ Active \subseteq reasons
  /\ tick = "idle" /\ "refused" \notin reasons => steady = {}
  /\ tick # "idle" => "refused" \notin reasons
  /\ tick \in {"scan", "named"} => reasons # {}

TickInv == ScanInv /\ TickTypeOK /\ Checked

LEMMA TickInitInv == TickInit => TickInv
  <1> SUFFICES ASSUME TickInit PROVE TickInv OBVIOUS
  <1> PICK setup \in Setups :
        /\ live = setup.live /\ sessions = setup.sessions
        /\ events = setup.events /\ changes = setup.changes
    BY DEF TickInit
  <1>1. IsTable(live)
    <2>1. live \in Forests BY TickScanAssumption
    <2>2. PICK alive \in SUBSET Pids : live \in [alive -> Process] BY <2>1 DEF Forests
    <2> QED BY <2>2 DEF IsTable
  <1>2. ScanInv BY <1>1, ReadyInv, TickScanAssumption DEF TickInit
  <1>3. TickTypeOK
    BY <1>2, TickScanAssumption DEF ScanInv, TickTypeOK, TickInit, LookupInit
  <1>4. Checked BY DEF Checked, TickInit
  <1> QED BY <1>2, <1>3, <1>4 DEF TickInv

LEMMA TickStep == TickInv /\ [TickNext]_tickVars => TickInv'
  <1> SUFFICES ASSUME TickInv, [TickNext]_tickVars PROVE TickInv' OBVIOUS
  <1> USE DEF TickInv
  <1>0. Active \subseteq Sessions /\ "refused" \notin Sessions BY TickScanAssumption DEF Active
  <1>1. ScanInv'
    <2>1. [Next]_vars
      BY DEF TickNext, Goroutine, BuildLookup, ListSessions, CheckSession, ScanProcesses, NameApps,
             ProcessEvents, SessionChanges, tickVars, Next
    <2> QED BY <2>1, ScanStep
  <1>2. TypeOK' BY <1>1 DEF ScanInv
  <1>3. CASE BuildLookup
    BY <1>1, <1>2, <1>3 DEF BuildLookup, ScanDir, TickTypeOK, Checked, Active, login, tracker
  <1>4. CASE ListSessions
    <2>1. TickTypeOK' BY <1>0, <1>2, <1>4 DEF ListSessions, TickTypeOK, States, lookupVars
    <2>2. Active' = Active /\ Active \subseteq { s \in Sessions : sessions[s] # "none" }
      BY <1>4 DEF ListSessions, Active
    <2>3. Checked' BY <1>0, <1>4, <2>2 DEF ListSessions, Checked
    <2> QED BY <1>1, <2>1, <2>3
  <1>5. CASE \E s \in Sessions : CheckSession(s)
    <2> PICK s \in Sessions : CheckSession(s) BY <1>5
    <2>1. TickTypeOK' BY <1>2 DEF CheckSession, TickTypeOK, lookupVars, login
    <2>2. Checked' BY DEF CheckSession, TickTypeOK, Checked, Active, States, login
    <2> QED BY <1>1, <2>1, <2>2
  <1>6. CASE ScanProcesses \/ ProcessEvents
    BY <1>1, <1>2, <1>6
    DEF ScanProcesses, ProcessEvents, TickTypeOK, Checked, Active, lookupVars, login, tracker
  <1>7. CASE NameApps
    BY <1>1, <1>2, <1>7 DEF NameApps, TickTypeOK, Checked, Active, lookupVars, login
  <1>8. CASE \E s \in Sessions, state \in States : SessionChanges(s, state)
    <2> PICK s \in Sessions, state \in States : SessionChanges(s, state) BY <1>8
    <2>1. changes' \in 0 .. MaxChanges
      BY TickScanAssumption DEF SessionChanges, TickTypeOK
    <2>2. TickTypeOK' BY <1>2, <2>1 DEF SessionChanges, TickTypeOK, lookupVars, tracker
    <2>3. Checked' BY <1>0 DEF SessionChanges, TickTypeOK, Checked, Active, tracker
    <2> QED BY <1>1, <2>2, <2>3
  <1>9. CASE UNCHANGED tickVars
    BY <1>1, <1>2, <1>9 DEF TickTypeOK, Checked, Active, tickVars, lookupVars, login, tracker
  <1> QED BY <1>3, <1>4, <1>5, <1>6, <1>7, <1>8, <1>9 DEF TickNext, Goroutine

LEMMA TickInvariant == TickSpec => []TickInv
  <1> QED BY TickInitInv, TickStep, PTL DEF TickSpec

(* The types, for any number of pids, files, sessions and changes. *)
THEOREM TickTypeCorrect == TickSpec => []TickTypeOK
  <1>1. TickInv => TickTypeOK BY DEF TickInv
  <1> QED BY <1>1, TickInvariant, PTL

(***************************************************************************)
(* The recursion over the tree that was read comes to no process twice,    *)
(* whatever started, ended and got another parent while it was read.       *)
(***************************************************************************)
THEOREM WalkVisitsOnce == TickSpec => []NoSecondVisit
  <1>1. TickInv => NoSecondVisit BY DEF TickInv, ScanInv
  <1> QED BY <1>1, TickInvariant, PTL

(***************************************************************************)
(* A user with a session that is active all the time is counted, unless    *)
(* loginctl show-user ended with an error; and one without any active      *)
(* session is not, unless loginctl gave no answer.                         *)
(***************************************************************************)
THEOREM SessionsAreJudged == TickSpec => []SessionsJudged
  <1>1. TickInv => SessionsJudged BY DEF TickInv, Checked, SessionsJudged
  <1> QED BY <1>1, TickInvariant, PTL

-----------------------------------------------------------------------------
(* The table of applications. *)

(* Every nonempty set of numbers has a least one. *)
LEMMA LeastNumber ==
  ASSUME NEW T \in SUBSET Nat, T # {}
  PROVE  \E x \in T : \A y \in T : x =< y
  <1> DEFINE F == { 0 .. n : n \in T }
  <1>1. F \subseteq FiniteSubsetsOf(Nat)
    <2>1. \A n \in T : IsFiniteSet(0 .. n) /\ 0 .. n \in SUBSET Nat BY FS_Interval
    <2> QED BY <2>1 DEF FiniteSubsetsOf
  <1>2. F # {} OBVIOUS
  <1> HIDE DEF F
  <1>3. PICK s \in F : \A t \in F : <<t, s>> \notin StrictSubsetOrdering(Nat)
    BY <1>1, <1>2, FS_StrictSubsetOrderingWellFounded, WFMin
  <1>4. PICK x \in T : s = 0 .. x BY DEF F
  <1>5. ASSUME NEW y \in T, y < x PROVE FALSE
    <2>1. 0 .. y \in F BY DEF F
    <2>2. 0 .. y \subseteq 0 .. x /\ x \in 0 .. x /\ x \notin 0 .. y BY <1>5
    <2>3. <<0 .. y, s>> \in StrictSubsetOrdering(Nat) BY <2>2, <1>4 DEF StrictSubsetOrdering
    <2> QED BY <1>3, <2>1, <2>3
  <1> QED BY <1>5

(* And every nonempty set of numbers up to a bound has a greatest one. *)
LEMMA GreatestNumber ==
  ASSUME NEW n \in Nat, NEW T \in SUBSET (1 .. n), T # {}
  PROVE  Max(T) \in T /\ \A x \in T : x =< Max(T)
  <1> DEFINE B == { n - x : x \in T }
  <1>1. B \in SUBSET Nat /\ B # {}
    <2>1. \A x \in T : n - x \in Nat OBVIOUS
    <2> QED BY <2>1
  <1> HIDE DEF B
  <1>2. PICK b \in B : \A c \in B : b =< c BY <1>1, LeastNumber
  <1>3. PICK x \in T : b = n - x BY <1>2 DEF B
  <1>4. \A y \in T : y \in Nat /\ n - y \in B BY DEF B
  <1>5. \A y \in T : x >= y BY <1>2, <1>3, <1>4
  <1>6. Max(T) \in T /\ \A y \in T : Max(T) >= y BY <1>5 DEF Max
  <1>7. \A y \in T : y \in Nat OBVIOUS
  <1> QED BY <1>6, <1>7

(***************************************************************************)
(* The recursion of the fold that registers files in their order, which a  *)
(* function meets, by induction on the size of the sets it is defined on.  *)
(***************************************************************************)
IsFold(g, base, files) ==
  g = [s \in SUBSET DOMAIN files |->
        IF s = {} THEN base ELSE Register(g[s \ {Max(s)}], files[Max(s)])]

(* There is such a function. *)
LEMMA FoldExists ==
  ASSUME NEW base, NEW T, NEW files \in Seq(T)
  PROVE  \E g : IsFold(g, base, files)
  <1> DEFINE D == DOMAIN files
             Level(n) == { s \in SUBSET D : Cardinality(s) =< n }
             Recur(g, s) == IF s = {} THEN base ELSE Register(g[s \ {Max(s)}], files[Max(s)])
             Good(n) == \E g : g = [s \in Level(n) |-> Recur(g, s)]
             B == { n \in Nat : ~ Good(n) }
  <1>0. D = 1 .. Len(files) /\ Len(files) \in Nat /\ IsFiniteSet(D) BY FS_Interval
  <1> HIDE DEF D
  <1>1. ASSUME B # {} PROVE FALSE
    <2>1. PICK n \in B : \A m \in B : n =< m BY <1>1, LeastNumber
    <2>2. CASE n = 0
      <3>1. \A s \in Level(0) : s = {}
        <4> TAKE s \in Level(0)
        <4>1. IsFiniteSet(s) /\ Cardinality(s) \in Nat BY <1>0, FS_Subset, FS_CardinalityType
        <4> QED BY <4>1, FS_EmptySet
      <3>2. [s \in Level(0) |-> base] = [s \in Level(0) |-> Recur([t \in Level(0) |-> base], s)]
        BY <3>1
      <3>3. Good(0) BY <3>2
      <3> QED BY <2>2, <3>3
    <2>3. CASE n # 0
      <3>1. n - 1 \in Nat /\ ~ (n =< n - 1) BY <2>3
      <3>2. Good(n - 1) BY <3>1, <2>1
      <3>3. PICK g : g = [s \in Level(n - 1) |-> Recur(g, s)] BY <3>2
      <3> DEFINE h == [s \in Level(n) |-> Recur(g, s)]
      <3>4. ASSUME NEW s \in Level(n), s # {} PROVE s \ {Max(s)} \in Level(n - 1) \cap Level(n)
        <4>1. Max(s) \in s BY <1>0, <3>4, GreatestNumber
        <4>2. IsFiniteSet(s) /\ Cardinality(s) \in Nat BY <1>0, FS_Subset, FS_CardinalityType
        <4>3. Cardinality(s \ {Max(s)}) = Cardinality(s) - 1 BY <4>1, <4>2, FS_RemoveElement
        <4> QED BY <4>2, <4>3
      <3>5. ASSUME NEW s \in Level(n) PROVE Recur(g, s) = Recur(h, s)
        <4>1. CASE s = {} BY <4>1
        <4>2. CASE s # {}
          <5> DEFINE t == s \ {Max(s)}
          <5>1. t \in Level(n - 1) /\ t \in Level(n) BY <3>4, <4>2
          <5> HIDE DEF t
          <5>2. g[t] = Recur(g, t) BY <3>3, <5>1
          <5>3. h[t] = Recur(g, t) BY <5>1
          <5> HIDE DEF h
          <5> QED BY <4>2, <5>2, <5>3 DEF t
        <4> QED BY <4>1, <4>2
      <3> HIDE DEF Recur
      <3>6. h = [s \in Level(n) |-> Recur(h, s)] BY <3>5
      <3>7. Good(n) BY <3>6
      <3> QED BY <3>7
    <2> QED BY <2>2, <2>3
  <1>2. Cardinality(D) \in Nat BY <1>0, FS_CardinalityType
  <1>3. Good(Cardinality(D)) BY <1>1, <1>2
  <1>4. Level(Cardinality(D)) = SUBSET D BY <1>0, FS_Subset
  <1> QED BY <1>3, <1>4 DEF IsFold, D

(* The tables that the fold goes through, after each file. *)
LEMMA Registered ==
  ASSUME NEW base, NEW T, NEW files \in Seq(T)
  PROVE  \E known :
           /\ known[0] = base
           /\ \A n \in 1 .. Len(files) : known[n] = Register(known[n - 1], files[n])
           /\ FoldLeft(Register, base, files) = known[Len(files)]
  <1> DEFINE g == CHOOSE h : IsFold(h, base, files)
             known == [n \in 0 .. Len(files) |-> g[1 .. n]]
  <1>1. IsFold(g, base, files) BY FoldExists
  <1>2. FoldLeft(Register, base, files) = g[DOMAIN files]
    BY DEF FoldLeft, MapThenFoldSet, IsFold
  <1> HIDE DEF g
  <1>3. DOMAIN files = 1 .. Len(files) /\ Len(files) \in Nat OBVIOUS
  <1>4. known[0] = base
    <2>1. 1 .. 0 = {} OBVIOUS
    <2>2. g[{}] = base BY <1>1 DEF IsFold
    <2> QED BY <1>3, <2>1, <2>2
  <1>5. ASSUME NEW n \in 1 .. Len(files) PROVE known[n] = Register(known[n - 1], files[n])
    <2> DEFINE s == 1 .. n
    <2>1. n \in Nat /\ n \in s /\ s # {}
      <3>1. n \in Nat /\ 1 =< n BY <1>3
      <3>2. n \in s BY <3>1
      <3> QED BY <3>1, <3>2
    <2>2. s \in SUBSET DOMAIN files
      <3>1. \A i \in s : i \in 1 .. Len(files) BY <1>3
      <3> QED BY <1>3, <3>1
    <2>3. s \ {n} = 1 .. n - 1 BY <2>1
    <2> HIDE DEF s
    <2>4. Max(s) = n
      <3>1. s \in SUBSET (1 .. n) /\ \A i \in s : i \in Nat /\ i =< n BY <2>1 DEF s
      <3>2. Max(s) \in s /\ n =< Max(s) BY <2>1, <3>1, GreatestNumber
      <3>3. Max(s) \in Nat /\ Max(s) =< n BY <3>1, <3>2
      <3> QED BY <2>1, <3>2, <3>3
    <2>5. g[s] = Register(g[s \ {Max(s)}], files[Max(s)]) BY <1>1, <2>1, <2>2 DEF IsFold
    <2>6. known[n] = g[s] /\ known[n - 1] = g[1 .. n - 1] BY <1>3 DEF s
    <2> HIDE DEF known
    <2> QED BY <2>3, <2>4, <2>5, <2>6
  <1>6. FoldLeft(Register, base, files) = known[Len(files)] BY <1>2, <1>3
  <1> HIDE DEF known
  <1> QED BY <1>4, <1>5, <1>6

(***************************************************************************)
(* What is left of a table (old, before) after the files of a set have been*)
(* registered in it: keys and games that it had are where they were, a new *)
(* key leads to one of the files, every file has been put where it belongs.*)
(***************************************************************************)
Kept(old, before, files, new, after) ==
  /\ DOMAIN old \subseteq DOMAIN new
  /\ \A k \in DOMAIN old : new[k] = old[k]
  /\ \A k \in DOMAIN new \ DOMAIN old : new[k] \in files /\ k \in Keys(new[k])
  /\ \A file \in files : ~ IsGame(file) => Keys(file) \subseteq DOMAIN new
  /\ Len(before) =< Len(after)
  /\ \A m \in 1 .. Len(before) : after[m] = before[m]
  /\ \A m \in Len(before) + 1 .. Len(after) : after[m] \in files
  /\ \A file \in files : IsGame(file) => \E m \in 1 .. Len(after) : after[m] = file

(* The table known is what became of (old, before). *)
Grown(T, old, before, files, known) ==
  \E new : \E after \in Seq(T) :
    known = [apps |-> new, games |-> after] /\ Kept(old, before, files, new, after)

(* One more file changes nothing that was there. *)
LEMMA RegisterKeeps ==
  ASSUME NEW T, NEW old, NEW before \in Seq(T), NEW files, NEW known,
         NEW file \in T, Grown(T, old, before, files, known)
  PROVE  Grown(T, old, before, files \cup {file}, Register(known, file))
  <1> PICK new : \E after \in Seq(T) :
        known = [apps |-> new, games |-> after] /\ Kept(old, before, files, new, after)
    BY DEF Grown
  <1> PICK after \in Seq(T) :
        known = [apps |-> new, games |-> after] /\ Kept(old, before, files, new, after)
    OBVIOUS
  <1>1. CASE IsGame(file)
    <2> DEFINE hs == Append(after, file)
    <2>1. Register([apps |-> new, games |-> after], file) = [apps |-> new, games |-> hs]
      BY <1>1 DEF Register
    <2>2. /\ hs \in Seq(T) /\ Len(hs) = Len(after) + 1 /\ hs[Len(hs)] = file
          /\ \A m \in 1 .. Len(after) : hs[m] = after[m]
      OBVIOUS
    <2> HIDE DEF hs
    <2>0. Len(before) \in Nat /\ Len(after) \in Nat OBVIOUS
    <2>3. \A m \in 1 .. Len(before) : hs[m] = before[m]
      BY <2>0, <2>2 DEF Kept
    <2>4. \A m \in Len(before) + 1 .. Len(hs) : hs[m] \in files \cup {file}
      <3> SUFFICES ASSUME NEW m \in Len(before) + 1 .. Len(hs) PROVE hs[m] \in files \cup {file}
        OBVIOUS
      <3>1. CASE m = Len(hs) BY <2>2, <3>1
      <3>2. CASE m # Len(hs)
        <4>1. m \in Len(before) + 1 .. Len(after) /\ m \in 1 .. Len(after) BY <2>0, <2>2, <3>2
        <4> QED BY <4>1, <2>2 DEF Kept
      <3> QED BY <3>1, <3>2
    <2>5. \A other \in files \cup {file} :
            IsGame(other) => \E m \in 1 .. Len(hs) : hs[m] = other
      <3> SUFFICES ASSUME NEW other \in files \cup {file}, IsGame(other)
                   PROVE  \E m \in 1 .. Len(hs) : hs[m] = other
        OBVIOUS
      <3>1. CASE other = file
        <4>1. Len(hs) \in 1 .. Len(hs) BY <2>0, <2>2
        <4> QED BY <4>1, <2>2, <3>1
      <3>2. CASE other # file
        <4>1. PICK m \in 1 .. Len(after) : after[m] = other BY <3>2 DEF Kept
        <4>2. m \in 1 .. Len(hs) BY <2>0, <2>2
        <4> QED BY <4>1, <4>2, <2>2
      <3> QED BY <3>1, <3>2
    <2>6. Kept(old, before, files \cup {file}, new, hs)
      BY <1>1, <2>0, <2>2, <2>3, <2>4, <2>5 DEF Kept
    <2> QED BY <2>1, <2>2, <2>6 DEF Grown
  <1>2. CASE ~ IsGame(file)
    <2> DEFINE b == [k \in DOMAIN new \cup Keys(file) |-> IF k \in DOMAIN new THEN new[k] ELSE file]
    <2>1. Register([apps |-> new, games |-> after], file) = [apps |-> b, games |-> after]
      BY <1>2 DEF Register
    <2>2. Kept(old, before, files \cup {file}, b, after)
      BY <1>2 DEF Kept
    <2> QED BY <2>1, <2>2 DEF Grown
  <1> QED BY <1>1, <1>2

(* Nor do all the files of a directory. *)
LEMMA FoldKeeps ==
  ASSUME NEW T, NEW old, NEW before \in Seq(T), NEW files \in Seq(T)
  PROVE  Grown(T, old, before, Range(files),
               FoldLeft(Register, [apps |-> old, games |-> before], files))
  <1> DEFINE First(n) == { files[j] : j \in 1 .. n }
  <1> PICK known :
        /\ known[0] = [apps |-> old, games |-> before]
        /\ \A n \in 1 .. Len(files) : known[n] = Register(known[n - 1], files[n])
        /\ FoldLeft(Register, [apps |-> old, games |-> before], files) = known[Len(files)]
    BY Registered
  <1> DEFINE Good(n) == Grown(T, old, before, First(n), known[n])
             B == { n \in 0 .. Len(files) : ~ Good(n) }
  <1>0. DOMAIN files = 1 .. Len(files) /\ Len(files) \in Nat /\ \A j \in 1 .. Len(files) : files[j] \in T
    OBVIOUS
  <1>1. ASSUME B # {} PROVE FALSE
    <2>0. B \in SUBSET Nat BY <1>0
    <2>1. PICK n \in B : \A m \in B : n =< m
      <3> HIDE DEF B
      <3> QED BY <1>1, <2>0, LeastNumber
    <2>2. CASE n = 0
      <3>1. First(0) = {} OBVIOUS
      <3>2. Kept(old, before, {}, old, before)
        <4>1. Len(before) \in Nat OBVIOUS
        <4> QED BY <4>1 DEF Kept
      <3> HIDE DEF First
      <3>3. Good(0) BY <3>1, <3>2 DEF Grown
      <3> QED BY <2>1, <2>2, <3>3
    <2>3. CASE n # 0
      <3>1. n - 1 \in 0 .. Len(files) /\ n \in 1 .. Len(files) /\ ~ (n =< n - 1) BY <1>0, <2>0, <2>3
      <3>2. Good(n - 1) BY <2>1, <3>1
      <3> HIDE DEF First
      <3>3. known[n] = Register(known[n - 1], files[n]) /\ files[n] \in T BY <1>0, <3>1
      <3>4. Grown(T, old, before, First(n - 1) \cup {files[n]}, known[n])
        BY <3>2, <3>3, RegisterKeeps
      <3>6. First(n) = First(n - 1) \cup {files[n]}
        <4>1. 1 .. n = (1 .. n - 1) \cup {n} BY <3>1
        <4> QED BY <4>1 DEF First
      <3>7. Good(n) BY <3>4, <3>6
      <3> QED BY <2>1, <3>7
    <2> QED BY <2>2, <2>3
  <1>2. Good(Len(files))
    <2>1. Len(files) \in 0 .. Len(files) BY <1>0
    <2> HIDE DEF Good
    <2> QED BY <1>1, <2>1
  <1>3. First(Len(files)) = Range(files) BY <1>0 DEF Range
  <1> QED BY <1>2, <1>3

(* The files the table is made of. *)
Dirs        == {System} \cup Owners
Files       == UNION { Range(shelf[dir]) : dir \in Dirs }
SystemFiles == Range(shelf[System])

(* Files are in the directory they were found in, and have a command. *)
Shelved ==
  \A dir \in Dirs :
    /\ shelf[dir] \in Seq(Range(shelf[dir]))
    /\ \A file \in Range(shelf[dir]) : file.dir = dir /\ file.exe # NoName

(***************************************************************************)
(* Once the directories of the system are read, its files have the first   *)
(* places: they are found under their keys, and their games come before    *)
(* those of the users.                                                     *)
(***************************************************************************)
SystemFirst ==
  /\ \A file \in SystemFiles : ~ IsGame(file) =>
       \A k \in Keys(file) : k \in DOMAIN apps /\ apps[k] \in SystemFiles /\ k \in Keys(apps[k])
  /\ \E c \in 0 .. Len(games) :
       /\ \A m \in 1 .. c : games[m] \in SystemFiles
       /\ \A file \in SystemFiles : IsGame(file) => \E m \in 1 .. c : games[m] = file

LookupInv ==
  /\ Shelved
  /\ unread \subseteq Dirs
  /\ games \in Seq(Files)
  /\ System \in unread => apps = << >> /\ games = << >>
  /\ System \notin unread => SystemFirst

LEMMA LookupInitInv == TickInit => LookupInv
  <1> SUFFICES ASSUME TickInit PROVE LookupInv OBVIOUS
  <1> PICK setup \in Setups : shelf = setup.shelf BY DEF TickInit
  <1>1. Shelved BY TickScanAssumption DEF Shelved, Dirs
  <1>2. unread = {System} \cup Owners /\ apps = << >> /\ games = << >>
    BY DEF TickInit, LookupInit
  <1> QED BY <1>1, <1>2 DEF LookupInv, Dirs

(* Registering the files of any directory. *)
LEMMA ScanDirInv ==
  ASSUME LookupInv, NEW dir \in Dirs, ScanDir(dir)
  PROVE  LookupInv'
  <1> DEFINE files == shelf[dir]
             known == FoldLeft(Register, [apps |-> apps, games |-> games], files)
  <1>1. shelf' = shelf /\ Files' = Files /\ SystemFiles' = SystemFiles /\ Shelved'
    BY DEF ScanDir, Files, SystemFiles, LookupInv, Shelved
  <1>2. apps' = known.apps /\ games' = known.games /\ unread' = unread \ {dir}
    BY DEF ScanDir
  <1>3. files \in Seq(Files) /\ games \in Seq(Files)
    <2>1. files \in Seq(Range(files)) /\ Range(files) \subseteq Files BY DEF LookupInv, Shelved, Files
    <2> HIDE DEF files
    <2> QED BY <2>1 DEF LookupInv
  <1>4. Grown(Files, apps, games, Range(files), known)
    <2> HIDE DEF files
    <2> QED BY <1>3, FoldKeeps
  <1> HIDE DEF known
  <1>5. games' \in Seq(Files) /\ Kept(apps, games, Range(files), apps', games')
    BY <1>2, <1>4 DEF Grown
  <1>6. System \notin unread'
    BY <1>2 DEF ScanDir
  <1>7. SystemFirst'
    <2>0. Len(games) \in Nat /\ Len(games') \in Nat BY <1>3, <1>5
    <2>1. CASE System \in unread
      <3>1. dir = System /\ Range(files) = SystemFiles /\ DOMAIN apps = {} /\ Len(games) = 0
        BY <2>1 DEF ScanDir, SystemFiles, LookupInv
      <3>2. \A file \in SystemFiles : ~ IsGame(file) =>
              \A k \in Keys(file) :
                k \in DOMAIN apps' /\ apps'[k] \in SystemFiles /\ k \in Keys(apps'[k])
        BY <1>5, <3>1 DEF Kept
      <3>3. /\ \A m \in 1 .. Len(games') : games'[m] \in SystemFiles
            /\ \A file \in SystemFiles : IsGame(file) => \E m \in 1 .. Len(games') : games'[m] = file
        BY <1>5, <2>0, <3>1 DEF Kept
      <3> QED BY <1>1, <2>0, <3>2, <3>3 DEF SystemFirst
    <2>2. CASE System \notin unread
      <3>1. SystemFirst BY <2>2 DEF LookupInv
      <3>2. \A file \in SystemFiles : ~ IsGame(file) =>
              \A k \in Keys(file) :
                k \in DOMAIN apps' /\ apps'[k] \in SystemFiles /\ k \in Keys(apps'[k])
        BY <1>5, <3>1 DEF Kept, SystemFirst
      <3>3. PICK c \in 0 .. Len(games) :
              /\ \A m \in 1 .. c : games[m] \in SystemFiles
              /\ \A file \in SystemFiles : IsGame(file) => \E m \in 1 .. c : games[m] = file
        BY <3>1 DEF SystemFirst
      <3>4. c \in 0 .. Len(games') /\ \A m \in 1 .. c : games'[m] = games[m]
        BY <1>5, <2>0, <3>3 DEF Kept
      <3>5. /\ \A m \in 1 .. c : games'[m] \in SystemFiles
            /\ \A file \in SystemFiles : IsGame(file) => \E m \in 1 .. c : games'[m] = file
        BY <3>3, <3>4
      <3> QED BY <1>1, <3>2, <3>4, <3>5 DEF SystemFirst
    <2> QED BY <2>1, <2>2
  <1> QED BY <1>1, <1>2, <1>5, <1>6, <1>7 DEF LookupInv

LEMMA LookupStep == LookupInv /\ [TickNext]_tickVars => LookupInv'
  <1> SUFFICES ASSUME LookupInv, [TickNext]_tickVars PROVE LookupInv' OBVIOUS
  <1>1. CASE BuildLookup BY <1>1, ScanDirInv DEF BuildLookup, Dirs
  <1>2. CASE UNCHANGED lookupVars
    <2>1. Shelved' = Shelved /\ Files' = Files BY <1>2 DEF lookupVars, Shelved, Files
    <2>2. SystemFirst' = SystemFirst BY <1>2 DEF lookupVars, SystemFirst, SystemFiles
    <2> QED BY <1>2, <2>1, <2>2 DEF lookupVars, LookupInv
  <1>3. CASE Goroutine /\ ~ BuildLookup
    <2>1. UNCHANGED lookupVars
      BY <1>3 DEF Goroutine, ListSessions, CheckSession, ScanProcesses, NameApps
    <2> QED BY <1>2, <2>1
  <1>4. CASE ~ Goroutine
    <2>1. UNCHANGED lookupVars
      BY <1>4 DEF TickNext, ProcessEvents, SessionChanges, tickVars
    <2> QED BY <1>2, <2>1
  <1> QED BY <1>1, <1>3, <1>4

LEMMA LookupInvariant == TickSpec => []LookupInv
  <1> QED BY LookupInitInv, LookupStep, PTL DEF TickSpec

(* The first file of a game is not behind any of them. *)
LEMMA FirstOfGame ==
  ASSUME NEW T, NEW files \in Seq(T), NEW m \in 1 .. Len(files)
  PROVE  LET first == SelectInSeq(files, LAMBDA file : file.game = files[m].game)
         IN  first \in 1 .. m /\ files[first].game = files[m].game
  <1> DEFINE first == SelectInSeq(files, LAMBDA file : file.game = files[m].game)
             I == { i \in 1 .. Len(files) : files[i].game = files[m].game }
  <1>1. I \in SUBSET Nat /\ m \in I OBVIOUS
  <1>2. first = Min(I) BY <1>1 DEF SelectInSeq
  <1>3. \E x \in I : \A y \in I : x =< y
    <2> HIDE DEF I
    <2> QED BY <1>1, LeastNumber
  <1>4. Min(I) \in I /\ \A y \in I : Min(I) =< y BY <1>3 DEF Min
  <1>5. Min(I) \in 1 .. m BY <1>1, <1>4
  <1> HIDE DEF first
  <1>6. first \in I BY <1>2, <1>4
  <1> QED BY <1>2, <1>5, <1>6 DEF first

(* The game of a file of the system is named by a file of the system. *)
LEMMA NamedByGame ==
  ASSUME LookupInv, Built, NEW file \in SystemFiles, IsGame(file)
  PROVE  \E other \in SystemFiles : NameOfGame(file.game) = NameIn(other) /\ other.game = file.game
  <1> DEFINE first == SelectInSeq(games, LAMBDA f : f.game = file.game)
  <1>0. games \in Seq(Files) /\ SystemFirst BY DEF LookupInv, Built
  <1>1. PICK c \in 0 .. Len(games) :
          (\A m \in 1 .. c : games[m] \in SystemFiles) /\ \E m \in 1 .. c : games[m] = file
    BY <1>0 DEF SystemFirst
  <1>2. PICK m \in 1 .. c : games[m] = file BY <1>1
  <1>3. m \in 1 .. Len(games) /\ m =< c /\ c \in Nat BY <1>0, <1>1, <1>2
  <1>4. first \in 1 .. m /\ games[first].game = file.game
    <2>1. LET f == SelectInSeq(games, LAMBDA other : other.game = games[m].game)
          IN  f \in 1 .. m /\ games[f].game = games[m].game
      BY <1>0, <1>3, FirstOfGame
    <2> QED BY <1>2, <2>1
  <1>5. NameOfGame(file.game) = FirstName(first, Unnamed) BY DEF NameOfGame
  <1> HIDE DEF first
  <1>6. first # 0 /\ games[first] \in SystemFiles BY <1>1, <1>3, <1>4
  <1> QED BY <1>4, <1>5, <1>6 DEF FirstName

(* So is everything else that one of them describes. *)
LEMMA NamedByFile ==
  ASSUME LookupInv, Built, NEW file \in SystemFiles, ~ IsGame(file), NEW k \in Keys(file)
  PROVE  \E other \in SystemFiles : NameOfExe(k) = NameIn(other) /\ k \in Keys(other)
  BY DEF LookupInv, Built, SystemFirst, NameOfExe

(* Both kinds of file together. *)
LEMMA NamesKept == LookupInv => SystemNamesKept
  <1> SUFFICES ASSUME LookupInv, Built, NEW i \in DOMAIN shelf[System]
               PROVE  LET file == shelf[System][i] IN
                        IF IsGame(file) THEN NameOfGame(file.game)[1] = System
                        ELSE \A k \in Keys(file) : NameOfExe(k)[1] = System
    BY DEF SystemNamesKept
  <1> DEFINE file == shelf[System][i]
  <1>1. file \in SystemFiles BY DEF SystemFiles, Range
  <1>2. \A other \in SystemFiles : NameIn(other)[1] = System
    BY DEF LookupInv, Shelved, Dirs, SystemFiles, NameIn
  <1>3. CASE IsGame(file)
    <2> HIDE DEF file
    <2>1. NameOfGame(file.game)[1] = System BY <1>1, <1>2, <1>3, NamedByGame
    <2> QED BY <1>3, <2>1 DEF file
  <1>4. CASE ~ IsGame(file)
    <2> HIDE DEF file
    <2>1. \A k \in Keys(file) : NameOfExe(k)[1] = System BY <1>1, <1>2, <1>4, NamedByFile
    <2> QED BY <1>4, <2>1 DEF file
  <1> QED BY <1>3, <1>4

(***************************************************************************)
(* What a file of the system describes is counted under the name of such a *)
(* file, for any files in any order and any number of users.               *)
(***************************************************************************)
THEOREM NamesOfTheSystem == TickSpec => []SystemNamesKept
  <1> QED BY NamesKept, LookupInvariant, PTL

-----------------------------------------------------------------------------
(* The tree of processes. *)

(***************************************************************************)
(* A table without cycles, said without its lineages: every parent is in it*)
(* or out of sight, and from every set of processes some parent leads out. *)
(***************************************************************************)
Acyclic(table) ==
  /\ \A p \in DOMAIN table : table[p].parent \in DOMAIN table \cup {Outside}
  /\ \A pids \in SUBSET DOMAIN table :
       pids # {} => \E q \in pids : table[q].parent \notin pids

(* A lineage is the least set that p is in and no parent leads out of. *)
LEMMA LineageClosed ==
  ASSUME NEW table, NEW p \in DOMAIN table
  PROVE  /\ p \in Lineage(table, p) /\ Lineage(table, p) \subseteq DOMAIN table
         /\ Closed(table, Lineage(table, p))
  BY DEF Lineage, Closed

LEMMA LineageLeast ==
  ASSUME NEW table, NEW p, NEW pids \in SUBSET DOMAIN table, p \in pids, Closed(table, pids)
  PROVE  Lineage(table, p) \subseteq pids
  BY DEF Lineage

(* What is above a process above p is above p. *)
LEMMA LineageThrough ==
  ASSUME NEW table, NEW p \in DOMAIN table, NEW q \in Lineage(table, p)
  PROVE  Lineage(table, q) \subseteq Lineage(table, p)
  BY LineageClosed, LineageLeast

(* What is above p, other than p, is above its parent. *)
LEMMA LineageStep ==
  ASSUME NEW table, NEW p \in DOMAIN table, NEW q \in Lineage(table, p), q # p
  PROVE  table[p].parent \in DOMAIN table /\ q \in Lineage(table, table[p].parent)
  <1> DEFINE up == table[p].parent
  <1>1. up \in DOMAIN table
    <2> SUFFICES ASSUME up \notin DOMAIN table PROVE FALSE OBVIOUS
    <2>1. Closed(table, {p}) BY DEF Closed
    <2> QED BY <2>1, LineageLeast
  <1>2. up \in Lineage(table, up) /\ Closed(table, Lineage(table, up)) BY <1>1, LineageClosed
  <1>3. Closed(table, {p} \cup Lineage(table, up)) BY <1>2 DEF Closed
  <1>4. {p} \cup Lineage(table, up) \in SUBSET DOMAIN table BY <1>1, LineageClosed
  <1>5. Lineage(table, p) \subseteq {p} \cup Lineage(table, up) BY <1>3, <1>4, LineageLeast
  <1> QED BY <1>1, <1>5

(* A forest has no cycles. *)
LEMMA ForestAcyclic ==
  ASSUME NEW table, IsTable(table), IsForest(table)
  PROVE  Acyclic(table)
  <1> SUFFICES ASSUME NEW pids \in SUBSET DOMAIN table, pids # {},
                      \A q \in pids : table[q].parent \in pids
               PROVE  FALSE
    BY DEF Acyclic, IsForest
  <1>1. PICK p \in pids : TRUE OBVIOUS
  <1>2. Lineage(table, p) \subseteq pids BY <1>1, LineageLeast DEF Closed
  <1>3. PICK q \in Lineage(table, p) : table[q].parent = Outside BY <1>1 DEF IsForest
  <1>4. Outside \in Pids BY <1>2, <1>3 DEF IsTable
  <1> QED BY <1>4, ProcessScanAssumption DEF Outside

(* Of two processes, at most one is above the other. *)
LEMMA OneAbove ==
  ASSUME NEW table, Acyclic(table), NEW p \in DOMAIN table, NEW q \in Lineage(table, p), q # p
  PROVE  p \notin Lineage(table, q)
  <1> SUFFICES ASSUME p \in Lineage(table, q) PROVE FALSE OBVIOUS
  <1> DEFINE below == { y \in DOMAIN table : p \in Lineage(table, y) }
  <1>1. \A y \in below : table[y].parent \in below
    <2> SUFFICES ASSUME NEW y \in below PROVE table[y].parent \in below OBVIOUS
    <2>1. CASE y # p BY <2>1, LineageStep
    <2>2. CASE y = p
      <3>1. table[p].parent \in DOMAIN table /\ q \in Lineage(table, table[p].parent)
        BY LineageStep
      <3> QED BY <2>2, <3>1, LineageThrough
    <2> QED BY <2>1, <2>2
  <1>2. p \in below BY LineageClosed
  <1> HIDE DEF below
  <1>3. below \in SUBSET DOMAIN table BY DEF below
  <1> QED BY <1>1, <1>2, <1>3 DEF Acyclic

(* A new process is the parent of none. *)
LEMMA ForkAcyclic ==
  ASSUME IsTable(live), Acyclic(live), NEW p, NEW child \in Pids, NEW program, Fork(p, child, program)
  PROVE  Acyclic(live')
  <1>1. /\ p \in DOMAIN live \cup {Outside} /\ child \notin DOMAIN live
        /\ DOMAIN live' = DOMAIN live \cup {child}
        /\ \A q \in DOMAIN live : live'[q] = live[q]
        /\ live'[child].parent = p
    BY DEF Fork, With
  <1>2. child # Outside BY ProcessScanAssumption DEF Outside
  <1>3. ASSUME NEW pids \in SUBSET DOMAIN live', pids # {},
               \A q \in pids : live'[q].parent \in pids
        PROVE  FALSE
    <2> DEFINE rest == pids \ {child}
    <2>1. rest \in SUBSET DOMAIN live BY <1>1
    <2>2. \A q \in rest : live[q].parent \in rest BY <1>1, <1>2, <1>3, <2>1 DEF Acyclic
    <2>3. rest = {} BY <2>1, <2>2 DEF Acyclic
    <2> QED BY <1>1, <1>2, <1>3, <2>3
  <1>4. \A q \in DOMAIN live' : live'[q].parent \in DOMAIN live' \cup {Outside}
    BY <1>1 DEF Acyclic
  <1> QED BY <1>3, <1>4 DEF Acyclic

(***************************************************************************)
(* The children of p go to a process above p, which is not below any of    *)
(* them.                                                                   *)
(***************************************************************************)
LEMMA ExitAcyclic ==
  ASSUME IsTable(live), Acyclic(live), NEW p, Exit(p)
  PROVE  Acyclic(live')
  <1>0. p \in DOMAIN live BY DEF Exit
  <1> PICK q \in NewParents(p) :
        live' = [r \in DOMAIN live \ {p} |->
                  IF live[r].parent = p THEN [live[r] EXCEPT !.parent = q] ELSE live[r]]
    BY DEF Exit
  <1>1. q = Outside \/ q \in Lineage(live, p) \ {p} BY DEF NewParents
  <1>2. /\ DOMAIN live' = DOMAIN live \ {p}
        /\ \A r \in DOMAIN live \ {p} :
             live'[r].parent = IF live[r].parent = p THEN q ELSE live[r].parent
    BY DEF IsTable, Process
  <1>3. \A r \in DOMAIN live' : live'[r].parent \in DOMAIN live' \cup {Outside}
    BY <1>0, <1>1, <1>2, LineageClosed DEF Acyclic
  <1>4. ASSUME NEW pids \in SUBSET DOMAIN live', pids # {},
               \A r \in pids : live'[r].parent \in pids
        PROVE  FALSE
    <2>0. Outside \notin pids BY <1>2, ProcessScanAssumption DEF IsTable, Outside
    <2>1. PICK r \in pids : live[r].parent = p BY <1>2, <1>4 DEF Acyclic
    <2>2. q \in pids /\ q \in Lineage(live, p) \ {p} BY <1>1, <1>2, <1>4, <2>0, <2>1
    <2>3. p \notin Lineage(live, q) BY <1>0, <2>2, OneAbove
    <2> DEFINE both == pids \cap Lineage(live, q)
    <2>4. q \in DOMAIN live /\ q \in both BY <1>2, <2>2, LineageClosed
    <2>5. \A x \in both : live[x].parent \in both
      <3> SUFFICES ASSUME NEW x \in both PROVE live[x].parent \in both OBVIOUS
      <3>1. Closed(live, Lineage(live, q)) BY <2>4, LineageClosed
      <3>2. live[x].parent # p BY <1>0, <2>3, <3>1 DEF Closed
      <3>3. live[x].parent \in pids BY <1>2, <1>4, <3>2
      <3> QED BY <1>2, <3>1, <3>3 DEF Closed
    <2>6. both \in SUBSET DOMAIN live BY <1>2
    <2> HIDE DEF both
    <2> QED BY <2>4, <2>5, <2>6 DEF Acyclic
  <1> QED BY <1>3, <1>4 DEF Acyclic

(***************************************************************************)
(* A process nothing happens to is still to be read, being read, or read   *)
(* as it is.                                                               *)
(***************************************************************************)
ReadAsItIs ==
  \A p \in DOMAIN live \ disturbed :
    /\ p \in DOMAIN procs => procs[p] = live[p]
    /\ phase = "read" => p \in todo \cup DOMAIN procs \/ (half # NoEntry /\ half[1] = p)
    /\ phase \in {"walk", "done"} => p \in DOMAIN procs

(* The walk leaves nothing out that it has come to. *)
WalkedOn ==
  /\ phase \in {"walk", "done"} => TopLevel \subseteq pending \cup visited
  /\ \A p \in visited : Children(p) \subseteq pending \cup visited /\ Collected(p) \subseteq names
  /\ phase = "done" => pending = {}

CountInv ==
  /\ TickInv /\ LookupInv
  /\ Acyclic(live) /\ ReadAsItIs /\ WalkedOn
  /\ tick # "sessions" => Built
  /\ SteadyCounted

LEMMA CountInit == TickInit => CountInv
  <1> SUFFICES ASSUME TickInit PROVE CountInv OBVIOUS
  <1>1. TickInv /\ LookupInv BY TickInitInv, LookupInitInv
  <1>2. Acyclic(live)
    <2>1. PICK setup \in Setups : live = setup.live BY DEF TickInit
    <2>2. IsForest(live) /\ IsTable(live)
      BY <1>1, <2>1, TickScanAssumption DEF Forests, TickInv, ScanInv, TypeOK
    <2> QED BY <2>2, ForestAcyclic
  <1>3. ScanReady /\ tick = "sessions" BY DEF TickInit
  <1>4. DOMAIN procs = {} BY <1>3 DEF ScanReady
  <1>5. ReadAsItIs /\ WalkedOn BY <1>3, <1>4 DEF ScanReady, ReadAsItIs, WalkedOn
  <1>6. SteadyCounted BY <1>3 DEF SteadyCounted
  <1> QED BY <1>1, <1>2, <1>3, <1>5, <1>6 DEF CountInv

LEMMA AcyclicStep ==
  ASSUME TypeOK, Acyclic(live), [Next]_vars
  PROVE  Acyclic(live')
  <1>1. CASE Events BY <1>1, ForkAcyclic, ExitAcyclic DEF Events, TypeOK
  <1>2. CASE UNCHANGED live BY <1>2
  <1> QED BY <1>1, <1>2 DEF Next, Scan, List, ReadStatus, Visit, ReadExe, StartWalk, EndWalk, world, vars

(* Each step of the scan, and each event, keeps what was read as it is. *)
LEMMA ReadStep ==
  ASSUME ScanInv, ReadAsItIs, [Next]_vars
  PROVE  ReadAsItIs'
  <1> USE DEF ScanInv
  <1>1. CASE Events
    <2>1. \A p \in DOMAIN live' \ disturbed' : p \in DOMAIN live \ disturbed /\ live'[p] = live[p]
      BY <1>1, EventsDisturb
    <2>2. UNCHANGED scan BY <1>1 DEF Events, Fork, Exit
    <2> QED BY <2>1, <2>2 DEF ReadAsItIs, scan
  <1>2. CASE List
    <2>1. DOMAIN procs = {} BY <1>2 DEF List, Reached
    <2> QED BY <1>2, <2>1 DEF List, ReadAsItIs
  <1>3. CASE \E p \in Pids : ReadStatus(p)
    BY <1>3 DEF ReadStatus, ReadAsItIs, NoEntry, world
  <1>4. CASE ReadExe
    <2>1. half \in Pids \X (Pids \cup {Outside}) /\ phase = "read"
      BY <1>4 DEF ReadExe, TypeOK, Reached
    <2> DEFINE p == half[1]
    <2>2. CASE p \notin DOMAIN live BY <1>4, <2>1, <2>2 DEF ReadExe, ReadAsItIs, world
    <2>3. CASE p \in DOMAIN live
      <3>1. procs' = With(procs, p, [parent |-> half[2], program |-> live[p].program])
        BY <1>4, <2>3 DEF ReadExe
      <3>2. p \notin disturbed => [parent |-> half[2], program |-> live[p].program] = live[p]
        BY <2>1, <2>3 DEF TypeOK, IsTable, Process, ParentRead, NoEntry
      <3>3. UNCHANGED << live, disturbed, phase, todo >> /\ half' = NoEntry BY <1>4 DEF ReadExe, world
      <3>4. /\ DOMAIN procs' = DOMAIN procs \cup {p}
            /\ \A r \in DOMAIN procs : r # p => procs'[r] = procs[r]
            /\ procs'[p] = [parent |-> half[2], program |-> live[p].program]
        BY <3>1 DEF With
      <3> QED BY <2>1, <3>2, <3>3, <3>4 DEF ReadAsItIs
    <2> QED BY <2>2, <2>3
  <1>5. CASE StartWalk \/ (\E p \in Pids : Visit(p)) \/ EndWalk
    BY <1>5 DEF StartWalk, Visit, EndWalk, ReadAsItIs, world
  <1>6. CASE UNCHANGED vars BY <1>6 DEF ReadAsItIs, vars, world, scan
  <1> QED BY <1>1, <1>2, <1>3, <1>4, <1>5, <1>6 DEF Next, Scan

(* A visit adds to the pending what the visited one leads to. *)
LEMMA WalkedStep ==
  ASSUME ScanInv, WalkedOn, [Next]_vars
  PROVE  WalkedOn'
  <1> USE DEF ScanInv
  <1>1. CASE Events \/ UNCHANGED vars
    <2>1. UNCHANGED scan BY <1>1 DEF Events, Fork, Exit, vars
    <2> QED BY <2>1 DEF WalkedOn, TopLevel, Roots, Children, Collected, scan
  <1>2. CASE List \/ (\E p \in Pids : ReadStatus(p)) \/ ReadExe
    <2>1. phase \in {"list", "read"} BY <1>2 DEF List, ReadStatus, ReadExe, Reached
    <2>2. visited' = {} /\ phase' = "read"
      BY <1>2, <2>1 DEF List, ReadStatus, ReadExe, Reached, TypeOK
    <2> QED BY <2>2 DEF WalkedOn
  <1>3. CASE StartWalk
    <2>1. visited' = {} /\ phase' = "walk" /\ pending' = TopLevel /\ procs' = procs
      BY <1>3 DEF StartWalk, Reached
    <2> QED BY <2>1 DEF WalkedOn, TopLevel, Roots, Children
  <1>4. CASE \E p \in Pids : Visit(p)
    <2> PICK p \in Pids : Visit(p) BY <1>4
    <2>1. /\ procs' = procs /\ phase' = "walk" /\ phase = "walk"
          /\ pending' = (pending \ {p}) \cup Children(p) /\ visited' = visited \cup {p}
          /\ names \subseteq names' /\ Collected(p) \subseteq names'
      BY DEF Visit
    <2>2. TopLevel' = TopLevel /\ \A x : Children(x)' = Children(x) /\ Collected(x)' = Collected(x)
      BY <2>1 DEF TopLevel, Roots, Children, Collected
    <2>3. pending \cup visited \subseteq pending' \cup visited' /\ Children(p) \subseteq pending'
      BY <2>1
    <2> QED BY <2>1, <2>2, <2>3 DEF WalkedOn
  <1>5. CASE EndWalk
    BY <1>5 DEF EndWalk, WalkedOn, TopLevel, Roots, Children, Collected
  <1> QED BY <1>1, <1>2, <1>3, <1>4, <1>5 DEF Next, Scan

(***************************************************************************)
(* The walk comes to an application of which neither it nor anything above *)
(* it was disturbed: the processes of its lineage that are no roots and not*)
(* visited would have their parents among them.                            *)
(***************************************************************************)
LEMMA SteadyVisited ==
  ASSUME ScanInv, Acyclic(live), ReadAsItIs, WalkedOn, phase = "done", NEW p \in SteadyApps
  PROVE  p \in visited /\ procs[p] = live[p]
  <1> DEFINE missed == { x \in Lineage(live, p) : x \notin Roots /\ x \notin visited }
  <1>0. p \in DOMAIN live /\ live[p].parent # Outside /\ Lineage(live, p) \cap disturbed = {}
    BY DEF SteadyApps
  <1>1. /\ p \in Lineage(live, p) /\ Lineage(live, p) \subseteq DOMAIN live
        /\ Closed(live, Lineage(live, p))
    BY <1>0, LineageClosed
  <1>2. \A x \in Lineage(live, p) : x \in DOMAIN procs /\ procs[x] = live[x]
    BY <1>0, <1>1 DEF ReadAsItIs
  <1>3. ASSUME NEW x \in Lineage(live, p), live[x].parent # Outside
        PROVE  live[x].parent \in Lineage(live, p)
    BY <1>1, <1>3 DEF Closed, Acyclic
  <1>4. ASSUME p \notin visited PROVE FALSE
    <2>1. p \in missed BY <1>0, <1>1, <1>2, <1>3, <1>4 DEF Roots
    <2>2. ASSUME NEW x \in missed PROVE live[x].parent \in missed
      <3> DEFINE y == live[x].parent
      <3>1. procs[x].parent = y /\ y \in DOMAIN procs /\ x \in DOMAIN procs BY <1>2 DEF Roots
      <3>2. y # Outside BY <3>1, ProcessScanAssumption DEF ScanInv, TypeOK, IsTable, Outside
      <3>3. y \in Lineage(live, p) BY <1>3, <3>2
      <3>4. x \in Children(y) BY <3>1 DEF Children
      <3>5. y \notin visited BY <3>4 DEF WalkedOn
      <3>6. y \notin Roots
        <4>1. y \in Roots => x \in TopLevel BY <3>4 DEF TopLevel
        <4> QED BY <4>1 DEF WalkedOn
      <3> QED BY <3>3, <3>5, <3>6
    <2>3. missed \in SUBSET DOMAIN live BY <1>1
    <2> HIDE DEF missed
    <2> QED BY <2>1, <2>2, <2>3 DEF Acyclic
  <1> QED BY <1>1, <1>2, <1>4

(* What a file describes is named by it, or by one that came before it. *)
LEMMA DescribedNamed ==
  ASSUME LookupInv, Built, NEW program \in Programs, NEW i \in DOMAIN shelf[System],
         Describes(shelf[System][i], program)
  PROVE  \E name \in Identifiers(program) : \E j \in DOMAIN shelf[System] :
           /\ NameOf(name) = NameIn(shelf[System][j])
           /\ IF IsGame(shelf[System][i])
              THEN shelf[System][j].game = shelf[System][i].game
              ELSE shelf[System][i].exe \in Keys(shelf[System][j])
  <1> DEFINE file == shelf[System][i]
  <1>1. file \in SystemFiles /\ file.exe # NoName
    <2>1. file \in SystemFiles BY DEF SystemFiles, Range
    <2>2. \A other \in SystemFiles : other.exe # NoName BY DEF SystemFiles, LookupInv, Shelved, Dirs
    <2> QED BY <2>1, <2>2
  <1>2. \A other \in SystemFiles : \E j \in DOMAIN shelf[System] : other = shelf[System][j]
    BY DEF SystemFiles, Range
  <1>3. CASE IsGame(file)
    <2>1. file.game = GameOf[program] /\ file.game # NoName
      BY <1>3, TickScanAssumption DEF Describes, IsGame
    <2>2. file.game \in Identifiers(program) /\ file.game \in Markers
      BY <2>1 DEF Identifiers, Markers
    <2>3. NameOf(file.game) = NameOfGame(file.game) BY <2>2 DEF NameOf
    <2>4. PICK other \in SystemFiles :
            NameOfGame(file.game) = NameIn(other) /\ other.game = file.game
      <3> HIDE DEF file
      <3> QED BY <1>1, <1>3, NamedByGame
    <2> QED BY <1>2, <1>3, <2>2, <2>3, <2>4
  <1>4. CASE ~ IsGame(file)
    <2>1. file.exe = ExeOf[program] BY <1>4 DEF Describes
    <2>2. file.exe \in Identifiers(program) /\ file.exe \notin Markers
      BY <1>1, <2>1, TickScanAssumption DEF Identifiers
    <2>3. NameOf(file.exe) = NameOfExe(file.exe) BY <2>2 DEF NameOf
    <2>4. PICK other \in SystemFiles :
            NameOfExe(file.exe) = NameIn(other) /\ file.exe \in Keys(other)
      <3>1. file.exe \in Keys(file) BY DEF Keys
      <3> HIDE DEF file
      <3> QED BY <1>1, <1>4, <3>1, NamedByFile
    <2> QED BY <1>2, <1>4, <2>2, <2>3, <2>4
  <1> QED BY <1>3, <1>4

(* The names of what was visited get their time. *)
LEMMA NameAppsCounts ==
  ASSUME CountInv, NameApps
  PROVE  SteadyCounted'
  <1> USE DEF CountInv, TickInv
  <1>1. UNCHANGED << live, disturbed, shelf >> BY DEF NameApps, vars, world, lookupVars
  <1>2. Built /\ phase = "done" BY DEF NameApps
  <1>3. ASSUME NEW p \in SteadyApps, NEW i \in DOMAIN shelf[System],
               Describes(shelf[System][i], live[p].program)
        PROVE  \E j \in DOMAIN shelf[System] :
                 /\ NameIn(shelf[System][j]) \in counted'
                 /\ IF IsGame(shelf[System][i])
                    THEN shelf[System][j].game = shelf[System][i].game
                    ELSE shelf[System][i].exe \in Keys(shelf[System][j])
    <2>1. p \in visited /\ procs[p] = live[p] BY <1>2, SteadyVisited
    <2>2. live[p].program \in Programs
      BY DEF SteadyApps, ScanInv, TypeOK, IsTable, Process
    <2>3. PICK name \in Identifiers(live[p].program) : \E j \in DOMAIN shelf[System] :
            /\ NameOf(name) = NameIn(shelf[System][j])
            /\ IF IsGame(shelf[System][i])
               THEN shelf[System][j].game = shelf[System][i].game
               ELSE shelf[System][i].exe \in Keys(shelf[System][j])
      BY <1>2, <1>3, <2>2, DescribedNamed
    <2>4. name \in names BY <2>1 DEF WalkedOn, Collected
    <2>5. \A file : NameIn(file) # Unnamed BY DEF NameIn, Unnamed
    <2>6. NameOf(name) # Unnamed => NameOf(name) \in counted' BY <2>4 DEF NameApps
    <2> QED BY <2>3, <2>5, <2>6
  <1>4. SteadyApps' = SteadyApps BY <1>1 DEF SteadyApps, Lineage, Closed
  <1>5. SteadyTopLevel' = SteadyTopLevel BY <1>1, <1>4 DEF SteadyTopLevel
  <1>6. \A file, program : Describes(file, program)' = Describes(file, program)
        /\ Keys(file)' = Keys(file) /\ NameIn(file)' = NameIn(file) /\ IsGame(file)' = IsGame(file)
    BY DEF Describes, IsGame, Keys, NameIn
  <1> QED BY <1>1, <1>3, <1>4, <1>5, <1>6 DEF SteadyCounted

LEMMA CountStep == CountInv /\ [TickNext]_tickVars => CountInv'
  <1> SUFFICES ASSUME CountInv, [TickNext]_tickVars PROVE CountInv' OBVIOUS
  <1>1. TickInv /\ LookupInv /\ ScanInv /\ TypeOK BY DEF CountInv, TickInv, ScanInv
  <1>2. TickInv' /\ LookupInv' BY <1>1, TickStep, LookupStep
  <1>3. [Next]_vars
    BY DEF TickNext, Goroutine, BuildLookup, ListSessions, CheckSession, ScanProcesses, NameApps,
           ProcessEvents, SessionChanges, tickVars, Next
  <1>4. Acyclic(live') BY <1>1, <1>3, AcyclicStep DEF CountInv
  <1>5. ReadAsItIs' /\ WalkedOn' BY <1>1, <1>3, ReadStep, WalkedStep DEF CountInv
  <1>6. tick' # "sessions" => Built'
    <2>1. unread' \subseteq unread /\ (tick # "sessions" => Built)
      BY DEF TickNext, Goroutine, BuildLookup, ScanDir, ListSessions, CheckSession, ScanProcesses,
             NameApps, ProcessEvents, SessionChanges, tickVars, lookupVars, CountInv
    <2>2. tick' = tick \/ Built
      BY <2>1 DEF TickNext, Goroutine, BuildLookup, ListSessions, CheckSession, ScanProcesses,
             NameApps, ProcessEvents, SessionChanges, tickVars, tracker, Built
    <2> QED BY <2>1, <2>2 DEF Built
  <1>7. SteadyCounted'
    <2>1. CASE NameApps BY <2>1, NameAppsCounts
    <2>2. CASE tick' # "named" BY <2>2 DEF SteadyCounted
    <2>3. CASE ~ NameApps /\ tick' = "named"
      <3>1. tick = "named" /\ UNCHANGED << live, disturbed, shelf, counted >>
        BY <2>3 DEF TickNext, Goroutine, BuildLookup, ScanDir, ListSessions, CheckSession,
             ScanProcesses, ProcessEvents, SessionChanges, tickVars, lookupVars, tracker, vars, world
      <3>2. SteadyApps' = SteadyApps BY <3>1 DEF SteadyApps, Lineage, Closed
      <3>3. SteadyTopLevel' = SteadyTopLevel BY <3>1, <3>2 DEF SteadyTopLevel
      <3>4. SteadyCounted BY DEF CountInv
      <3> QED BY <3>1, <3>2, <3>3, <3>4 DEF SteadyCounted
    <2> QED BY <2>1, <2>2, <2>3
  <1> QED BY <1>2, <1>4, <1>5, <1>6, <1>7 DEF CountInv

(***************************************************************************)
(* An application below a session root, or a launcher's game however deep, *)
(* that is left alone through the scan gets its time, under the name of a  *)
(* file of the system if one describes it, for any processes that come and *)
(* go around it, any files, and any order of reading both.                 *)
(***************************************************************************)
THEOREM SteadyAppsAreCounted == TickSpec => []SteadyCounted
  <1>1. CountInv => SteadyCounted BY DEF CountInv
  <1>2. TickSpec => []CountInv BY CountInit, CountStep, PTL DEF TickSpec
  <1> QED BY <1>1, <1>2, PTL
=============================================================================
