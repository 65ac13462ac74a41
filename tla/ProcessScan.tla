------------------------------ MODULE ProcessScan ------------------------------
(***************************************************************************)
(* The scan of one user's processes, internal/activity/proc.go: the entries*)
(* of /proc are listed, read one by one (the parent, then the executable), *)
(* and the tree of those read is walked from its roots.  Processes start   *)
(* and end all the while, and pids are used again: what has been read need *)
(* not be a tree, nor anything that was ever there at one time.            *)
(***************************************************************************)
EXTENDS Integers, FiniteSets

CONSTANTS
  Pids,        \* pids the user's processes can have
  Programs,    \* what they can run
  BinOf,       \* by program: the base name of its executable
  ExeOf,       \* by program: that, or its comm if it runs in Wine's preloader
  ScopeOf,     \* by program: the application id of its cgroup, NoName without
  GameOf,      \* by program: the marker of a reaper's Steam id, NoName without
  NoName,
  Subreapers,  \* pids that orphans go to, of a systemd --user for example
  MaxEvents    \* bound on the processes that start or end

ASSUME ProcessScanAssumption ==
  /\ IsFiniteSet(Pids) /\ Pids \subseteq Nat \ {0}
  /\ Subreapers \subseteq Pids
  /\ MaxEvents \in Nat

VARIABLES
  live,      \* the processes there are: by pid, the parent and the program
  events,
  phase,     \* of the scan
  todo,      \* entries listed and not yet read
  half,      \* the entry of which the status has been read, with its parent
  procs,     \* the map of buildProcessTree: by pid, the parent and program read
  pending,   \* processes the walk has still to visit
  visited,   \* those it has visited
  names,     \* the result
  \* History, for the properties only:
  disturbed  \* pids of processes that started, ended or changed parents meanwhile

world == << live, events, disturbed >>
scan  == << phase, todo, half, procs, pending, visited, names >>
vars  == << world, scan >>

Outside == 0      \* a parent that is not a process of the user
NoEntry == << >>

Without(f, x) == [y \in DOMAIN f \ {x} |-> f[y]]
With(f, x, v) == [y \in DOMAIN f \cup {x} |-> IF y = x THEN v ELSE f[y]]

Process == [parent : Pids \cup {Outside}, program : Programs]
IsTable(f) == DOMAIN f \subseteq Pids /\ \A p \in DOMAIN f : f[p] \in Process

TypeOK ==
  /\ IsTable(live) /\ IsTable(procs)
  /\ events \in 0 .. MaxEvents
  /\ phase \in {"list", "read", "walk", "done"}
  /\ todo \subseteq Pids
  /\ half \in {NoEntry} \cup (Pids \X (Pids \cup {Outside}))
  /\ pending \subseteq DOMAIN procs /\ visited \subseteq DOMAIN procs
  /\ disturbed \subseteq Pids

Closed(table, pids) ==
  \A q \in pids : table[q].parent \in DOMAIN table => table[q].parent \in pids

(* The processes a table leads to from p through their parents, p included. *)
Lineage(table, p) ==
  { q \in DOMAIN table :
      \A pids \in SUBSET DOMAIN table : p \in pids /\ Closed(table, pids) => q \in pids }

(* A forest, as the kernel keeps it. *)
IsForest(table) ==
  \A p \in DOMAIN table :
    /\ table[p].parent \in DOMAIN table \cup {Outside}
    /\ \E q \in Lineage(table, p) : table[q].parent = Outside

ScanReady ==
  /\ disturbed = {}
  /\ phase = "list" /\ todo = {} /\ half = NoEntry
  /\ procs = << >> /\ pending = {} /\ visited = {} /\ names = {}

Forests == { table \in UNION { [alive -> Process] : alive \in SUBSET Pids } : IsForest(table) }

Init == live \in Forests /\ events = 0 /\ ScanReady

-----------------------------------------------------------------------------
(* The processes. *)

Event == events < MaxEvents /\ events' = events + 1

Fork(p, child, program) ==
  /\ Event
  /\ p \in DOMAIN live \cup {Outside} /\ child \notin DOMAIN live
  /\ live' = With(live, child, [parent |-> p, program |-> program])
  /\ disturbed' = disturbed \cup {child}
  /\ UNCHANGED scan

(* Where the children of p go: to its nearest subreaper, or out of sight. *)
NewParents(p) ==
  LET above   == Lineage(live, p) \ {p}
      nearest == { q \in above \cap Subreapers :
                     \A r \in above \cap Subreapers : r \in Lineage(live, q) }
  IN  IF nearest = {} THEN {Outside} ELSE nearest

Exit(p) ==
  /\ Event
  /\ p \in DOMAIN live
  /\ \E q \in NewParents(p) :
       live' = [r \in DOMAIN live \ {p} |->
                 IF live[r].parent = p THEN [live[r] EXCEPT !.parent = q] ELSE live[r]]
  /\ disturbed' = disturbed \cup {p} \cup { r \in DOMAIN live : live[r].parent = p }
  /\ UNCHANGED scan

-----------------------------------------------------------------------------
(* The scan. *)

(* os.ReadDir("/proc") *)
List ==
  /\ phase = "list" /\ phase' = "read"
  /\ todo' = DOMAIN live
  /\ disturbed' = {}
  /\ UNCHANGED << live, events, half, procs, pending, visited, names >>

(* readUIDAndPPID: an entry without a process any more is passed over. *)
ReadStatus(p) ==
  /\ phase = "read" /\ half = NoEntry
  /\ p \in todo /\ todo' = todo \ {p}
  /\ half' = IF p \in DOMAIN live THEN << p, live[p].parent >> ELSE NoEntry
  /\ UNCHANGED << world, phase, procs, pending, visited, names >>

(* The executable: of the process that has the pid by now. *)
ReadExe ==
  /\ half # NoEntry /\ half' = NoEntry
  /\ LET p == half[1] IN
     procs' = IF p \in DOMAIN live
              THEN With(procs, p, [parent |-> half[2], program |-> live[p].program])
              ELSE procs
  /\ UNCHANGED << world, phase, todo, pending, visited, names >>

Children(p) == { q \in DOMAIN procs : procs[q].parent = p }

MutRootsAll == DOMAIN procs

(* Session roots: their parent is not in the map. *)
Roots == { p \in DOMAIN procs : procs[p].parent \notin DOMAIN procs }

MutTopLevelNow == { q \in DOMAIN live : live[q].parent \in Roots }

TopLevel == UNION { Children(p) : p \in Roots }

StartWalk ==
  /\ phase = "read" /\ todo = {} /\ half = NoEntry
  /\ phase' = "walk"
  /\ pending' = TopLevel
  /\ UNCHANGED << world, todo, half, procs, visited, names >>

(***************************************************************************)
(* findAppIDInSubtree looks for the first application id of a subtree, in  *)
(* the order of the children, which is that of a map: any id that none of  *)
(* its ancestors below p hides.  The cgroups are read only now.            *)
(***************************************************************************)
Scope(q) == IF q \in DOMAIN live THEN ScopeOf[live[q].program] ELSE NoName

FirstScopes(p) ==
  LET under == { q \in DOMAIN procs : p \in Lineage(procs, q) }
      Below(q) == { r \in under : r \in Lineage(procs, q) }
  IN  { Scope(q) : q \in { q \in under :
          Scope(q) # NoName /\ \A r \in Below(q) \ {q} : Scope(r) = NoName } }

(* The names resolveAppName can give a top-level process. *)
AppNames(p) == IF FirstScopes(p) = {} THEN {BinOf[procs[p].program]} ELSE FirstScopes(p)

Identifiers(program) == {ExeOf[program], GameOf[program]} \ {NoName}

(* What collectSubtreeExes takes from one process. *)
Collected(p) == Identifiers(procs[p].program)

(***************************************************************************)
(* resolveAppName and collectSubtreeExes go down the tree; the order is    *)
(* left open, as the names are a set.  Nothing stops a second visit.       *)
(***************************************************************************)
Visit(p) ==
  /\ phase = "walk"
  /\ p \in pending
  /\ pending' = (pending \ {p}) \cup Children(p)
  /\ visited' = visited \cup {p}
  /\ \/ p \in TopLevel /\ \E name \in AppNames(p) : names' = names \cup {name} \cup Collected(p)
     \/ p \notin TopLevel /\ names' = names \cup Collected(p)
  /\ UNCHANGED << world, phase, todo, half, procs >>

EndWalk ==
  /\ phase = "walk" /\ pending = {}
  /\ phase' = "done"
  /\ UNCHANGED << world, todo, half, procs, pending, visited, names >>

Scan ==
  \/ List
  \/ \E p \in Pids : ReadStatus(p) \/ Visit(p)
  \/ ReadExe \/ StartWalk \/ EndWalk

Events ==
  \/ \E p \in Pids \cup {Outside}, child \in Pids, program \in Programs : Fork(p, child, program)
  \/ \E p \in Pids : Exit(p)

Next == Scan \/ Events

Spec == Init /\ [][Next]_vars

-----------------------------------------------------------------------------
SteadyApps ==
  { p \in DOMAIN live : live[p].parent # Outside /\ Lineage(live, p) \cap disturbed = {} }

(* Those whose parent is a session root. *)
SteadyTopLevel == { p \in SteadyApps : live[live[p].parent].parent = Outside }

(***************************************************************************)
(* The walk comes to no process twice, and so ends, even if the parents    *)
(* that were read form cycles: these have no root, and no way leads into   *)
(* them.  The code has no check of its own against endless recursion.      *)
(***************************************************************************)
NoSecondVisit == pending \cap visited = {}
=============================================================================
