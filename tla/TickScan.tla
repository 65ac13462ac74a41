------------------------------- MODULE TickScan -------------------------------
(***************************************************************************)
(* What one tick of the tracker finds for one user, Tracker.Tick of        *)
(* internal/activity/tracker.go: the login sessions are asked for and      *)
(* looked at one by one (IsSessionActive of proc.go); for an active user   *)
(* the processes are scanned and named by the table of applications, which *)
(* has been built before.  The sessions, as the processes, change all the  *)
(* while.                                                                  *)
(***************************************************************************)
EXTENDS ProcessScan, DesktopLookup

CONSTANTS
  Sessions,   \* the user's login sessions
  Setups,     \* where a tick starts from: files, processes and sessions
  MaxChanges  \* bound on the changes of the sessions

Markers == { GameOf[program] : program \in Programs } \ {NoName}

States == {"none", "active", "idle"}   \* idle, or locked

ASSUME TickScanAssumption ==
  /\ MaxChanges \in Nat
  /\ Sessions \cap {"failure", "refused"} = {}   \* reasons tells them apart
  /\ \A setup \in Setups :
       /\ setup.live \in Forests /\ setup.sessions \in [Sessions -> States]
       /\ setup.events \in 0 .. MaxEvents /\ setup.changes \in 0 .. MaxChanges
       /\ \A dir \in {System} \cup Owners :
            LET files == setup.shelf[dir] IN
            /\ files \in Seq(Range(files))
            /\ \A file \in Range(files) : file.dir = dir /\ file.exe # NoName
  \* A name that is missing is the empty string, and a marker has a prefix of its own.
  /\ NoGame = NoName
  /\ \A program \in Programs : ExeOf[program] \notin Markers /\ BinOf[program] \notin Markers

VARIABLES
  sessions,   \* the state of each session
  changes,
  tick,       \* how far the tick is
  toCheck,    \* sessions listed and not yet looked at
  counted,    \* the names that time is added to
  \* History, for the properties only:
  steady,     \* sessions active since they were listed
  reasons     \* what there was to count the user for: sessions, or failures;
              \* or "refused", the answer that the user has no sessions

login    == << sessions, changes, steady >>
tracker  == << tick, toCheck, counted >>
tickVars == << vars, lookupVars, login, tracker, reasons >>

Active == { s \in Sessions : sessions[s] = "active" }

TickTypeOK ==
  /\ TypeOK
  /\ unread \subseteq {System} \cup Owners
  /\ sessions \in [Sessions -> States]
  /\ changes \in 0 .. MaxChanges
  /\ tick \in {"sessions", "check", "scan", "idle", "named"}
  /\ toCheck \subseteq Sessions /\ steady \subseteq Sessions
  /\ tick # "named" => counted = {}

TickInit ==
  /\ \E setup \in Setups :
       /\ shelf = setup.shelf /\ live = setup.live /\ sessions = setup.sessions
       /\ events = setup.events /\ changes = setup.changes
  /\ LookupInit
  /\ ScanReady
  /\ tick = "sessions" /\ toCheck = {} /\ counted = {}
  /\ steady = {} /\ reasons = {}

-----------------------------------------------------------------------------
(* A session starts, ends, goes idle or wakes up. *)
SessionChanges(s, state) ==
  /\ changes < MaxChanges /\ changes' = changes + 1
  /\ tick \in {"sessions", "check"}
  /\ sessions[s] # state /\ sessions' = [sessions EXCEPT ![s] = state]
  /\ steady' = IF state = "active" THEN steady ELSE steady \ {s}
  /\ reasons' = IF state = "active" /\ tick = "check" THEN reasons \cup {s} ELSE reasons
  /\ UNCHANGED << vars, lookupVars, tracker >>

(***************************************************************************)
(* loginctl show-user.  Without sessions the user is idle, and for any     *)
(* error it ends with, too, which is taken for a user not logged in; only  *)
(* where it cannot be run is every user active.                            *)
(***************************************************************************)
ListSessions ==
  /\ Built
  /\ tick = "sessions"
  /\ LET listed == { s \in Sessions : sessions[s] # "none" } IN
     \/ /\ tick' = IF listed = {} THEN "idle" ELSE "check"
        /\ toCheck' = listed
        /\ steady' = Active /\ reasons' = Active
     \/ /\ tick' = "idle"
        /\ steady' = Active /\ reasons' = {"refused"}
        /\ UNCHANGED toCheck
     \/ /\ tick' = "scan" /\ reasons' = {"failure"}
        /\ UNCHANGED << toCheck, steady >>
  /\ UNCHANGED << vars, lookupVars, sessions, changes, counted >>

MutCheckSessionLastDecides(s) ==
  /\ tick = "check"
  /\ s \in toCheck /\ toCheck' = toCheck \ {s}
  /\ \/ /\ tick' = IF toCheck' # {} THEN "check" ELSE "scan"
        /\ reasons' = reasons \cup {"failure"}
     \/ /\ sessions[s] = "active"
        /\ tick' = IF toCheck' # {} THEN "check" ELSE "scan"
        /\ UNCHANGED reasons
     \/ /\ sessions[s] = "idle"
        /\ tick' = IF toCheck' # {} THEN "check" ELSE "idle"
        /\ UNCHANGED reasons
  /\ UNCHANGED << vars, lookupVars, login, counted >>

(***************************************************************************)
(* loginctl show-session, up to the first active one.  If it fails, as it  *)
(* does for a session that has ended meanwhile, that counts as active.     *)
(***************************************************************************)
CheckSession(s) ==
  /\ tick = "check"
  /\ s \in toCheck /\ toCheck' = toCheck \ {s}
  /\ \/ tick' = "scan" /\ reasons' = reasons \cup {"failure"}
     \/ sessions[s] = "active" /\ tick' = "scan" /\ UNCHANGED reasons
     \/ /\ sessions[s] = "idle"
        /\ tick' = IF toCheck' = {} THEN "idle" ELSE "check"
        /\ UNCHANGED reasons
  /\ UNCHANGED << vars, lookupVars, login, counted >>

MutNameOfIgnoresMarkers(name) == IF name \in Markers THEN Unnamed ELSE NameOfExe(name)

NameOf(name) == IF name \in Markers THEN NameOfGame(name) ELSE NameOfExe(name)

(* The loop over the processes; seenNames makes their names a set. *)
NameApps ==
  /\ tick = "scan" /\ phase = "done"
  /\ tick' = "named"
  /\ counted' = { NameOf(name) : name \in names } \ {Unnamed}
  /\ UNCHANGED << vars, lookupVars, login, toCheck, reasons >>

BuildLookup ==
  /\ \E dir \in {System} \cup Owners : ScanDir(dir)
  /\ UNCHANGED << vars, login, tracker, reasons >>

ScanProcesses ==
  /\ tick = "scan"
  /\ Scan
  /\ UNCHANGED << lookupVars, login, tracker, reasons >>

ProcessEvents ==
  /\ tick = "scan"    \* what happens before changes nothing but the setup
  /\ Events
  /\ UNCHANGED << lookupVars, login, tracker, reasons >>

Goroutine ==
  \/ BuildLookup \/ ListSessions
  \/ \E s \in Sessions : CheckSession(s)
  \/ ScanProcesses \/ NameApps

TickNext ==
  \/ Goroutine
  \/ ProcessEvents
  \/ \E s \in Sessions, state \in States : SessionChanges(s, state)

(* The daemon goes on. *)
TickSpec == TickInit /\ [][TickNext]_tickVars /\ WF_tickVars(Goroutine)

-----------------------------------------------------------------------------
(***************************************************************************)
(* proc.go:298, "at least one active (not idle, not locked) session": a    *)
(* user is not taken for idle while one of the sessions is active all the  *)
(* time, in whatever order they are looked at, unless loginctl show-user   *)
(* ended with an error; and not taken for active unless one of them has    *)
(* been at some moment of the check, or loginctl gave no answer.           *)
(***************************************************************************)
SessionsJudged ==
  /\ tick = "idle" /\ "refused" \notin reasons => steady = {}
  /\ tick \in {"scan", "named"} => reasons \ {"refused"} # {}

Describes(file, program) ==
  IF IsGame(file) THEN file.game = GameOf[program] ELSE file.exe = ExeOf[program]

(***************************************************************************)
(* Two kinds of processes are found if they run undisturbed through the    *)
(* scan, they and all above them: an application, which is a child of a    *)
(* session root (proc.go:24), and a game of a launcher however deep it is  *)
(* (proc.go:119, "so the tracker can match games individually").  If a     *)
(* file of the system describes it, it gets its time under the name of     *)
(* such a file: a game under that of its launcher's shortcut, too.         *)
(***************************************************************************)
SteadyCounted ==
  tick = "named" =>
    \A p \in SteadyApps, i \in DOMAIN shelf[System] :
      LET file == shelf[System][i] IN
      (p \in SteadyTopLevel \/ IsGame(file)) /\ Describes(file, live[p].program)
        => \E j \in DOMAIN shelf[System] :
             /\ NameIn(shelf[System][j]) \in counted
             /\ IF IsGame(file)
                THEN shelf[System][j].game = file.game
                ELSE file.exe \in Keys(shelf[System][j])

(* Every tick comes to its end, whatever the processes do meanwhile. *)
TickEnds == <>(tick \in {"idle", "named"})
=============================================================================
