------------------------------- MODULE Enforcer -------------------------------
(***************************************************************************)
(* The daemon's enforcement loop, cmd/daemon/main.go with                  *)
(* internal/denylist/denylist.go, on one computer: fetch the configuration *)
(* or fall back to the cached one, compute who is denied, replace the deny *)
(* file, end the sessions of the users newly in it.                        *)
(*                                                                         *)
(* The loop is one goroutine; pc is the next step of its cycle.  Each step *)
(* that touches a file or another process is an action, and the process can*)
(* die between any two.  The server's edits, the clock and the logins of   *)
(* the users run beside it.  What can go wrong is a fault of a kind listed *)
(* in Faults, and there are at most MaxFaults of them in a behaviour.      *)
(***************************************************************************)
EXTENDS Schedule, FiniteSets

CONSTANTS
  Configs,     \* the configurations the server publishes, one after the other
  Zone,        \* the zone of the computer's clock
  MaxTime,     \* bound on the clock
  Accounts,    \* the accounts of the computer
  Faults,      \* the kinds of fault that can happen
  MaxFaults    \* bound on their number

FaultKinds ==
  { "fetch",       \* no valid answer from the server, or one badly signed
    "hang",        \* the server accepts the request and never answers
    "cacheOpen",   \* the cache file cannot be opened for writing
    "cacheWrite",  \* it can, but the write fails after the truncation
    "deny",        \* the deny file cannot be read, or written
    "kill",        \* loginctl fails
    "race",        \* a login is between PAM's look at the file and its session
    "update",      \* the daemon replaces its binary and exits
    "stop",        \* SIGTERM
    "crash" }      \* the process dies: power loss, SIGKILL

ASSUME EnforcerAssumption ==
  /\ Configs \in Seq(Range(Configs)) /\ Len(Configs) > 0
  /\ Zone \in Nat /\ MaxTime \in Nat
  /\ Faults \subseteq FaultKinds
  /\ MaxFaults \in Nat

VARIABLES
  now, served,           \* the time; index of the configuration the server answers with
  faults, happened,      \* number of faults so far, and their kinds
  \* The files:
  cache,                 \* config-cache.json: the version it holds, Missing or Corrupt
  denyFile,              \* the names in deny-users
  \* The process:
  pc,
  conf, trusted,         \* the version in use, and whether it comes from the server
  decidedAt, decided,    \* the now and the denied of enforce()
  added,                 \* users whose sessions are still to be ended
  \* The accounts:
  session,
  \* History, for the refinement only:
  basis                  \* the version and the time the deny file was computed from

world   == << now, served >>
mishaps == << faults, happened >>
files   == << cache, denyFile >>
process == << pc, conf, trusted, decidedAt, decided, added >>
vars    == << world, mishaps, files, process, session, basis >>

Missing == -1
Corrupt == -2
Versions == 1 .. Len(Configs)

(* Version 0 is the zero configResponse, with no users. *)
ConfigOf(version) == IF version = 0 THEN << >> ELSE Configs[version]

TypeOK ==
  /\ now \in 0 .. MaxTime /\ served \in Versions
  /\ faults \in 0 .. MaxFaults /\ happened \subseteq Faults
  /\ cache \in Versions \cup {Missing, Corrupt}
  /\ pc \in {"down", "fetch", "hung", "openCache", "writeCache", "decide", "sync", "kill", "idle"}
  /\ conf \in {0} \cup Versions /\ trusted \in BOOLEAN
  /\ decidedAt \in 0 .. MaxTime
  /\ added \subseteq decided
  /\ session \in [Accounts -> {"out", "checked", "in"}]
  /\ basis \in [version : {0} \cup Versions, time : 0 .. MaxTime]

Init ==
  /\ now = 0 /\ served = 1
  /\ faults = 0 /\ happened = {}
  /\ cache = Missing /\ denyFile = {}
  /\ pc = "down" /\ conf = 0 /\ trusted = FALSE
  /\ decidedAt = 0 /\ decided = {} /\ added = {}
  /\ session \in [Accounts -> {"out", "in"}]
  /\ basis = [version |-> 0, time |-> 0]

Fault(kind) ==
  /\ kind \in Faults /\ faults < MaxFaults
  /\ faults' = faults + 1 /\ happened' = happened \cup {kind}

-----------------------------------------------------------------------------
(* The world around the daemon. *)

Tick ==
  /\ now < MaxTime /\ now' = now + 1
  /\ UNCHANGED << served, mishaps, files, process, session, basis >>

Publish ==
  /\ served < Len(Configs) /\ served' = served + 1
  /\ UNCHANGED << now, mishaps, files, process, session, basis >>

(* pam_listfile lets in a user who is not in the deny file. *)
Login(u) ==
  /\ session[u] = "out" /\ u \notin denyFile
  /\ session' = [session EXCEPT ![u] = "in"]
  /\ UNCHANGED << world, mishaps, files, process, basis >>

(* The same login in two steps. *)
PassPam(u) ==
  /\ Fault("race")
  /\ session[u] = "out" /\ u \notin denyFile
  /\ session' = [session EXCEPT ![u] = "checked"]
  /\ UNCHANGED << world, files, process, basis >>

OpenSession(u) ==
  /\ session[u] = "checked"
  /\ session' = [session EXCEPT ![u] = "in"]
  /\ UNCHANGED << world, mishaps, files, process, basis >>

Logout(u) ==
  /\ session[u] = "in"
  /\ session' = [session EXCEPT ![u] = "out"]
  /\ UNCHANGED << world, mishaps, files, process, basis >>

-----------------------------------------------------------------------------
(* The daemon's cycle. *)

Start ==
  /\ pc = "down" /\ pc' = "fetch"
  /\ UNCHANGED << world, mishaps, files, conf, trusted, decidedAt, decided, added, session, basis >>

FetchOk ==
  /\ pc = "fetch" /\ pc' = "openCache"
  /\ conf' = served /\ trusted' = TRUE
  /\ UNCHANGED << world, mishaps, files, decidedAt, decided, added, session, basis >>

MutLoadConfigCacheUnchecked == IF cache = Missing THEN 0 ELSE cache

MutLoadConfigCacheEmpty == 0

(* A cache that is missing or does not parse is an empty configuration. *)
LoadConfigCache == IF cache \in Versions THEN cache ELSE 0

FetchFails ==
  /\ Fault("fetch")
  /\ pc = "fetch" /\ pc' = "decide"
  /\ conf' = LoadConfigCache /\ trusted' = FALSE
  /\ UNCHANGED << world, files, decidedAt, decided, added, session, basis >>

(* http.Get has no timeout. *)
FetchHangs ==
  /\ Fault("hang")
  /\ pc = "fetch" /\ pc' = "hung"
  /\ UNCHANGED << world, files, conf, trusted, decidedAt, decided, added, session, basis >>

(* os.WriteFile truncates the file, then writes it; errors are only logged. *)
OpenCache ==
  /\ pc = "openCache"
  /\ \/ pc' = "writeCache" /\ cache' = Corrupt /\ UNCHANGED mishaps
     \/ Fault("cacheOpen") /\ pc' = "decide" /\ UNCHANGED cache
  /\ UNCHANGED << world, denyFile, conf, trusted, decidedAt, decided, added, session, basis >>

WriteCache ==
  /\ pc = "writeCache" /\ pc' = "decide"
  /\ \/ cache' = conf /\ UNCHANGED mishaps
     \/ Fault("cacheWrite") /\ UNCHANGED cache
  /\ UNCHANGED << world, denyFile, conf, trusted, decidedAt, decided, added, session, basis >>

Decide ==
  /\ pc = "decide" /\ pc' = "sync"
  /\ decidedAt' = now
  /\ decided' = Verdict(ConfigOf(conf), now, Zone)
  /\ added' = {}
  /\ UNCHANGED << world, mishaps, files, conf, trusted, session, basis >>

MutSyncWritesFirst ==
  /\ pc = "sync" /\ pc' = "kill"
  /\ denyFile' = decided
  /\ added' = decided \ denyFile'
  /\ basis' = [version |-> conf, time |-> decidedAt]
  /\ UNCHANGED << world, mishaps, cache, conf, trusted, decidedAt, decided, session >>

MutSyncOnlyAdds ==
  /\ pc = "sync" /\ pc' = "kill"
  /\ added' = decided \ denyFile
  /\ denyFile' = IF added' = {} THEN denyFile ELSE decided
  /\ basis' = IF added' = {} THEN basis ELSE [version |-> conf, time |-> decidedAt]
  /\ UNCHANGED << world, mishaps, cache, conf, trusted, decidedAt, decided, session >>

MutSyncAppends ==
  /\ pc = "sync" /\ pc' = "kill"
  /\ added' = decided \ denyFile
  /\ denyFile' = denyFile \cup decided
  /\ basis' = [version |-> conf, time |-> decidedAt]
  /\ UNCHANGED << world, mishaps, cache, conf, trusted, decidedAt, decided, session >>

(* denylist.Sync: what the file lacks is added; the file is replaced whole. *)
Sync ==
  /\ pc = "sync" /\ pc' = "kill"
  /\ added' = decided \ denyFile
  /\ denyFile' = decided
  /\ basis' = [version |-> conf, time |-> decidedAt]
  /\ UNCHANGED << world, mishaps, cache, conf, trusted, decidedAt, decided, session >>

MutSyncFailsStillAdds ==
  /\ Fault("deny")
  /\ pc = "sync" /\ pc' = "kill"
  /\ added' = decided \ denyFile
  /\ UNCHANGED << world, files, conf, trusted, decidedAt, decided, session, basis >>

(* enforce() returns: the users added are not looked at. *)
SyncFails ==
  /\ Fault("deny")
  /\ pc = "sync" /\ pc' = "kill"
  /\ UNCHANGED << world, files, conf, trusted, decidedAt, decided, added, session, basis >>

(* loginctl terminate-user: ends the sessions the user has now. *)
Terminate(u) ==
  /\ pc = "kill" /\ u \in added
  /\ added' = added \ {u}
  /\ session' = IF u \in Accounts /\ session[u] = "in" THEN [session EXCEPT ![u] = "out"] ELSE session
  /\ UNCHANGED << world, mishaps, files, pc, conf, trusted, decidedAt, decided, basis >>

TerminateFails(u) ==
  /\ Fault("kill")
  /\ pc = "kill" /\ u \in added
  /\ added' = added \ {u}
  /\ UNCHANGED << world, files, pc, conf, trusted, decidedAt, decided, session, basis >>

EndCycle ==
  /\ pc = "kill" /\ added = {} /\ pc' = "idle"
  /\ UNCHANGED << world, mishaps, files, conf, trusted, decidedAt, decided, added, session, basis >>

NextCycle ==
  /\ pc = "idle" /\ pc' = "fetch"
  /\ UNCHANGED << world, mishaps, files, conf, trusted, decidedAt, decided, added, session, basis >>

(* The process is gone, with what it held in memory. *)
Dies ==
  /\ pc' = "down" /\ conf' = 0 /\ trusted' = FALSE
  /\ decidedAt' = 0 /\ decided' = {} /\ added' = {}

(* checkUpdate: os.Exit(0), after the answer of a trusted server only. *)
ExitForUpdate ==
  /\ Fault("update")
  /\ pc = "kill" /\ added = {} /\ trusted
  /\ Dies
  /\ UNCHANGED << world, files, session, basis >>

(* The stop signal is taken between two cycles, and clears the deny file. *)
Stop ==
  /\ Fault("stop")
  /\ pc = "idle"
  /\ Dies
  /\ \/ denyFile' = {} /\ basis' = [version |-> 0, time |-> now]
     \/ "deny" \in Faults /\ UNCHANGED << denyFile, basis >>
  /\ UNCHANGED << world, cache, session >>

Crash ==
  /\ Fault("crash")
  /\ pc # "down"
  /\ Dies
  /\ UNCHANGED << world, files, session, basis >>

-----------------------------------------------------------------------------
(* The steps the daemon takes as long as nothing goes wrong. *)
Daemon ==
  \/ Start \/ FetchOk \/ OpenCache \/ WriteCache \/ Decide \/ Sync
  \/ \E u \in added : Terminate(u)
  \/ EndCycle \/ NextCycle

Next ==
  \/ Tick \/ Publish
  \/ \E u \in Accounts : Login(u) \/ PassPam(u) \/ OpenSession(u) \/ Logout(u)
  \/ Daemon
  \/ FetchFails \/ FetchHangs \/ SyncFails
  \/ \E u \in added : TerminateFails(u)
  \/ ExitForUpdate \/ Stop \/ Crash

Spec == Init /\ [][Next]_vars

(***************************************************************************)
(* systemd restarts the daemon (Restart=always) and the scheduler runs it: *)
(* it goes on with its cycle.  Nothing is assumed of the rest.             *)
(***************************************************************************)
FairSpec == Spec /\ WF_vars(Daemon)

-----------------------------------------------------------------------------
VerdictOf(version, time) == Verdict(ConfigOf(version), time, Zone)

Rule == INSTANCE AccessRule
          WITH denied <- denyFile, LastVersion <- Len(Configs), Verdict <- VerdictOf

(***************************************************************************)
(* The deny file keeps the promise of AccessRule through every fault: it is*)
(* replaced whole, by the verdict of a configuration the server published  *)
(* at a moment no earlier than that of the file before.                    *)
(***************************************************************************)
ImplementsRule == Rule!Spec

(***************************************************************************)
(* Between two cycles no user in the deny file has a session: only the     *)
(* users newly in the file are looked at, and that is enough, unless a     *)
(* login was under way, loginctl failed or the process was killed.         *)
(***************************************************************************)
NoDeniedSession ==
  happened \cap {"race", "kill", "crash"} = {} /\ pc = "idle"
    => \A u \in Accounts \cap denyFile : session[u] # "in"

(***************************************************************************)
(* Rules are never rolled back: a cycle decides with a configuration no    *)
(* older than the one the deny file was computed from, fetched or cached,  *)
(* unless the cache could not be written or the process was killed.        *)
(***************************************************************************)
VersionsForward ==
  happened \cap {"cacheOpen", "cacheWrite", "crash"} = {} /\ pc = "decide"
    => conf >= basis.version

(***************************************************************************)
(* The daemon ends a session only of a user whom the deny file then keeps  *)
(* from logging in again, and whom the configuration in use denied.        *)
(***************************************************************************)
SessionsEndDenied ==
  [][ \A u \in Accounts :
        pc = "kill" /\ u \in added /\ u \notin added' => u \in denyFile /\ u \in decided ]_vars

(***************************************************************************)
(* Once the faults, the edits and the clock come to rest, the deny file    *)
(* becomes the verdict of the server's configuration and stays so, unless  *)
(* the server left a request without an answer.                            *)
(***************************************************************************)
Converges == <>("hang" \in happened) \/ <>[](denyFile = VerdictOf(served, now))

(***************************************************************************)
(* README.md:17 again: the rules of a configuration that stays in the cache*)
(* are in the end those of the deny file, the passing of time included.    *)
(***************************************************************************)
CachedRulesEnforced ==
  \A version \in Versions :
    <>[](cache = version) => <>[](denyFile = VerdictOf(version, now))
=============================================================================
