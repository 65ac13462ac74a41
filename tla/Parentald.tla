------------------------------ MODULE Parentald ------------------------------
(***************************************************************************)
(* Server and daemon together: a server that keeps Promises, as ConfigStore*)
(* does, and one computer whose daemon asks for the rules, cycle after     *)
(* cycle.  The answer to its request is all that passes between the two.   *)
(*                                                                         *)
(* Enforcer has the cycle in its small steps, with its guarantees about the*)
(* sessions.  Here a cycle is three steps, between which requests, logins  *)
(* and time go on; the server can be out of reach, and the cache, the deny *)
(* file and loginctl fail, and the daemon be stopped or killed.            *)
(***************************************************************************)
EXTENDS Promises

CONSTANT MaxFaults   \* bound on what fails, and on the stops of the daemon

ASSUME ParentaldAssumption ==
  /\ Instants \subseteq Nat
  /\ MaxTime \in Nat /\ MaxFaults \in Nat

VARIABLES
  pc,          \* the step the daemon is at
  conf,        \* the rules of this cycle
  cache,       \* the rules in its cache file
  decidedAt,   \* the time of its last verdict, NoTime if it has none
  denyFile,    \* the names in deny-users
  added,       \* users whose sessions are to be ended
  session,     \* by user: on this computer or not
  faults,
  \* History, for the properties only:
  received,    \* users of whom the last rules used have what the admin was last told
  cached,      \* the same, of the rules in the cache
  missed       \* users in the deny file whose session was let be

daemon   == << pc, conf, decidedAt, added >>
computer == << denyFile, session >>
history  == << received, cached, missed >>
allVars == << vars, daemon, cache, computer, faults, history >>

NoTime == -1
NoRules == [u \in Users |-> {}]

TypeOK ==
  /\ now \in 0 .. MaxTime
  /\ denied \in [Users -> SUBSET Ahead]
  /\ lock \in [Users -> SUBSET Instants] /\ bonus \in [Users -> SUBSET Instants]
  /\ pc \in {"down", "idle", "enforce", "end"}
  /\ conf \in [Users -> SUBSET Instants] /\ cache \in [Users -> SUBSET Instants]
  /\ decidedAt \in 0 .. now \cup {NoTime}
  /\ denyFile \subseteq Users
  /\ added \subseteq denyFile
  /\ session \in [Users -> {"in", "out"}]
  /\ faults \in 0 .. MaxFaults
  /\ received \subseteq Users /\ cached \subseteq Users
  /\ missed \subseteq { u \in denyFile : session[u] = "in" }

InitAll ==
  /\ Init
  /\ pc = "down" /\ conf = NoRules /\ decidedAt = NoTime
  /\ cache = NoRules
  /\ denyFile = {} /\ added = {}
  /\ session \in [Users -> {"in", "out"}]
  /\ faults = 0
  /\ received = {} /\ cached = {} /\ missed = {}

Fault == faults < MaxFaults /\ faults' = faults + 1

-----------------------------------------------------------------------------
(* A request, the clock or a restart of the server. *)
Server ==
  /\ Next
  /\ LET sameFor(u) == lock'[u] = lock[u] /\ bonus'[u] = bonus[u] IN
       /\ received' = { u \in received : sameFor(u) }
       /\ cached' = { u \in cached : sameFor(u) }
  /\ UNCHANGED << daemon, cache, computer, faults, missed >>

(***************************************************************************)
(* pam_listfile lets in a user who is not in the deny file; who was in the *)
(* middle of a login when the file was written may come in after that.     *)
(***************************************************************************)
Login(u) ==
  /\ session[u] = "out"
  /\ session' = [session EXCEPT ![u] = "in"]
  /\ \/ u \notin denyFile /\ UNCHANGED << faults, missed >>
     \/ u \in denyFile /\ Fault /\ missed' = missed \cup {u}
  /\ UNCHANGED << vars, daemon, cache, denyFile, received, cached >>

Logout(u) ==
  /\ session[u] = "in"
  /\ session' = [session EXCEPT ![u] = "out"]
  /\ missed' = missed \ {u}
  /\ UNCHANGED << vars, daemon, cache, denyFile, faults, received, cached >>

(* The daemon comes up with the deny file and the cache it finds. *)
Start ==
  /\ pc = "down" /\ pc' = "idle"
  /\ UNCHANGED << vars, conf, decidedAt, added, cache, computer, faults, history >>

MutFetchPrefersCache ==
  /\ pc = "idle" /\ pc' = "enforce"
  /\ conf' = IF cache = NoRules THEN denied ELSE cache
  /\ received' = Users
  /\ \/ cache' = conf' /\ cached' = Users /\ UNCHANGED faults
     \/ Fault /\ cache' = cache /\ cached' = cached
     \/ Fault /\ cache' = NoRules /\ cached' = {}
  /\ UNCHANGED << vars, decidedAt, added, computer, missed >>

(***************************************************************************)
(* apiConfig answers with a copy of the map in memory.  A failing write of *)
(* the cache is only logged: the file is as before, or truncated, which is *)
(* read as no rules.                                                       *)
(***************************************************************************)
Fetch ==
  /\ pc = "idle" /\ pc' = "enforce"
  /\ conf' = denied
  /\ received' = Users
  /\ \/ cache' = denied /\ cached' = Users /\ UNCHANGED faults
     \/ Fault /\ cache' = cache /\ cached' = cached
     \/ Fault /\ cache' = NoRules /\ cached' = {}
  /\ UNCHANGED << vars, decidedAt, added, computer, missed >>

(* No answer to be trusted: the cache, whatever it holds. *)
FetchFails ==
  /\ Fault
  /\ pc = "idle" /\ pc' = "enforce"
  /\ conf' = cache /\ received' = cached
  /\ UNCHANGED << vars, decidedAt, added, cache, computer, cached, missed >>

(* The users the rules it has deny now. *)
Denied == { u \in Users : now \in conf[u] }

MutEnforceAppends ==
  /\ pc = "enforce" /\ pc' = "end"
  /\ decidedAt' = now
  /\ added' = Denied \ denyFile
  /\ denyFile' = denyFile \cup Denied
  /\ conf' = NoRules
  /\ UNCHANGED << vars, cache, session, faults, history >>

MutEnforceWritesFirst ==
  /\ pc = "enforce" /\ pc' = "end"
  /\ decidedAt' = now
  /\ denyFile' = Denied
  /\ added' = Denied \ denyFile'
  /\ conf' = NoRules /\ missed' = missed \cap Denied
  /\ UNCHANGED << vars, cache, session, faults, received, cached >>

(* enforce() up to the sessions: Sync succeeds ... *)
Enforce ==
  /\ pc = "enforce" /\ pc' = "end"
  /\ decidedAt' = now
  /\ added' = Denied \ denyFile
  /\ denyFile' = Denied
  /\ conf' = NoRules /\ missed' = missed \cap Denied
  /\ UNCHANGED << vars, cache, session, faults, received, cached >>

(* ... or the file cannot be read or written, and the cycle is over. *)
SyncFails ==
  /\ Fault
  /\ pc = "enforce" /\ pc' = "idle"
  /\ decidedAt' = NoTime
  /\ conf' = NoRules
  /\ UNCHANGED << vars, added, cache, computer, history >>

MutEndSessionsKeepsAdded ==
  /\ pc = "end" /\ pc' = "idle"
  /\ session' = [u \in Users |-> IF u \in added THEN "out" ELSE session[u]]
  /\ UNCHANGED << vars, conf, decidedAt, added, cache, denyFile, faults, history >>

Present == { u \in added : session[u] = "in" }

(***************************************************************************)
(* loginctl terminate-user, for the users newly in the file; where it      *)
(* fails the session goes on, and no later cycle looks at it again.        *)
(***************************************************************************)
EndSessions ==
  /\ pc = "end" /\ pc' = "idle"
  /\ added' = {}
  /\ \E failed \in SUBSET Present :
       /\ session' = [u \in Users |-> IF u \in added \ failed THEN "out" ELSE session[u]]
       /\ missed' = (missed \ added) \cup failed
       /\ IF failed = {} THEN UNCHANGED faults ELSE Fault
  /\ UNCHANGED << vars, conf, decidedAt, cache, denyFile, received, cached >>

(* The process ends, wherever it is: killed, or by itself for an update. *)
Crash ==
  /\ Fault
  /\ pc # "down" /\ pc' = "down"
  /\ decidedAt' = NoTime /\ conf' = NoRules
  /\ added' = {} /\ missed' = missed \cup Present
  /\ UNCHANGED << vars, cache, computer, received, cached >>

(* A stop of the daemon clears the deny file. *)
Stop ==
  /\ Fault
  /\ pc = "idle" /\ pc' = "down"
  /\ decidedAt' = NoTime
  /\ denyFile' = {} /\ missed' = {}
  /\ UNCHANGED << vars, conf, added, cache, session, received, cached >>

Cycle == Start \/ Fetch \/ Enforce \/ EndSessions

NextAll ==
  \/ Server
  \/ \E u \in Users : Login(u) \/ Logout(u)
  \/ Cycle \/ FetchFails \/ SyncFails \/ Crash \/ Stop

(* The daemon goes on with its cycle.  Nothing is assumed of the rest. *)
SpecAll == InitAll /\ [][NextAll]_allVars /\ WF_allVars(Cycle)

-----------------------------------------------------------------------------
BetweenCycles == pc = "idle" /\ decidedAt # NoTime

KeptOut(u) == u \in denyFile /\ (session[u] = "out" \/ u \in missed)

(***************************************************************************)
(* What the admin was told before the rules of the last verdict were made  *)
(* is what the computer does, from the end of that cycle on: a user with a *)
(* lock that stood at the verdict cannot log in and is logged out, or has  *)
(* the session that loginctl, a kill or a login under way had let be since *)
(* the user was first denied; one with bonus minutes left at the verdict   *)
(* can log in.  Whatever else was requested, saved or lost, by whomever,   *)
(* and however often the server was out of reach, the cache or the deny    *)
(* file not written, or the daemon stopped or killed.                      *)
(*                                                                         *)
(* The rules are those of the server's last answer, or in its absence of   *)
(* the last answer that could be cached: a lock told since that one is not *)
(* covered, and nothing is if the cache was lost.                          *)
(***************************************************************************)
PromisesEnforced ==
  BetweenCycles =>
    \A u \in received :
      /\ decidedAt \in lock[u] => KeptOut(u)
      /\ decidedAt \in bonus[u] => u \notin denyFile

(***************************************************************************)
(* A lock the admin was told of reaches the computer as long as it stands: *)
(* the user ends up unable to log in, and logged out but for a session let *)
(* be: as only users new in the deny file are looked at, that one stays.   *)
(***************************************************************************)
LockTakesEffect ==
  \A u \in Users : now \in lock[u] ~> KeptOut(u) \/ now \notin lock[u]

(***************************************************************************)
(* A user without rules for good, deleted for example, is not kept out by  *)
(* the rules of before, although no cycle looks at such a user any more.   *)
(***************************************************************************)
FreeUsersLeave ==
  \A u \in Users : <>[](denied[u] = {}) => <>[](u \notin denyFile)
=============================================================================
