---------------------------- MODULE ParentaldProofs ----------------------------
(***************************************************************************)
(* What an admin was told is what the computer does, as soon as its daemon *)
(* has heard of it, for any users, instants and faults.                    *)
(***************************************************************************)
EXTENDS Parentald, TLAPS

(***************************************************************************)
(* Rules agree, from now on, with what was told of the users whom they     *)
(* have as the admin was last told: those in the cache, ...                *)
(***************************************************************************)
Agree(rules, users) ==
  \A u \in users : lock[u] \cap Ahead \subseteq rules[u] /\ bonus[u] \cap rules[u] = {}

CacheRight == Agree(cache, cached)

(* ... and those of the cycle, until its verdict. *)
RulesReceived == pc = "enforce" => Agree(conf, received)

(* After it, the deny file agrees with what was told. *)
Verdict ==
  /\ pc = "down" => decidedAt = NoTime
  /\ pc \in {"end", "idle"} /\ decidedAt # NoTime =>
       \A u \in received : /\ decidedAt \in lock[u] => u \in denyFile
                           /\ decidedAt \in bonus[u] => u \notin denyFile

(* The users in the deny file are logged out, about to be, or missed. *)
DeniedOut ==
  /\ pc # "end" => added = {}
  /\ \A u \in denyFile \ added : session[u] = "out" \/ u \in missed

IInv == TypeOK /\ Kept /\ CacheRight /\ RulesReceived /\ Verdict /\ DeniedOut

LEMMA InitIInv == InitAll => IInv
  BY ParentaldAssumption
  DEF InitAll, Init, IInv, TypeOK, Kept, CacheRight, Agree, RulesReceived, Verdict, DeniedOut, NoTime,
      NoRules, Ahead

(* A fault counts, whatever it is. *)
LEMMA FaultType ==
  ASSUME IInv, Fault \/ UNCHANGED faults
  PROVE  faults' \in 0 .. MaxFaults
  BY ParentaldAssumption DEF IInv, TypeOK, Fault

(* The server's steps leave the daemon with what it has. *)
LEMMA ServerStep ==
  ASSUME IInv, Server
  PROVE  IInv'
  <1> USE DEF IInv, TypeOK
  <1>0. /\ UNCHANGED << daemon, cache, computer, faults, missed >>
        /\ received' = { u \in received : lock'[u] = lock[u] /\ bonus'[u] = bonus[u] }
        /\ cached' = { u \in cached : lock'[u] = lock[u] /\ bonus'[u] = bonus[u] }
    BY DEF Server
  <1>1. now \in Nat /\ now' \in 0 .. MaxTime /\ now =< now'
    BY ParentaldAssumption DEF Server, Next, Request, Restart, Tick
  <1>2. /\ denied' \in [Users -> SUBSET Ahead']
        /\ lock' \in [Users -> SUBSET Instants] /\ bonus' \in [Users -> SUBSET Instants]
        /\ Kept'
    <2>1. CASE \E u \in Users : Request(u) BY <2>1 DEF Request, Ahead
    <2>2. CASE Restart BY <2>2 DEF Restart, Ahead, promises
    <2>3. CASE Tick
      <3>1. now' = now + 1 BY <2>3 DEF Tick
      <3>2. \A t \in Instants : now' =< t <=> now =< t /\ t # now
        BY <1>1, <3>1, ParentaldAssumption
      <3>3. Ahead' = Ahead \ {now} BY <3>2 DEF Ahead
      <3> QED BY <2>3, <3>3 DEF Tick, promises, Kept
    <2> QED BY <2>1, <2>2, <2>3 DEF Server, Next
  <1>3. TypeOK'
    <2>1. decidedAt' \in 0 .. now' \cup {NoTime} BY <1>0, <1>1 DEF daemon
    <2> QED BY <1>0, <1>1, <1>2, <2>1 DEF daemon, computer
  <1>4. CacheRight' /\ RulesReceived'
    <2>1. \A t \in Instants : now' =< t => now =< t BY <1>1, ParentaldAssumption
    <2>2. Ahead' \subseteq Ahead BY <2>1 DEF Ahead
    <2> QED BY <1>0, <2>2 DEF CacheRight, Agree, RulesReceived, daemon
  <1>5. Verdict' /\ DeniedOut' BY <1>0 DEF Verdict, DeniedOut, daemon, computer
  <1> QED BY <1>2, <1>3, <1>4, <1>5

(* The users come and go. *)
LEMMA UserStep ==
  ASSUME IInv, NEW u \in Users, Login(u) \/ Logout(u)
  PROVE  IInv'
  <1> USE DEF IInv
  <1>1. UNCHANGED << vars, daemon, cache, denyFile, received, cached >> BY DEF Login, Logout
  <1>2. session' \in [Users -> {"in", "out"}] /\ faults' \in 0 .. MaxFaults
    BY FaultType DEF TypeOK, Login, Logout
  <1>3. missed' \subseteq { v \in denyFile : session'[v] = "in" }
    BY DEF TypeOK, Login, Logout
  <1>4. TypeOK' BY <1>1, <1>2, <1>3 DEF TypeOK, vars, daemon, promises, Ahead
  <1>5. Kept' /\ CacheRight' /\ RulesReceived' /\ Verdict'
    BY <1>1 DEF Kept, CacheRight, Agree, RulesReceived, Verdict, Ahead, vars, daemon, promises
  <1>6. DeniedOut' BY <1>1 DEF DeniedOut, TypeOK, Login, Logout, daemon
  <1> QED BY <1>4, <1>5, <1>6

(***************************************************************************)
(* The rules of a cycle come from the server or from the cache.            *)
(***************************************************************************)
LEMMA FetchStep ==
  ASSUME IInv, Fetch \/ FetchFails
  PROVE  IInv'
  <1> USE DEF IInv
  <1>1. UNCHANGED << vars, decidedAt, added, computer, missed >> /\ pc = "idle" /\ pc' = "enforce"
    BY DEF Fetch, FetchFails
  <1>2. Kept' /\ Ahead' = Ahead BY <1>1 DEF Kept, Ahead, vars, promises
  <1>3. faults' \in 0 .. MaxFaults BY FaultType DEF Fetch, FetchFails
  <1>4. Agree(denied, Users) /\ Agree(NoRules, {})
    BY DEF Kept, Agree
  <1>5. /\ conf' \in [Users -> SUBSET Instants] /\ received' \subseteq Users
        /\ Agree(conf', received')
    BY <1>4 DEF Fetch, FetchFails, TypeOK, Ahead, CacheRight
  <1>6. /\ cache' \in [Users -> SUBSET Instants] /\ cached' \subseteq Users
        /\ Agree(cache', cached')
    BY <1>4 DEF Fetch, FetchFails, TypeOK, Ahead, CacheRight, NoRules
  <1>7. TypeOK' BY <1>1, <1>2, <1>3, <1>5, <1>6 DEF TypeOK, vars, promises, computer
  <1>8. CacheRight' /\ RulesReceived'
    BY <1>1, <1>2, <1>5, <1>6 DEF CacheRight, RulesReceived, Agree, vars, promises
  <1>9. Verdict' BY <1>1 DEF Verdict
  <1>10. DeniedOut' BY <1>1 DEF DeniedOut, computer
  <1> QED BY <1>2, <1>7, <1>8, <1>9, <1>10

(* The daemon comes up, stops, ends, or fails to write the deny file. *)
LEMMA DownStep ==
  ASSUME IInv, Start \/ Stop \/ Crash \/ SyncFails
  PROVE  IInv'
  <1> USE DEF IInv
  <1>1. /\ UNCHANGED << vars, cache, session, received, cached >>
        /\ pc' \in {"idle", "down"} /\ decidedAt' = NoTime /\ added' = {}
        /\ faults' \in 0 .. MaxFaults
    BY FaultType DEF Start, Stop, Crash, SyncFails, computer, history, DeniedOut, Verdict
  <1>2. Kept' /\ CacheRight' /\ Ahead' = Ahead
    BY <1>1 DEF Kept, CacheRight, Agree, Ahead, vars, promises
  <1>3. conf' \in [Users -> SUBSET Instants]
    BY DEF Start, Stop, Crash, SyncFails, TypeOK, NoRules
  <1>4. denyFile' \in {denyFile, {}} /\ missed' \subseteq { u \in denyFile' : session[u] = "in" }
    BY DEF Start, Stop, Crash, SyncFails, TypeOK, Present, computer, history
  <1>5. TypeOK'
    BY <1>1, <1>2, <1>3, <1>4 DEF TypeOK, vars, promises
  <1>6. RulesReceived' /\ Verdict' BY <1>1 DEF RulesReceived, Verdict
  <1>7. DeniedOut'
    BY <1>1 DEF Start, Stop, Crash, SyncFails, DeniedOut, TypeOK, Present, computer, history
  <1> QED BY <1>2, <1>5, <1>6, <1>7

(* The verdict, of the rules of this cycle. *)
LEMMA EnforceStep ==
  ASSUME IInv, Enforce
  PROVE  IInv'
  <1> USE DEF IInv
  <1>1. /\ UNCHANGED << vars, cache, session, faults, received, cached >>
        /\ pc = "enforce" /\ pc' = "end" /\ decidedAt' = now
    BY DEF Enforce
  <1>2. Kept' /\ CacheRight' /\ Ahead' = Ahead
    BY <1>1 DEF Kept, CacheRight, Agree, Ahead, vars, promises
  <1>3. now \in 0 .. MaxTime /\ now \in 0 .. now BY ParentaldAssumption DEF TypeOK
  <1>4. Denied \subseteq Users BY DEF Denied
  <1>5. TypeOK' BY <1>1, <1>2, <1>3, <1>4 DEF TypeOK, Enforce, vars, promises, NoRules
  <1>6. RulesReceived' BY <1>1 DEF RulesReceived
  <1>7. Verdict'
    <2> SUFFICES ASSUME NEW u \in received
                 PROVE  /\ now \in lock[u] => u \in Denied
                        /\ now \in bonus[u] => u \notin Denied
      BY <1>1 DEF Verdict, Enforce, vars, promises
    <2>1. u \in Users /\ lock[u] \subseteq Instants BY DEF TypeOK
    <2>2. now \in lock[u] => now \in Ahead BY <1>3, <2>1 DEF Ahead
    <2> QED BY <1>1, <2>1, <2>2 DEF RulesReceived, Agree, Denied
  <1>8. DeniedOut' BY <1>1 DEF Enforce, DeniedOut
  <1> QED BY <1>2, <1>5, <1>6, <1>7, <1>8

LEMMA EndStep ==
  ASSUME IInv, EndSessions
  PROVE  IInv'
  <1> USE DEF IInv
  <1>1. UNCHANGED << vars, conf, decidedAt, cache, denyFile, received, cached >> /\ added' = {} /\ pc' = "idle"
        /\ pc = "end" /\ faults' \in 0 .. MaxFaults
    BY FaultType DEF EndSessions
  <1>2. Kept' /\ CacheRight' /\ Ahead' = Ahead
    BY <1>1 DEF Kept, CacheRight, Agree, Ahead, vars, promises
  <1>3. PICK failed \in SUBSET Present :
          /\ session' = [u \in Users |-> IF u \in added \ failed THEN "out" ELSE session[u]]
          /\ missed' = (missed \ added) \cup failed
    BY DEF EndSessions
  <1>4. session' \in [Users -> {"in", "out"}] BY <1>3 DEF TypeOK
  <1>5. missed' \subseteq { u \in denyFile : session'[u] = "in" } BY <1>3 DEF TypeOK, Present
  <1>6. TypeOK' BY <1>1, <1>2, <1>4, <1>5 DEF TypeOK, vars, promises
  <1>7. RulesReceived' /\ Verdict' BY <1>1 DEF RulesReceived, Verdict, vars, promises
  <1>8. DeniedOut' BY <1>1, <1>3 DEF DeniedOut, TypeOK
  <1> QED BY <1>2, <1>6, <1>7, <1>8

LEMMA Invariance == SpecAll => []IInv
  <1>1. IInv /\ [NextAll]_allVars => IInv'
    <2> SUFFICES ASSUME IInv, [NextAll]_allVars PROVE IInv' OBVIOUS
    <2>1. CASE UNCHANGED allVars
      BY <2>1 DEF IInv, TypeOK, Kept, Ahead, CacheRight, Agree, RulesReceived, Verdict, DeniedOut,
                  allVars, vars, promises, daemon, computer, history
    <2> QED BY <2>1, ServerStep, UserStep, FetchStep, DownStep, EnforceStep, EndStep DEF NextAll, Cycle
  <1> QED BY <1>1, InitIInv, PTL DEF SpecAll

(* The types, for any set of users and instants. *)
THEOREM TypeCorrect == SpecAll => []TypeOK
  <1>1. IInv => TypeOK BY DEF IInv
  <1> QED BY <1>1, Invariance, PTL

(***************************************************************************)
(* A lock that the daemon has heard of keeps its user out, in the deny file*)
(* and logged out unless the session was let be, and a bonus it has heard  *)
(* of lets its user in: the verdict was made with rules that agree with    *)
(* both, whether they came from the server or from the cache.              *)
(***************************************************************************)
THEOREM PromisesAreEnforced == SpecAll => []PromisesEnforced
  <1>1. IInv => PromisesEnforced
    BY DEF IInv, PromisesEnforced, Verdict, DeniedOut, BetweenCycles, KeptOut
  <1> QED BY <1>1, Invariance, PTL
=============================================================================
