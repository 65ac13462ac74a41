---------------------------- MODULE EnforcerProofs ----------------------------
(***************************************************************************)
(* The daemon's loop implements AccessRule, ends the sessions of the users *)
(* it denies and of nobody else, and never takes the rules back, for any   *)
(* number of accounts, configurations and faults.                          *)
(***************************************************************************)
EXTENDS Enforcer, TLAPS

(***************************************************************************)
(* What the step that replaces the deny file relies on: the list was       *)
(* computed from a published configuration, after the file was.            *)
(***************************************************************************)
Basis ==
  /\ basis.time =< now
  /\ conf =< served
  /\ cache \in Versions => cache =< served
  /\ pc \in {"openCache", "writeCache"} => conf \in Versions
  /\ pc = "sync" => /\ basis.time =< decidedAt /\ decidedAt =< now
                    /\ decided = VerdictOf(conf, decidedAt)
                    /\ added = {}

(* The users still to be logged out are in the file by now. *)
AddedDenied == added # {} => added \subseteq denyFile /\ added \subseteq decided

IInv == TypeOK /\ Basis /\ AddedDenied

LEMMA VersionsType ==
  /\ Len(Configs) \in Nat /\ 1 \in Versions
  /\ Versions \subseteq Nat \ {0}
  BY EnforcerAssumption DEF Versions

LEMMA InitIInv == Init => IInv
  <1> SUFFICES ASSUME Init PROVE IInv OBVIOUS
  <1>1. TypeOK
    <2>1. session \in [Accounts -> {"out", "checked", "in"}] BY DEF Init
    <2>2. now \in 0 .. MaxTime /\ faults \in 0 .. MaxFaults /\ happened = {} /\ decidedAt \in 0 .. MaxTime
      BY EnforcerAssumption DEF Init
    <2>3. basis \in [version : {0} \cup Versions, time : 0 .. MaxTime]
      BY EnforcerAssumption DEF Init
    <2> QED BY <2>1, <2>2, <2>3, VersionsType DEF Init, TypeOK
  <1>2. Basis BY VersionsType, EnforcerAssumption DEF Init, Basis, Missing
  <1> QED BY <1>1, <1>2 DEF IInv, AddedDenied, Init

(* Steps that leave the daemon alone: people, the clock, the server. *)
LEMMA WorldStep ==
  ASSUME IInv,
         \/ Tick \/ Publish
         \/ \E u \in Accounts : Login(u) \/ PassPam(u) \/ OpenSession(u) \/ Logout(u)
  PROVE  IInv'
  <1>0. now \in Nat /\ served \in Nat /\ faults \in Nat BY VersionsType DEF IInv, TypeOK
  <1>1. CASE Tick
    <2>1. TypeOK' BY <1>1, EnforcerAssumption DEF IInv, TypeOK, Tick, mishaps, files, process
    <2>2. Basis' /\ AddedDenied'
      BY <1>1, <1>0 DEF IInv, TypeOK, Basis, AddedDenied, Tick, mishaps, files, process
    <2> QED BY <2>1, <2>2 DEF IInv
  <1>2. CASE Publish
    <2>1. served' \in Versions
      BY <1>0, <1>2, VersionsType DEF IInv, TypeOK, Publish, Versions
    <2>2. TypeOK' BY <1>2, <2>1 DEF IInv, TypeOK, Publish, mishaps, files, process
    <2>3. Basis' /\ AddedDenied'
      BY <1>2, <1>0, VersionsType DEF IInv, TypeOK, Basis, AddedDenied, Publish, mishaps, files, process
    <2> QED BY <2>2, <2>3 DEF IInv
  <1>3. CASE \E u \in Accounts : Login(u) \/ PassPam(u) \/ OpenSession(u) \/ Logout(u)
    <2>1. TypeOK'
      BY <1>3, <1>0, EnforcerAssumption
      DEF IInv, TypeOK, Login, PassPam, OpenSession, Logout, Fault, world, mishaps, files, process
    <2>2. Basis' /\ AddedDenied'
      BY <1>3 DEF IInv, Basis, AddedDenied, Login, PassPam, OpenSession, Logout, world, mishaps, files, process
    <2> QED BY <2>1, <2>2 DEF IInv
  <1> QED BY <1>1, <1>2, <1>3

(* Steps of the daemon that neither decide nor touch the deny file. *)
LEMMA QuietStep ==
  ASSUME IInv,
         \/ Start \/ FetchOk \/ FetchFails \/ FetchHangs \/ OpenCache \/ WriteCache
         \/ EndCycle \/ NextCycle
  PROVE  IInv'
  <1>0. conf \in Nat /\ served \in Nat /\ now \in Nat /\ faults \in Nat /\ MaxFaults \in Nat
    BY VersionsType, EnforcerAssumption DEF IInv, TypeOK
  <1>1. LoadConfigCache \in {0} \cup Versions /\ LoadConfigCache =< served
    BY <1>0 DEF LoadConfigCache, IInv, Basis
  <1> USE DEF world, mishaps, files, process
  <1>2. CASE Start
    BY <1>2 DEF IInv, TypeOK, Basis, AddedDenied, Start
  <1>3. CASE FetchOk
    BY <1>0, <1>3 DEF IInv, TypeOK, Basis, AddedDenied, FetchOk
  <1>4. CASE FetchFails
    <2>1. (faults' \in 0 .. MaxFaults /\ happened' \subseteq Faults) BY <1>0, <1>4 DEF IInv, TypeOK, FetchFails, Fault
    <2>2. TypeOK' BY <1>1, <1>4, <2>1 DEF IInv, TypeOK, FetchFails
    <2>3. Basis' BY <1>1, <1>4 DEF IInv, Basis, FetchFails
    <2> QED BY <1>4, <2>2, <2>3 DEF IInv, AddedDenied, FetchFails
  <1>5. CASE FetchHangs
    BY <1>0, <1>5 DEF IInv, TypeOK, Basis, AddedDenied, FetchHangs, Fault
  <1>6. CASE OpenCache
    <2>1. Corrupt \notin Versions BY VersionsType DEF Corrupt
    <2> QED BY <1>0, <1>6, <2>1 DEF IInv, TypeOK, Basis, AddedDenied, OpenCache, Fault
  <1>7. CASE WriteCache
    <2>1. CASE cache' = conf /\ UNCHANGED mishaps
      <3>1. pc' = "decide" /\ UNCHANGED << world, denyFile, conf, trusted, decidedAt, decided, added, session, basis >>
        BY <1>7 DEF WriteCache
      <3>2. conf \in {0} \cup Versions /\ conf =< served BY DEF IInv, TypeOK, Basis
      <3>3. conf \in Versions
        BY <1>7 DEF IInv, Basis, WriteCache
      <3> QED BY <2>1, <3>1, <3>2, <3>3 DEF IInv, TypeOK, Basis, AddedDenied
    <2>2. CASE Fault("cacheWrite") /\ UNCHANGED cache
      BY <1>0, <1>7, <2>2 DEF IInv, TypeOK, Basis, AddedDenied, WriteCache, Fault
    <2> QED BY <1>7, <2>1, <2>2 DEF WriteCache
  <1>8. CASE EndCycle
    BY <1>8 DEF IInv, TypeOK, Basis, AddedDenied, EndCycle
  <1>9. CASE NextCycle
    BY <1>9 DEF IInv, TypeOK, Basis, AddedDenied, NextCycle
  <1> QED BY <1>2, <1>3, <1>4, <1>5, <1>6, <1>7, <1>8, <1>9

LEMMA EnforceStep ==
  ASSUME IInv,
         \/ Decide \/ Sync \/ SyncFails
         \/ \E u \in added : Terminate(u) \/ TerminateFails(u)
  PROVE  IInv'
  <1>0. served \in Nat /\ now \in Nat /\ faults \in Nat /\ MaxFaults \in Nat
    BY VersionsType, EnforcerAssumption DEF IInv, TypeOK
  <1> USE DEF world, mishaps, files, process
  <1>1. CASE Decide
    <2>1. TypeOK' BY <1>1 DEF IInv, TypeOK, Decide
    <2>2. Basis' BY <1>0, <1>1 DEF IInv, TypeOK, Basis, Decide, VerdictOf
    <2> QED BY <1>1, <2>1, <2>2 DEF IInv, AddedDenied, Decide
  <1>2. CASE Sync
    <2>1. TypeOK' BY <1>2 DEF IInv, TypeOK, Sync
    <2>2. Basis' BY <1>0, <1>2 DEF IInv, TypeOK, Basis, Sync
    <2> QED BY <1>2, <2>1, <2>2 DEF IInv, AddedDenied, Sync
  <1>3. CASE SyncFails
    BY <1>0, <1>3 DEF IInv, TypeOK, Basis, AddedDenied, SyncFails, Fault
  <1>4. CASE \E u \in added : Terminate(u) \/ TerminateFails(u)
    <2>1. PICK u \in added : Terminate(u) \/ TerminateFails(u) BY <1>4
    <2>2. session' \in [Accounts -> {"out", "checked", "in"}] /\ (faults' \in 0 .. MaxFaults /\ happened' \subseteq Faults)
      BY <1>0, <2>1 DEF IInv, TypeOK, Terminate, TerminateFails, Fault
    <2>3. added' \subseteq added BY <2>1 DEF Terminate, TerminateFails
    <2>4. /\ UNCHANGED << world, files, pc, conf, trusted, decidedAt, decided, basis >>
          /\ pc = "kill"
      BY <2>1 DEF Terminate, TerminateFails
    <2> QED BY <2>2, <2>3, <2>4 DEF IInv, TypeOK, Basis, AddedDenied
  <1> QED BY <1>1, <1>2, <1>3, <1>4

LEMMA EndStep ==
  ASSUME IInv, ExitForUpdate \/ Stop \/ Crash
  PROVE  IInv'
  <1>0. served \in Nat /\ now \in Nat /\ faults \in Nat /\ MaxFaults \in Nat /\ MaxTime \in Nat
    BY VersionsType, EnforcerAssumption DEF IInv, TypeOK
  <1> USE DEF world, mishaps, files
  <1>1. (faults' \in 0 .. MaxFaults /\ happened' \subseteq Faults)
    BY <1>0 DEF ExitForUpdate, Stop, Crash, Fault, IInv, TypeOK
  <1>2. /\ basis' \in [version : {0} \cup Versions, time : 0 .. MaxTime]
        /\ basis'.time =< now
    BY <1>0 DEF ExitForUpdate, Stop, Crash, IInv, TypeOK, Basis
  <1>3. Dies /\ UNCHANGED << world, cache, session >>
    BY DEF ExitForUpdate, Stop, Crash
  <1>4. TypeOK'
    <2>1. now' \in 0 .. MaxTime /\ served' \in Versions /\ cache' \in Versions \cup {Missing, Corrupt}
          /\ session' \in [Accounts -> {"out", "checked", "in"}]
      BY <1>3 DEF IInv, TypeOK
    <2>2. 0 \in 0 .. MaxTime BY <1>0
    <2> QED BY <1>1, <1>2, <1>3, <2>1, <2>2 DEF Dies, TypeOK
  <1>5. Basis' BY <1>0, <1>2, <1>3 DEF Dies, IInv, Basis
  <1>6. AddedDenied' BY <1>3 DEF Dies, AddedDenied
  <1> QED BY <1>4, <1>5, <1>6 DEF IInv

LEMMA NextIInv == IInv /\ [Next]_vars => IInv'
  <1> SUFFICES ASSUME IInv, [Next]_vars PROVE IInv' OBVIOUS
  <1>1. CASE UNCHANGED vars
    BY <1>1 DEF vars, world, mishaps, files, process, IInv, TypeOK, Basis, AddedDenied
  <1>2. CASE Next
    BY <1>2, WorldStep, QuietStep, EnforceStep, EndStep DEF Next, Daemon
  <1> QED BY <1>1, <1>2

-----------------------------------------------------------------------------
(***************************************************************************)
(* The types of the daemon's state, at every step of its cycle.            *)
(***************************************************************************)
THEOREM TypeCorrect == Spec => []TypeOK
  <1>1. IInv => TypeOK BY DEF IInv
  <1> QED BY <1>1, InitIInv, NextIInv, PTL DEF Spec

(***************************************************************************)
(* The deny file keeps the promise of AccessRule: every replacement is the *)
(* whole verdict of one published configuration, at a moment no earlier    *)
(* than that of the file it replaces.                                      *)
(***************************************************************************)
THEOREM DenyFileImplementsRule == Spec => ImplementsRule
  <1>1. Init => Rule!Init BY DEF Init, Rule!Init
  <1>2. IInv /\ [Next]_vars => [Rule!Next]_Rule!vars
    <2> SUFFICES ASSUME IInv, [Next]_vars PROVE Rule!Next \/ UNCHANGED Rule!vars OBVIOUS
    <2> USE DEF world, mishaps, files, process
    <2>1. CASE Tick BY <2>1 DEF Tick, Rule!Next, Rule!Tick
    <2>2. CASE Publish BY <2>2 DEF Publish, Rule!Next, Rule!Publish
    <2>3. CASE Sync
      <3>1. /\ conf \in 0 .. Len(Configs) /\ decidedAt \in 0 .. MaxTime
        BY VersionsType DEF IInv, TypeOK, Versions
      <3>2. /\ conf =< served /\ basis.time =< decidedAt /\ decidedAt =< now
            /\ decided = VerdictOf(conf, decidedAt)
        BY <2>3 DEF Sync, IInv, Basis
      <3>3. Rule!Apply(conf, decidedAt) BY <2>3, <3>2 DEF Sync, Rule!Apply
      <3> QED BY <3>1, <3>3 DEF Rule!Next
    <2>4. CASE Stop
      <3>1. CASE denyFile' = {} /\ basis' = [version |-> 0, time |-> now]
        <4>1. now \in 0 .. MaxTime /\ 0 \in 0 .. Len(Configs)
          BY VersionsType DEF IInv, TypeOK
        <4>2. VerdictOf(0, now) = {} BY DEF VerdictOf, Verdict, ConfigOf
        <4>3. 0 =< served /\ basis.time =< now /\ now =< now
          BY <4>1, VersionsType DEF IInv, TypeOK, Basis
        <4>4. Rule!Apply(0, now) BY <2>4, <3>1, <4>2, <4>3 DEF Stop, Rule!Apply
        <4> QED BY <4>1, <4>4 DEF Rule!Next
      <3>2. CASE UNCHANGED << denyFile, basis >>
        BY <2>4, <3>2 DEF Stop, Rule!vars
      <3> QED BY <2>4, <3>1, <3>2 DEF Stop
    <2>5. CASE \E u \in Accounts : Login(u) \/ PassPam(u) \/ OpenSession(u) \/ Logout(u)
      BY <2>5 DEF Login, PassPam, OpenSession, Logout, Rule!vars
    <2>6. CASE \/ Start \/ FetchOk \/ OpenCache \/ WriteCache \/ Decide \/ EndCycle \/ NextCycle
      BY <2>6 DEF Start, FetchOk, OpenCache, WriteCache, Decide, EndCycle, NextCycle, Rule!vars
    <2>7. CASE \E u \in added : Terminate(u) \/ TerminateFails(u)
      BY <2>7 DEF Terminate, TerminateFails, Rule!vars
    <2>8. CASE FetchFails \/ FetchHangs \/ SyncFails \/ ExitForUpdate \/ Crash
      BY <2>8 DEF FetchFails, FetchHangs, SyncFails, ExitForUpdate, Crash, Rule!vars
    <2>9. CASE UNCHANGED vars BY <2>9 DEF vars, Rule!vars
    <2> QED BY <2>1, <2>2, <2>3, <2>4, <2>5, <2>6, <2>7, <2>8, <2>9 DEF Next, Daemon
  <1> QED BY <1>1, <1>2, InitIInv, NextIInv, PTL DEF Spec, ImplementsRule, Rule!Spec

-----------------------------------------------------------------------------
(***************************************************************************)
(* Whoever is put out is in the deny file, and so kept out, and was denied *)
(* by the configuration in use.                                            *)
(***************************************************************************)
THEOREM SessionsEndOfDenied == Spec => SessionsEndDenied
  <1>1. IInv /\ [Next]_vars =>
          \A u \in Accounts :
            pc = "kill" /\ u \in added /\ u \notin added' => u \in denyFile /\ u \in decided
    BY DEF IInv, AddedDenied
  <1> QED BY <1>1, InitIInv, NextIInv, PTL DEF Spec, SessionsEndDenied

-----------------------------------------------------------------------------
(***************************************************************************)
(* Why it is enough to look at the users newly in the file: whoever is in  *)
(* it and not about to be put out has been out since it came to be there.  *)
(***************************************************************************)
NothingPending == pc # "kill" => added = {}

PutOut ==
  happened \cap {"race", "kill", "crash"} = {} =>
    \A u \in Accounts : /\ session[u] # "checked"
                        /\ u \in denyFile /\ u \notin added => session[u] # "in"

SInv == TypeOK /\ NothingPending /\ PutOut

LEMMA WorldPutOut ==
  ASSUME SInv,
         \/ Tick \/ Publish
         \/ \E u \in Accounts : Login(u) \/ PassPam(u) \/ OpenSession(u) \/ Logout(u)
  PROVE  NothingPending' /\ PutOut'
  <1> USE DEF world, mishaps, files, process, SInv
  <1>1. CASE Tick \/ Publish
    BY <1>1 DEF Tick, Publish, NothingPending, PutOut
  <1>2. CASE \E u \in Accounts : Login(u) \/ PassPam(u) \/ OpenSession(u) \/ Logout(u)
    <2>1. PICK u \in Accounts : Login(u) \/ PassPam(u) \/ OpenSession(u) \/ Logout(u)
      BY <1>2
    <2>2. NothingPending'
      BY <2>1 DEF Login, PassPam, OpenSession, Logout, NothingPending
    <2>3. CASE PassPam(u)
      BY <2>2, <2>3 DEF PassPam, Fault, PutOut
    <2>4. CASE Login(u)
      BY <2>2, <2>4 DEF Login, PutOut, TypeOK
    <2>5. CASE OpenSession(u)
      BY <2>2, <2>5 DEF OpenSession, PutOut, TypeOK
    <2>6. CASE Logout(u)
      BY <2>2, <2>6 DEF Logout, PutOut, TypeOK
    <2> QED BY <2>1, <2>3, <2>4, <2>5, <2>6
  <1> QED BY <1>1, <1>2

LEMMA DaemonPutOut ==
  ASSUME SInv,
         \/ Start \/ FetchOk \/ FetchFails \/ FetchHangs \/ OpenCache \/ WriteCache
         \/ Decide \/ Sync \/ SyncFails
         \/ \E u \in added : Terminate(u) \/ TerminateFails(u)
         \/ EndCycle \/ NextCycle \/ ExitForUpdate \/ Stop \/ Crash
  PROVE  NothingPending' /\ PutOut'
  <1> USE DEF world, mishaps, files, process, SInv
  <1>1. CASE \/ Start \/ FetchOk \/ FetchFails \/ FetchHangs \/ OpenCache \/ WriteCache
             \/ Decide \/ SyncFails \/ NextCycle
    BY <1>1 DEF Start, FetchOk, FetchFails, FetchHangs, OpenCache, WriteCache, Decide, SyncFails,
                NextCycle, Fault, NothingPending, PutOut
  <1>2. CASE Sync
    BY <1>2 DEF Sync, NothingPending, PutOut
  <1>3. CASE \E u \in added : Terminate(u) \/ TerminateFails(u)
    <2>1. PICK u \in added : Terminate(u) \/ TerminateFails(u) BY <1>3
    <2>2. NothingPending' BY <2>1 DEF Terminate, TerminateFails, NothingPending
    <2>3. CASE Terminate(u)
      <3>1. /\ added' = added \ {u} /\ UNCHANGED << denyFile, happened >>
            /\ \A v \in Accounts : v # u => session'[v] = session[v]
            /\ u \in Accounts /\ session[u] = "in" => session'[u] = "out"
            /\ u \in Accounts /\ session[u] # "in" => session'[u] = session[u]
        BY <2>3 DEF Terminate, TypeOK
      <3> QED BY <2>2, <3>1 DEF PutOut
    <2>4. CASE TerminateFails(u)
      BY <2>2, <2>4 DEF TerminateFails, Fault, PutOut
    <2> QED BY <2>1, <2>3, <2>4
  <1>4. CASE EndCycle
    BY <1>4 DEF EndCycle, NothingPending, PutOut
  <1>5. CASE ExitForUpdate \/ Stop
    BY <1>5 DEF ExitForUpdate, Stop, Dies, Fault, NothingPending, PutOut
  <1>6. CASE Crash
    BY <1>6 DEF Crash, Dies, Fault, NothingPending, PutOut
  <1> QED BY <1>1, <1>2, <1>3, <1>4, <1>5, <1>6

(***************************************************************************)
(* Between two cycles no denied user has a session, but for the login that *)
(* passes PAM just before, a failing loginctl and a killed process.        *)
(***************************************************************************)
THEOREM DeniedAreOut == Spec => []NoDeniedSession
  <1>1. Init => NothingPending /\ PutOut
    BY DEF Init, NothingPending, PutOut
  <1>2. TypeOK /\ NothingPending /\ PutOut /\ [Next]_vars => NothingPending' /\ PutOut'
    <2> SUFFICES ASSUME SInv, [Next]_vars PROVE NothingPending' /\ PutOut'
      BY DEF SInv
    <2>1. CASE UNCHANGED vars
      BY <2>1 DEF vars, world, mishaps, files, process, SInv, NothingPending, PutOut
    <2>2. CASE Next
      BY <2>2, WorldPutOut, DaemonPutOut DEF Next, Daemon
    <2> QED BY <2>1, <2>2
  <1>3. NothingPending /\ PutOut => NoDeniedSession
    BY DEF NothingPending, PutOut, NoDeniedSession
  <1> QED BY <1>1, <1>2, <1>3, TypeCorrect, PTL DEF Spec

-----------------------------------------------------------------------------
(***************************************************************************)
(* Why the cache never takes the rules back: between the decisions it holds*)
(* a version no older than the one in use, and that one is no older than   *)
(* the one of the deny file.  Version 0, no rules, is older than any.      *)
(***************************************************************************)
CacheHolds(version) == version = 0 \/ (cache \in Versions /\ version =< cache)

Onward ==
  happened \cap {"cacheOpen", "cacheWrite", "crash"} = {} =>
    /\ pc \in {"openCache", "writeCache", "decide", "sync"} => basis.version =< conf
    /\ pc \in {"decide", "sync"} => CacheHolds(conf)
    /\ pc # "writeCache" => CacheHolds(basis.version)

FileServed == basis.version =< served

VInv == IInv /\ FileServed /\ Onward

(* The versions and times in play are numbers, in order. *)
LEMMA Numbers ==
  ASSUME IInv
  PROVE  /\ served \in Versions /\ conf \in {0} \cup Versions /\ basis.version \in {0} \cup Versions
         /\ served \in Nat /\ conf \in Nat /\ basis.version \in Nat
         /\ conf =< served
  <1>1. basis \in [version : {0} \cup Versions, time : 0 .. MaxTime] BY DEF IInv, TypeOK
  <1>2. basis.version \in {0} \cup Versions BY <1>1
  <1>3. served \in Versions /\ conf \in {0} \cup Versions /\ conf =< served
    BY DEF IInv, TypeOK, Basis
  <1>4. Versions \subseteq Nat BY VersionsType
  <1>5. {0} \cup Versions \subseteq Nat BY <1>4
  <1>6. conf \in Nat /\ basis.version \in Nat BY <1>2, <1>3, <1>5
  <1>7. served \in Nat BY <1>3, <1>4
  <1> QED BY <1>2, <1>3, <1>6, <1>7

LEMMA NextFileServed == VInv /\ [Next]_vars => FileServed'
  <1> SUFFICES ASSUME VInv, [Next]_vars PROVE FileServed' OBVIOUS
  <1>0. /\ served \in Nat /\ conf \in Nat /\ basis.version \in Nat /\ conf =< served
        /\ basis.version =< served
    BY Numbers DEF VInv, FileServed
  <1> USE DEF world, mishaps, files, process
  <1>1. CASE Publish BY <1>0, <1>1 DEF Publish, FileServed
  <1>2. CASE Sync BY <1>0, <1>2 DEF Sync, FileServed
  <1>3. CASE Stop BY <1>0, <1>3 DEF Stop, FileServed
  <1>4. CASE \E u \in Accounts : Login(u) \/ PassPam(u) \/ OpenSession(u) \/ Logout(u)
    BY <1>0, <1>4 DEF Login, PassPam, OpenSession, Logout, FileServed
  <1>5. CASE \/ Tick \/ Start \/ FetchOk \/ OpenCache \/ WriteCache \/ Decide \/ EndCycle \/ NextCycle
    BY <1>0, <1>5 DEF Tick, Start, FetchOk, OpenCache, WriteCache, Decide, EndCycle, NextCycle, FileServed
  <1>6. CASE \E u \in added : Terminate(u) \/ TerminateFails(u)
    BY <1>0, <1>6 DEF Terminate, TerminateFails, FileServed
  <1>7. CASE FetchFails \/ FetchHangs \/ SyncFails \/ ExitForUpdate \/ Crash
    BY <1>0, <1>7 DEF FetchFails, FetchHangs, SyncFails, ExitForUpdate, Crash, FileServed
  <1>8. CASE UNCHANGED vars BY <1>0, <1>8 DEF vars, FileServed
  <1> QED BY <1>1, <1>2, <1>3, <1>4, <1>5, <1>6, <1>7, <1>8 DEF Next, Daemon

LEMMA NextOnward == VInv /\ [Next]_vars => Onward'
  <1> SUFFICES ASSUME VInv, [Next]_vars PROVE Onward' OBVIOUS
  <1>0. /\ served \in Versions /\ conf \in {0} \cup Versions /\ basis.version \in {0} \cup Versions
        /\ Versions \subseteq Nat \ {0}
        /\ conf =< served /\ basis.version =< served
    BY Numbers, VersionsType DEF VInv, FileServed
  <1> USE DEF world, mishaps, files, process, VInv, CacheHolds
  <1>1. CASE FetchOk BY <1>0, <1>1 DEF FetchOk, Onward
  <1>2. CASE FetchFails
    <2>1. pc = "fetch" /\ pc' = "decide" /\ conf' = LoadConfigCache /\ cache' = cache /\ basis' = basis
      BY <1>2 DEF FetchFails
    <2>2. happened' = happened \cup {"fetch"} BY <1>2 DEF FetchFails, Fault
    <2>3. CASE happened \cap {"cacheOpen", "cacheWrite", "crash"} = {}
      <3>1. CacheHolds(basis.version) BY <2>1, <2>3 DEF Onward
      <3>2. CASE cache \in Versions
        <4>1. conf' = cache /\ cache \in Nat BY <1>0, <2>1, <3>2 DEF LoadConfigCache
        <4>2. basis.version =< cache /\ cache =< cache BY <1>0, <3>1, <4>1
        <4> QED BY <2>1, <3>1, <3>2, <4>1, <4>2 DEF Onward
      <3>3. CASE cache \notin Versions
        <4>1. conf' = 0 /\ basis.version = 0 BY <2>1, <3>1, <3>3 DEF LoadConfigCache
        <4> QED BY <2>1, <4>1 DEF Onward
      <3> QED BY <3>2, <3>3
    <2>4. CASE happened \cap {"cacheOpen", "cacheWrite", "crash"} # {}
      BY <2>2, <2>4 DEF Onward
    <2> QED BY <2>3, <2>4
  <1>3. CASE OpenCache
    BY <1>0, <1>3 DEF OpenCache, Fault, Onward
  <1>4. CASE WriteCache
    <2>1. conf \in Versions BY <1>4 DEF WriteCache, IInv, Basis
    <2> QED BY <1>0, <1>4, <2>1 DEF WriteCache, Fault, Onward
  <1>5. CASE Sync BY <1>0, <1>5 DEF Sync, Onward
  <1>6. CASE Stop BY <1>0, <1>6 DEF Stop, Dies, Fault, Onward
  <1>7. CASE Crash BY <1>7 DEF Crash, Fault, Onward
  <1>8. CASE \E u \in Accounts : Login(u) \/ PassPam(u) \/ OpenSession(u) \/ Logout(u)
    <2>1. PICK u \in Accounts : Login(u) \/ PassPam(u) \/ OpenSession(u) \/ Logout(u) BY <1>8
    <2> QED BY <2>1 DEF Login, PassPam, OpenSession, Logout, Fault, Onward
  <1>9. CASE \E u \in added : Terminate(u) \/ TerminateFails(u)
    <2>1. PICK u \in added : Terminate(u) \/ TerminateFails(u) BY <1>9
    <2> QED BY <2>1 DEF Terminate, TerminateFails, Fault, Onward
  <1>10. CASE \/ Tick \/ Publish \/ Start \/ Decide \/ EndCycle \/ NextCycle
    BY <1>10 DEF Tick, Publish, Start, Decide, EndCycle, NextCycle, Onward
  <1>11. CASE FetchHangs \/ SyncFails \/ ExitForUpdate
    BY <1>11 DEF FetchHangs, SyncFails, ExitForUpdate, Dies, Fault, Onward
  <1>12. CASE UNCHANGED vars BY <1>12 DEF vars, Onward
  <1> QED BY <1>1, <1>2, <1>3, <1>4, <1>5, <1>6, <1>7, <1>8, <1>9, <1>10, <1>11, <1>12 DEF Next, Daemon

(***************************************************************************)
(* Rules are never rolled back by the cache, as long as it can be written  *)
(* and the process is not killed.                                          *)
(***************************************************************************)
THEOREM NeverRolledBack == Spec => []VersionsForward
  <1>1. Init => FileServed /\ Onward
    BY DEF Init, FileServed, Onward, CacheHolds
  <1>2. VInv /\ [Next]_vars => VInv'
    BY NextIInv, NextFileServed, NextOnward DEF VInv
  <1>3. VInv => VersionsForward
    <2> SUFFICES ASSUME VInv, pc = "decide",
                        happened \cap {"cacheOpen", "cacheWrite", "crash"} = {}
                 PROVE  conf >= basis.version
      BY DEF VersionsForward
    <2>1. basis.version =< conf BY DEF VInv, Onward
    <2>2. conf \in Nat /\ basis.version \in Nat BY Numbers DEF VInv
    <2> QED BY <2>1, <2>2
  <1>4. Init => VInv BY <1>1, InitIInv DEF VInv
  <1> QED BY <1>2, <1>3, <1>4, PTL DEF Spec
=============================================================================
