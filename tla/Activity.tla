------------------------------- MODULE Activity -------------------------------
(***************************************************************************)
(* Activity tracking, from the daemons' trackers to the server's tables:   *)
(* internal/activity/tracker.go, trackAndReport and sendReport of          *)
(* cmd/daemon/main.go, apiActivity, registerClient and the activity page of*)
(* internal/server/handlers.go, and Record and GetDay of                   *)
(* internal/activity/store.go.                                             *)
(*                                                                         *)
(* Each host runs one daemon, whose loop is one goroutine: it measures,    *)
(* sends a report and waits for the answer.  The server handles each       *)
(* request in a goroutine of its own, which goes on when the daemon no     *)
(* longer waits for it.  Time is counted in poll intervals: one tick of the*)
(* clock is one interval, and so is the time a tracker adds in one cycle.  *)
(***************************************************************************)
EXTENDS Integers, FiniteSets, Functions

CONSTANTS
  Hosts, Users,
  Exes,          \* the executables ScanUserProcesses can find
  Apps,          \* their display names
  NameOf,        \* the name of each executable, or Unknown
  Unknown,       \* an application id no game is installed for
  TicksPerDay,
  MaxTime,       \* bound on the clock
  Faults,        \* the kinds of fault that can happen
  MaxFaults      \* bound on their number, a visit of the activity page included

FaultKinds ==
  { "register",   \* the daemon's one attempt to register fails
    "untrusted",  \* no trusted answer from the server: nothing is reported
    "send",       \* the report does not reach the server
    "drop",       \* the connection breaks before the answer
    "record",     \* the transaction fails
    "restart",    \* the server restarts
    "exit" }      \* the daemon exits: an update, a stop, a crash

ASSUME ActivityAssumption ==
  /\ IsFiniteSet(Hosts)
  /\ NameOf \in [Exes -> Apps \cup {Unknown}] /\ Unknown \notin Apps
  /\ TicksPerDay \in Nat \ {0}
  /\ MaxTime \in Nat /\ MaxFaults \in Nat
  /\ Faults \subseteq FaultKinds

VARIABLES
  now,
  faults, happened,   \* number of faults so far, and their kinds
  \* A daemon:
  pc,           \* "down", "first" (the cycle at the start), "idle" or "wait"
  fired,        \* the ticker has fired since the last cycle
  tracker,
  sent,         \* the report it waits for the answer of
  \* The server:
  registered,   \* the hosts whose key it knows
  requests,     \* the requests it has received and not forgotten
  rows,         \* the tables app_activity and screen_time, by day and host
  statuses,     \* the status shown of each user there is one of
  page,         \* an activity page: its day, the queries made, what they gave
  \* History, for the properties only:
  cycle,        \* cycles of each daemon so far
  starts,       \* starts of each daemon so far
  used          \* what each daemon has measured

daemon == << pc, fired, tracker, sent >>
server == << requests, rows, statuses >>
mishaps == << faults, happened >>
history == << cycle, starts, used >>
back    == << server, registered, page >>
vars == << now, mishaps, daemon, back, history >>

NoDate == -1

Day(time) == time \div TicksPerDay
Days      == 0 .. Day(MaxTime)

(* Time spent, per application and in front of the screen. *)
Usage  == [apps : [Users -> [Apps -> Nat]], screen : [Users -> Nat]]
Unused == [apps |-> [u \in Users |-> [a \in Apps |-> 0]], screen |-> [u \in Users |-> 0]]

Plus(x, y) ==
  [ apps   |-> [u \in Users |-> [a \in Apps |-> x.apps[u][a] + y.apps[u][a]]],
    screen |-> [u \in Users |-> x.screen[u] + y.screen[u]] ]

(* An assignment to the keys of one map in another. *)
Update(old, new) ==
  [k \in DOMAIN old \cup DOMAIN new |-> IF k \in DOMAIN new THEN new[k] ELSE old[k]]

Session == {"online", "idle"}

Report  == [time : Usage, sessions : UNION { [known -> Session] : known \in SUBSET Users }]
Request == [host : Hosts, cycle : Nat, report : Report, date : Days \cup {NoDate},
            stage : {"arrived", "stamped", "committed", "done", "refused"}]
Status  == [status : Session, host : Hosts, cycle : Nat]

TypeOK ==
  /\ now \in 0 .. MaxTime
  /\ faults \in 0 .. MaxFaults /\ happened \subseteq Faults
  /\ pc \in [Hosts -> {"down", "first", "idle", "wait"}]
  /\ fired \in [Hosts -> BOOLEAN]
  /\ tracker \in [Hosts -> Report] /\ sent \in [Hosts -> Report]
  /\ registered \subseteq Hosts
  /\ requests \subseteq Request
  /\ \A r \in requests : r.stage \in {"stamped", "committed", "done"} => r.date \in Days
  /\ rows \in [Days -> [Hosts -> Usage]]
  /\ DOMAIN statuses \subseteq Users /\ \A u \in DOMAIN statuses : statuses[u] \in Status
  /\ page \in [day : Days, made : 0 .. 2, time : Usage]
  /\ cycle \in [Hosts -> Nat] /\ starts \in [Hosts -> Nat]
  /\ used \in [Hosts -> Usage]

(* No query made yet. *)
NoPage == [day |-> 0, made |-> 0, time |-> Unused]

(* NewTracker, and the tracker that Flush leaves. *)
FreshTracker == [time |-> Unused, sessions |-> << >>]

Init ==
  /\ now = 0 /\ faults = 0 /\ happened = {}
  /\ pc = [h \in Hosts |-> "down"] /\ fired = [h \in Hosts |-> FALSE]
  /\ tracker = [h \in Hosts |-> FreshTracker]
  /\ sent = [h \in Hosts |-> FreshTracker]
  /\ registered = {} /\ requests = {}
  /\ rows = [d \in Days |-> [h \in Hosts |-> Unused]]
  /\ statuses = << >> /\ page = NoPage
  /\ cycle = [h \in Hosts |-> 0] /\ starts = [h \in Hosts |-> 0]
  /\ used = [h \in Hosts |-> Unused]

Fault(kind) ==
  /\ kind \in Faults /\ faults < MaxFaults
  /\ faults' = faults + 1 /\ happened' = happened \cup {kind}

-----------------------------------------------------------------------------
(* The ticker has room for one tick; the ones that find it full are dropped. *)
Tick ==
  /\ now < MaxTime /\ now' = now + 1
  /\ fired' = [h \in Hosts |-> pc[h] # "down"]
  /\ UNCHANGED << mishaps, pc, tracker, sent, back, history >>

(* The handler: a key known already is registered once more. *)
Register(h) == registered' = registered \cup {h}

(* The daemon's request: what goes wrong is logged, and not tried again. *)
RegisterClient(h) ==
  \/ Register(h) /\ UNCHANGED mishaps
  \/ Fault("register") /\ UNCHANGED registered

(* main() up to its loop. The daemon registers here, and nowhere else. *)
Start(h) ==
  /\ pc[h] = "down" /\ pc' = [pc EXCEPT ![h] = "first"]
  /\ starts' = [starts EXCEPT ![h] = @ + 1]
  /\ RegisterClient(h)
  /\ UNCHANGED << now, fired, tracker, sent, server, page, cycle, used >>

-----------------------------------------------------------------------------
(* The tracker. *)

(* The names that one tick sees: the processes of one application count once. *)
Names(processes) == { NameOf[e] : e \in processes } \ {Unknown}

(***************************************************************************)
(* Time of one tick: the active users, with the processes found of each.   *)
(* A failing scan is one that finds nothing.                               *)
(***************************************************************************)
TickTime(active, processes) ==
  [ apps   |-> [u \in Users |-> [a \in Apps |->
                  IF u \in active /\ a \in Names(processes[u]) THEN 1 ELSE 0]],
    screen |-> [u \in Users |-> IF u \in active THEN 1 ELSE 0] ]

MutTickCountsProcesses(t, users, active, processes) ==
  [ time     |-> [ Plus(t.time, TickTime(active, processes)) EXCEPT
                     !.apps = [u \in Users |-> [a \in Apps |->
                        t.time.apps[u][a] +
                        IF u \in active THEN Cardinality({ e \in processes[u] : NameOf[e] = a })
                                        ELSE 0 ]] ],
    sessions |-> Update(t.sessions, [u \in users |-> IF u \in active THEN "online" ELSE "idle"]) ]

(* Tracker.Tick(users): the users of the configuration, active or not. *)
TrackerTick(t, users, active, processes) ==
  [ time     |-> Plus(t.time, TickTime(active, processes)),
    sessions |-> Update(t.sessions, [u \in users |-> IF u \in active THEN "online" ELSE "idle"]) ]

MutMergeAll(t, report) == [t EXCEPT !.time = Plus(t.time, report.time)]

(* Tracker.Merge: the application times only. *)
Merge(t, report) == [t EXCEPT !.time.apps = Plus(t.time, report.time).apps]

(* What Flush leaves in the tracker; the report is all that was in it. *)
Flush(t) == FreshTracker

(* Flush returns nil. *)
NothingToReport(t) == t.time.apps = Unused.apps /\ t.sessions = << >>

-----------------------------------------------------------------------------
(* A cycle of the daemon, from the tracker on. *)

BeginCycle(h) ==
  /\ pc[h] = "first" \/ (pc[h] = "idle" /\ fired[h])
  /\ fired' = [fired EXCEPT ![h] = @ /\ pc[h] = "first"]
  /\ cycle' = [cycle EXCEPT ![h] = @ + 1]

(* The time is measured, whether or not anything is to become of it. *)
Measure(h, active, processes) ==
  used' = [used EXCEPT ![h] = Plus(@, TickTime(active, processes))]

(***************************************************************************)
(* The server's answer was not trusted: the users are those of the cache,  *)
(* and no report is sent.                                                  *)
(***************************************************************************)
UntrustedCycle(h, users, active, processes) ==
  /\ Fault("untrusted")
  /\ BeginCycle(h) /\ Measure(h, active, processes)
  /\ tracker' = [tracker EXCEPT ![h] = TrackerTick(@, users, active, processes)]
  /\ pc' = [pc EXCEPT ![h] = "idle"]
  /\ UNCHANGED << now, sent, back, starts >>

(* trackAndReport, up to sendReport's wait for the answer. *)
TrustedCycle(h, users, active, processes) ==
  LET measured == TrackerTick(tracker[h], users, active, processes)
      request  == [host |-> h, cycle |-> cycle[h] + 1, report |-> measured,
                   stage |-> "arrived", date |-> NoDate]
  IN
  /\ BeginCycle(h) /\ Measure(h, active, processes)
  /\ IF NothingToReport(measured)
     THEN /\ pc' = [pc EXCEPT ![h] = "idle"]
          /\ UNCHANGED << mishaps, tracker, sent, requests >>
     ELSE /\ pc' = [pc EXCEPT ![h] = "wait"]
          /\ sent' = [sent EXCEPT ![h] = measured]
          /\ tracker' = [tracker EXCEPT ![h] = Flush(measured)]
          /\ \/ requests' = requests \cup {request} /\ UNCHANGED mishaps
             \/ Fault("send") /\ UNCHANGED requests
  /\ UNCHANGED << now, rows, statuses, registered, page, starts >>

(* The requests the daemon of h waits for: one, or none if it is lost. *)
Awaited(h) == { r \in requests : r.host = h /\ pc[h] = "wait" /\ r.cycle = cycle[h] }

MutAnsweredEarly(h) ==
  /\ \E r \in Awaited(h) : r.stage \in {"committed", "done"}
  /\ pc' = [pc EXCEPT ![h] = "idle"] /\ sent' = [sent EXCEPT ![h] = FreshTracker]
  /\ UNCHANGED << now, mishaps, fired, tracker, back, history >>

(* 204: the report is with the server. *)
Answered(h) ==
  /\ \E r \in Awaited(h) : r.stage = "done" /\ requests' = requests \ {r}
  /\ pc' = [pc EXCEPT ![h] = "idle"] /\ sent' = [sent EXCEPT ![h] = FreshTracker]
  /\ UNCHANGED << now, mishaps, fired, tracker, rows, statuses, registered, page, history >>

(* sendReport returns an error: a refusal, or no answer at all. *)
Failed(h) ==
  /\ pc[h] = "wait"
  /\ \/ \E r \in Awaited(h) : r.stage = "refused" /\ requests' = requests \ {r} /\ UNCHANGED mishaps
     \/ Awaited(h) = {} /\ UNCHANGED << requests, mishaps >>
     \/ Awaited(h) # {} /\ Fault("drop") /\ UNCHANGED requests
  /\ tracker' = [tracker EXCEPT ![h] = Merge(@, sent[h])]
  /\ pc' = [pc EXCEPT ![h] = "idle"] /\ sent' = [sent EXCEPT ![h] = FreshTracker]
  /\ UNCHANGED << now, fired, rows, statuses, registered, page, history >>

(* The tracker lives in memory only. *)
Exit(h) ==
  /\ Fault("exit")
  /\ pc[h] # "down" /\ pc' = [pc EXCEPT ![h] = "down"]
  /\ fired' = [fired EXCEPT ![h] = FALSE]
  /\ tracker' = [tracker EXCEPT ![h] = FreshTracker]
  /\ sent' = [sent EXCEPT ![h] = FreshTracker]
  /\ UNCHANGED << now, back, history >>

-----------------------------------------------------------------------------
(* The handlers of the server. *)

Step(r, stage) == requests' = (requests \ {r}) \cup {[r EXCEPT !.stage = stage]}

MutAcceptUndated(r) ==
  /\ r.stage = "arrived"
  /\ Step(r, IF r.host \in registered THEN "stamped" ELSE "refused")
  /\ UNCHANGED << now, mishaps, daemon, rows, statuses, registered, page, history >>

(***************************************************************************)
(* apiActivity turns an unregistered client away; Record takes the date of *)
(* the server's clock, before its transaction.                             *)
(***************************************************************************)
Accept(r) ==
  /\ r.stage = "arrived"
  /\ IF r.host \in registered
     THEN requests' = (requests \ {r}) \cup {[r EXCEPT !.stage = "stamped", !.date = Day(now)]}
     ELSE Step(r, "refused")
  /\ UNCHANGED << now, mishaps, daemon, rows, statuses, registered, page, history >>

MutUpsertReplaces(table, r) == [table EXCEPT ![r.date][r.host] = r.report.time]

(* ON CONFLICT ... DO UPDATE SET seconds = seconds + excluded.seconds *)
Upsert(table, r) == [table EXCEPT ![r.date][r.host] = Plus(@, r.report.time)]

(* One transaction for both tables. *)
Commit(r) ==
  /\ r.stage = "stamped"
  /\ \/ rows' = Upsert(rows, r) /\ Step(r, "committed") /\ UNCHANGED mishaps
     \/ Fault("record") /\ Step(r, "refused") /\ UNCHANGED rows
  /\ UNCHANGED << now, daemon, statuses, registered, page, history >>

(* The statuses are in memory, and set after the commit. *)
UpdateStatuses(r) ==
  /\ r.stage = "committed" /\ Step(r, "done")
  /\ statuses' = Update(statuses, [u \in DOMAIN r.report.sessions |->
                    [status |-> r.report.sessions[u], host |-> r.host, cycle |-> r.cycle]])
  /\ UNCHANGED << now, mishaps, daemon, rows, registered, page, history >>

(* The handler of a request nobody waits for returns. *)
Forget(r) ==
  /\ r.stage \in {"refused", "done"} /\ r \notin Awaited(r.host)
  /\ requests' = requests \ {r}
  /\ UNCHANGED << now, mishaps, daemon, rows, statuses, registered, page, history >>

(* The tables and the registered keys are on the disk. *)
Restart ==
  /\ Fault("restart")
  /\ requests' = {}
  /\ statuses' = << >>
  /\ UNCHANGED << now, daemon, rows, registered, page, history >>

MutQueries == << "screen", "apps" >>

(* The queries of GetDay, each on its own: a commit can come between them. *)
Queries == << "apps", "screen" >>

(* SUM(seconds) ... WHERE date = ? GROUP BY user, over all hosts. *)
DaySums(day) ==
  [ apps   |-> [u \in Users |-> [a \in Apps |-> SumFunction([h \in Hosts |-> rows[day][h].apps[u][a]])]],
    screen |-> [u \in Users |-> SumFunction([h \in Hosts |-> rows[day][h].screen[u]])] ]

(* The first query of a page, which is that of any day. *)
OpenPage(day) ==
  /\ page = NoPage
  /\ faults < MaxFaults /\ faults' = faults + 1
  /\ page' = [day |-> day, made |-> 1,
              time |-> [Unused EXCEPT ![Queries[1]] = DaySums(day)[Queries[1]]]]
  /\ UNCHANGED << now, happened, daemon, server, registered, history >>

(* The second one, and the page is shown. *)
FillPage ==
  /\ page.made = 1
  /\ page' = [page EXCEPT !.made = 2, !.time = [@ EXCEPT ![Queries[2]] = DaySums(page.day)[Queries[2]]]]
  /\ UNCHANGED << now, mishaps, daemon, server, registered, history >>

-----------------------------------------------------------------------------
Next ==
  \/ Tick
  \/ \E h \in Hosts :
       \/ Start(h) \/ Answered(h) \/ Failed(h) \/ Exit(h)
       \/ \E users \in SUBSET Users : \E active \in SUBSET users :
            \E processes \in [active -> SUBSET Exes] :
              \/ TrustedCycle(h, users, active, processes)
              \/ UntrustedCycle(h, users, active, processes)
  \/ \E r \in requests : Accept(r) \/ Commit(r) \/ UpdateStatuses(r) \/ Forget(r)
  \/ Restart
  \/ (\E day \in Days : OpenPage(day)) \/ FillPage

Spec == Init /\ [][Next]_vars

-----------------------------------------------------------------------------
(* What the server has recorded of a host, over all days. *)
AppTotal(h, u, a)  == SumFunction([d \in Days |-> rows[d][h].apps[u][a]])
ScreenTotal(h, u)  == SumFunction([d \in Days |-> rows[d][h].screen[u]])

(* The report a daemon waits with is still its own until it is committed. *)
Unrecorded(h) ==
  pc[h] = "wait" /\ \A r \in Awaited(h) : r.stage \notin {"committed", "done"}

HeldApp(h, u, a) == tracker[h].time.apps[u][a] + IF Unrecorded(h) THEN sent[h].time.apps[u][a] ELSE 0
HeldScreen(h, u) == tracker[h].time.screen[u] + IF Unrecorded(h) THEN sent[h].time.screen[u] ELSE 0

(***************************************************************************)
(* No time of an application is lost as long as the daemon lives: what has *)
(* been measured is in the tables, in a report under way, or back in the   *)
(* tracker, whatever happens to the connection and to the server.          *)
(***************************************************************************)
AppTimeKept ==
  "exit" \notin happened =>
    \A h \in Hosts, u \in Users, a \in Apps :
      used[h].apps[u][a] =< AppTotal(h, u, a) + HeldApp(h, u, a)

(***************************************************************************)
(* No time is counted twice, neither that of an application with several   *)
(* processes nor that of a report sent again, as long as no answer is lost.*)
(***************************************************************************)
CountedOnce ==
  happened \cap {"drop", "restart"} = {} =>
    \A h \in Hosts, u \in Users :
      /\ ScreenTotal(h, u) + HeldScreen(h, u) =< used[h].screen[u]
      /\ \A a \in Apps : AppTotal(h, u, a) + HeldApp(h, u, a) =< used[h].apps[u][a]

(***************************************************************************)
(* i18n.go:54, "Time the user was actively logged in": through every fault,*)
(* retries and lost answers included, the screen time recorded of a user on*)
(* a host is no more than the time that has passed, with one interval for  *)
(* each start of the daemon.                                               *)
(***************************************************************************)
ScreenTimeWithinClock ==
  \A h \in Hosts, u \in Users : ScreenTotal(h, u) =< now + starts[h]

(***************************************************************************)
(* No page shows an application for longer than the screen of the same     *)
(* user and day, as long as no report fails: the two are measured by one   *)
(* tick, sent in one report, stored in one transaction, and added up by    *)
(* queries in an order that a report committed between them does no harm.  *)
(***************************************************************************)
AppWithinScreen ==
  page.made = 2 /\ happened \subseteq {"untrusted", "exit"} =>
    \A u \in Users, a \in Apps : page.time.apps[u][a] =< page.time.screen[u]

(***************************************************************************)
(* The status of a user is not taken back to that of an earlier report of  *)
(* the same host, as long as the daemon has waited for each answer.        *)
(***************************************************************************)
StatusesForward ==
  [][ happened' \cap {"drop", "exit"} = {} =>
      \A u \in DOMAIN statuses \cap DOMAIN statuses' :
        statuses'[u].host = statuses[u].host => statuses'[u].cycle >= statuses[u].cycle ]_vars

(***************************************************************************)
(* tracker.go:145, "Merge adds a report back into the accumulator (used for*)
(* retry on failed POST)": screen time is not lost either.                 *)
(***************************************************************************)
ScreenTimeKept ==
  \A h \in Hosts, u \in Users :
    used[h].screen[u] =< ScreenTotal(h, u) + HeldScreen(h, u)
=============================================================================
