# Verification of parentald

TLA+ modules that model parentald, a server and a daemon that enforce login times for the
accounts of a family's computers, with the TLC runs that check them and TLAPS proofs about them.
Paths like `handlers.go:289` are of the repository's `src/internal/...` and `src/cmd/...`.

## The system

| part | state | operations | what makes it correct |
|---|---|---|---|
| Schedule rules (`config/schedule.go`) | none | `IsAllowed`, `IsInSchedule`, `NextScheduleStart`, `ScheduleEndTime`; `userState` of the page | the functions agree: a lock ends at the first start, a bonus begins at an end, the page shows what is enforced |
| Configuration store (`config/store.go`) | users in memory, one JSON file | `Load`, `Get`, `Update` = mutate, clean expired deadlines, save | what an admin was told of holds, through other edits, failed saves and restarts |
| Admin handlers (`server/handlers.go`) | - | add and delete users and windows, lock, unlock, bonus | as above, when requests run at the same time |
| Configuration API (`apiConfig`) | - | signs and sends a copy of the configuration | what the admin was told of reaches the computer |
| Enforcement loop (`cmd/daemon/main.go`) | cache file, variables of a cycle | fetch or cache, `enforce`, update exit, stop | the deny file is a whole and recent verdict, denied users have no session |
| Deny file (`denylist/`) | one file, read by PAM | `Sync`: compare, replace | replaced whole; the newly denied are found |
| Session check and process scan (`activity/proc.go`) | what was read of /proc | `IsSessionActive`, `ScanUserProcesses` | an active user is found active; each application and each game that runs is found, nothing is visited twice |
| Desktop and game lookup (`activity/desktop.go`) | the table of .desktop files | build, look up | an application has one name, which users do not change for others |
| Tracker (`activity/tracker.go`) | time per user and application, statuses | `Tick`, `Flush`, `Merge` | no time lost, none counted twice |
| Activity reports (`trackAndReport`, `apiActivity`) | a report under way | POST, 204 or an error | as above through lost requests and answers |
| Activity store (`activity/store.go`) | SQLite tables, statuses in memory | `Record`, `GetDay`, other queries | a report is stored whole or not at all, a page is consistent |
| Migration (`activity/migrate.go`) | the tables | one transaction per legacy file at each start | each file once, each file at all |
| Keys (`crypto/crypto.go`) | two files on each side | `LoadOrGenerateKeypair` at each start | the halves fit, and a key others rely on stays as long as it can be read |
| Registration (`registerClient` twice, `crypto.go`) | list in memory, a file per key | register at each start of a daemon | one identity for a daemon, and it is not forgotten |
| Self-update (`update/`, `server/install.go`) | the binary | compare versions, download, verify, replace, exit | a binary is what the server signed, and it comes to rest |
| Web login, pages, translations, routes | cookies | - | - |

The daemon polls. One goroutine does a whole cycle: fetch the configuration (or read the cache),
decide who is denied, replace the deny file, end sessions, measure and report activity, update.
The server runs each request in a goroutine; `Store.mu`, `clientsMu` and SQLite serialise what they
change. PAM reads the deny file at a login, at any moment. All that can fail does: the network, the
save, `loginctl`, the machine.

Hard parts: requests that read the clock before the mutex; a save that fails after the change;
an update about one user that cleans up after all; sessions looked at once, in the cycle that denies
the user; a cache written in place; requests without timeout; a retry of half a report; answers lost
after the commit; dates given at arrival; a migration in several transactions; a tree of processes
read while it changes; key files written one after the other, and replaced if they cannot be read; a version announced in one answer and
delivered, signed or not, in the next. `PROJECT.json` lists them all under `hazards`, with the properties that watch each.

## Modules

| module | models | uses |
|---|---|---|
| `Schedule` | schedule.go and `userState` as operators over instants; a calendar of any number of ticks, minutes and days | - |
| `ScheduleCheck` | a clock that walks a week and a day for each user of an instance, to compare those operators | `Schedule` |
| `Promises` | abstract: rules that agree, at each moment and for all the time to come, with the locks and bonuses admins were told of | - |
| `ConfigStore` | store.go and the handlers that change the configuration; implements `Promises` | `Schedule` |
| `AccessRule` | abstract: a deny file that is always the whole verdict of a published version at a moment that moves forward | - |
| `Enforcer` | the daemon's loop with cache, deny file, sessions and every fault; implements `AccessRule` | `Schedule` |
| `Parentald` | server and daemon together: a server that keeps `Promises`, a daemon that asks it for the rules | `Promises` |
| `Activity` | tracker, reports, `apiActivity`, `Record`, registration, the page of a day | - |
| `ProcessScan` | `ScanUserProcesses` over processes that start, end and change parents | - |
| `DesktopLookup` | the table of .desktop files and the lookups | - |
| `TickScan` | what `Tracker.Tick` finds for one user: sessions, scan and names together | `ProcessScan`, `DesktopLookup` |
| `Migration` | `MigrateFromJSON` over several starts of the server | - |
| `Keypair` | `LoadOrGenerateKeypair` step by step, with lemmas about it | - |
| `Lifecycle` | keys of both sides, installation, registration, self-update | two instances of `Keypair` |
| `ConfigStoreProofs` | theorems about the schedule and the store | `ConfigStore`, `ScheduleCheck` |
| `EnforcerProofs`, `ParentaldProofs`, `ActivityProofs`, `TickScanProofs`, `MigrationProofs`, `LifecycleProofs` | theorems | the module of the name |
| `MC...` | values of the constants for TLC | the module of the name |

### How they correspond to the code

*Schedule.* An instant is a natural number of ticks since a midnight that begins the first weekday, as
the reader in zone 0 sees it; a zone is an offset. A window has the set of weekdays `containsDay`
recognises and two minutes of day, `Nil` for a text `parseTime` refuses. `Upcoming` is the set of starts
the eight-day loop looks at, `FirstCovering` the window the loop of `ScheduleEndTime` stops at.

*ConfigStore.* `cfg` is the map in memory, `disk` the file. A handler is one action, as it holds the
mutex; `lockUser` and `addBonus` are two, because they read the clock before (`ReceiveLock`, then
`LockUser`). `Update` is the whole of `Store.Update` with the clean-up and the save, which may fail and
then leaves the change in memory only; an answer may also be lost. `Restart` can come at any moment.
`lockGranted` and `bonusGranted` are history: what an admin was last told. After a request that was
not answered with success the admin counts on nothing for that user.

*Promises and Parentald.* Rules are what they decide: for each user the instants from now on at which
access is denied. A request changes the rules and the promises of one user to any that agree, a restart
the rules of all; `ConfigStore` is mapped to this by `DeniedAhead`, `LockedInstants` and `BonusInstants`.
`Parentald` puts one computer next to such a server. Its cycle is coarser than that of `Enforcer`
(`Fetch` or `FetchFails`, `Enforce` or `SyncFails`, `EndSessions`), but keeps every way a step can fail: the write of
the cache, after which the file is as before or is read as no rules; `Sync`, after which the cycle is over; `loginctl`, for
any of the users; a login that was under way when the deny file was written; a kill between any two steps. `received` and
`cached` are history, the users of whom the rules in use, and those in the cache, are what the admin was last told of;
`missed` too, the users in the deny file whose session was let be.

*Enforcer.* `pc` is the step of the cycle. Every step that touches a file or another process is an action:
`OpenCache` truncates, `WriteCache` writes; `Decide` takes the time; `Sync` replaces the deny file at once,
as it is renamed into place; `Terminate` ends one user's sessions. `Faults` are kinds of mishaps and
`MaxFaults` bounds their number; `happened` remembers the kinds that did, for the properties that hold
without some of them. A login is one action, or two under the fault `race`. `basis` is history:
the version and moment the deny file comes from. The daemon without a server key, which accepts any
answer, is not distinguished: it fetches as well.

*Activity.* One tick of the clock is one poll interval, and the time one tracker tick adds. The ticker's
channel holds one tick (`fired`), the first cycle runs at once (`first`). A request goes through the stages
arrived, stamped (the date is taken), committed (both tables at once), done (statuses set) in actions of
their own, while the daemon waits, gives up, or is gone. The configuration a cycle uses is any set of users,
the result of the process scan any set of executables, `NameOf` the lookup of their display names. `page` is a
visit of the activity page: `GetDay` makes its two queries (`Queries`) one after the other, with commits in
between. `used`, `cycle`, `starts` and `happened` are history.

*TickScan.* The table of applications is read first (`BuildLookup`, directory by directory: the
system's, then the users' in any order), as it is when the tracker is made. Then the sessions are listed and looked at
one by one while they change, and the scan begins: `List`, then for each entry `ReadStatus` (the parent) and
`ReadExe` (what runs, of whoever has the pid by now), then the walk from the roots, one process a step,
and last the names. Pids are used again, orphans go to the nearest subreaper or out of sight. `loginctl show-user` can also end with an
error, which the code takes for no sessions (`reasons = {"refused"}`), or not run at all, which it takes for an active
user; `show-session` can fail for any session, which counts as active. A
program is the texts the code takes from a process: the name of its executable (`BinOf`), the same or the `comm` of a
Wine process (`ExeOf`), its cgroup's application id, a Steam id. A .desktop file is its directory, name, executable and game. `disturbed`, `steady` and
`reasons` are history: the processes that did not stay as they were, the sessions that stayed active,
and what there was to count the user for.

*Migration.* A file is the seconds of applications and of screen time it has; 0 is no entry. Each file is a
transaction. The server can end anywhere and start again.

*Lifecycle.* A key is the number of its draw; a file is missing, broken (cut off in its write) or holds a
key. `Keypair` has one action for each of the two writes, which can fail or be the last thing the process does. `Load` draws
a pair where a file is missing, `LoadUnread` where one that is there cannot be read, for which the code has the same branch. The
server loads its keys, then the client files that decode and can be read (`skipped` has the others); the script of `install.go` leaves the server's key and the binary on a
computer; the daemon loads the server's key or goes on without it (`serverPub`), loads or draws its own, registers once, and
then compares versions, downloads, verifies, renames and exits, cycle after cycle. A download is what the server
signed, garbled, or without its signature (`FetchBinary`); `Verified` is the condition of the code, with its two ways
around the check; the rename can fail. The server ends and comes back at any moment, with any
version announced (`offered`) and any handed out (`dist`). `told` and `happened` are history: the last key whose registration
was confirmed, and the faults whose effect lasts (a key file of the server or of the daemon not read, a binary unsigned, a
daemon without the server's key).

## Runs

Passing runs, all exhaustive. A property that some fault breaks names that fault in its premise
(`happened \cap {...} = {}`), so that one run with every fault shows both what holds always and what holds
without the faults named.

| run | module | shows | bounds |
|---|---|---|---|
| `schedule_migration` | `MCScheduleMigration` | the four properties of `ScheduleCheck`; `AppTimeOnce`, `BadFilesAlone` of `Migration` | every list of up to two windows of a calendar with 2 days of 3 minutes of 2 ticks, reversed and illegible ones included, zone 1, deadlines none or 5, each instant of a week and a day; four files, two of them with screen time only, three starts, two bad files |
| `store` | `MCConfigStore` | `LockKept`, `LockEnds`, `BonusKept`, `CleanupHarmless`, `ImplementsPromises` | one user, one window a day, two lock or bonus requests at once, a calendar of two days of two minutes, clock to 3, bonuses to 4, server and computer in different zones |
| `daemon` | `MCEnforcer` | `ImplementsRule`, `SessionsEndDenied` always; `NoDeniedSession` without `race`, `kill`, `crash`; `VersionsForward` without `cacheOpen`, `cacheWrite`, `crash`; `Converges` (under `FairSpec`) without `hang` | three configurations, two accounts, three faults of the ten kinds, clock to 2 |
| `parentald` | `MCParentald` | `PromisesEnforced`; `LockTakesEffect` and `FreeUsersLeave` under fairness | one user, instants 1 and 2, clock to 2, four faults of any kind |
| `activity` | `MCActivity` | `ScreenTimeWithinClock` always; `AppTimeKept` without `exit`; `CountedOnce` without `drop` and `restart`; `AppWithinScreen` with `untrusted` and `exit` only; `StatusesForward` without `drop` and `exit` | one host, one user, two executables of one name, two of the seven kinds of fault or of visits of the page, three cycles over two days of two intervals |
| `scan` | `MCTickScan` | `NoSecondVisit`, `SystemNamesKept`, `SteadyCounted` always; `SessionsJudged` without a refused `show-user`; `TickEnds` under fairness | three pids, two programs, two sessions, up to two files of the system and of one user; setups of three families, below |
| `lifecycle` | `MCLifecycle` | `ServerTrusted` without `serverRead`; `OneIdentity` without `daemonRead`; `ToldIsAccepted`, of which the daemon's half without `daemonRead`; `BinaryWhole` without `unsigned` and `unpinned`; `UpdatesSettle` under fairness | three versions, three faults |

The walk of `ScheduleCheck` and `Migration` share no variable: the run `schedule_migration` takes them one after the other, the
starts of the migration at the end of one of the walks, so that their states add up. Each other run checks its module's type invariant as well.

A calendar of two days has all a week has: a window today or tomorrow, before, at or after
now, and the wrap at the end of the week; the walk of the schedule adds a last minute of the day. In `store` the clock goes to the
second opening of the window, so that a lock is asked for in one window, kept, and ended by the next; two
handlers are enough for each pair of requests that overlap, as a third would wait for the mutex like the
second. The server's zone is a minute ahead of the computer's, so that the one window opens at different instants for the two. `ImplementsPromises` is checked with one user: that a request leaves the others' records alone is in the form of each
handler, and that the clean-up, which looks at all of them, changes nothing is `CleanupHarmless`, which is proved for any
users. Two versions after the first are enough for a cache that is behind and a deny file that is behind
the cache. Three faults are a fault, one in the recovery from it, and one more; in `activity`, two are a report lost and
the next one lost with what was merged. In `parentald` two instants are a lock at one and a bonus at the
next; the rules of different users do not touch each other in the daemon, so one is enough; four faults are a cache not
written, a fetch that fails on it, a session let be, and one more. Three faults in
`lifecycle` are one in each write of a pair and one at the next start; three versions are the one that runs, the one announced and the one
handed out. The clock of `ConfigStore` stops before `Forever`, as ours does.

The three families of `scan`: any two files of the system and of a user, shortcuts of games and files that share names
included, with a game that runs; any forest of three processes, which two events change; any two sessions,
which two changes change. What goes wrong in the files, in the processes and in the sessions is
independent, as the three meet only in a set of names. Three pids are the least for a process, its parent and a
third whose pid is used again, and enough for a cycle of parents with a process below it; cycles do come up, and
without the choice of roots (the mutant `MutRootsAll`) the walk does not end.

Violations: each run shows that the code departs from a sentence of the repository; `PROJECT.json`,
`findings`, quotes it.

| run | property | what happens |
|---|---|---|
| `store_overlap` | `BonusExtends` | overlapping windows: the bonus adds nothing |
| `daemon_hang` | `CachedRulesEnforced` | a silent server stops the loop |
| `activity_lost` | `ScreenTimeKept` | a failed POST loses screen time |
| `migration_twice` | `ScreenTimeOnce` | days of screen time only are migrated at each start |
| `update_unsigned` | `InstallsWhatIsSigned` | a binary that comes without a signature is installed unchecked |

Two more findings are about properties that pass, because they are stated as the code has it and not as the quoted
line does: the applications of a launcher are not collapsed (`SteadyCounted`), and a key file that exists and cannot be read is
replaced (`ServerTrusted`).

What the premises and the bounds leave out is behaviour of the code too; these were met while modelling:

- A lock lasts until a window opens by the clock of the server (`handlers.go:293`), and `LockKept` and `LockEnds` say so. The
  daemon checks windows by the clock of the computer. In another zone (the documented container sets none for the server) the lock
  ends before or after the computer's own window opens, and the page shows states the computer is not in.
- `lockUser` reads the clock before it has the mutex (`handlers.go:289`). If the window it finds opens
  while it waits, the lock is stored already over, cleaned up at once, and answered as done.
- `addSchedule` (`handlers.go:243`) stores any two texts; a window whose end is not after its start allows
  nothing and still ends locks. The last minute of a day cannot be in any window (`schedule.go:67`).
- A login between PAM's look at the file and its session (`race`) outlives the denial, as does a session
  that `loginctl` or a dead daemon did not end: `enforce` looks at newly denied users only
  (`cmd/daemon/main.go:206`). `PromisesEnforced` and `LockTakesEffect` count such a user as kept out (`missed`).
- After a crash between the truncation of the cache and its write (`cmd/daemon/main.go:185`) a computer is without rules
  while the server is away; after a write that fails it has those of before, and a lock told since is not enforced.
  `PromisesEnforced` is about the rules that could be cached.
- A read of a key file that fails at a start of the server (`crypto.go:87`) makes every computer distrust it from then on; at a start
  of the daemon it makes the daemon a second client, the first one registered for ever.
- A client file that cannot be read is passed over (`crypto.go:141`): the client is refused until the next start of either side.
- A daemon that cannot load `server.pub` (`cmd/daemon/main.go:44`) takes every answer and every binary until its next start.
- A binary that cannot start is there for good: the daemon that would replace it does not run.
- A daemon whose one attempt to register failed (`cmd/daemon/main.go:56`) has its reports refused until it is restarted.
- A key file cut off in its write is never replaced (`crypto.go:88`): that server does not start again, that
  daemon signs no report.
- A server whose version is not that of the binary it hands out makes each daemon download, replace and exit
  cycle after cycle; `UpdatesSettle` supposes they agree from some time on.
- The top-level ancestor of an application can vanish during the scan: its children then look like session
  roots, and the application is missed for one tick. `SteadyCounted` speaks of those whose ancestors stay.
- A session that ends between the listing and the look at it, or whose look fails otherwise, counts as active (`proc.go:333`).
- `loginctl show-user` that ends with an error counts as no sessions (`proc.go:308`), whatever the error: the user's time is not
  counted in that tick.
- Any descendant of an application that has a .desktop file is given time of its own (`proc.go:158`), as the finding says;
  for games this is meant (`proc.go:119`).
- A file's name is a second key of the table (`desktop.go:232`): a file of the system read earlier can give its name to
  the executable another one describes. `SteadyCounted` promises the name of a file of the system with that key, not of
  the one that describes the executable.
- Two users' files with one key are read in the order of a map: the name is one or the other's from start to start.
- A report is dated at its arrival (`activity/store.go:106`): days away from the server are recorded as one.
- A report whose answer is lost is recorded and merged (`drop`): application time is counted twice.
- After a migration cut short the next start finds data and never reads the files that were left
  (`migrate.go:26`).

Deadlock is checked where the system never stops; the clock of `Activity`, the starts of `Migration`, the faults of `Lifecycle`
and the one tick of `TickScan` end, so these runs have states without a step.

Every property of a passing run has a mutant: a definition `Mut...`, next to the one it replaces, with a
plausible bug under which TLC finds the property violated.

### Fairness

All fairness is weak, and of the steps of one process while nothing goes wrong. No fairness is assumed of faults,
edits, logins, sessions, processes or the clock, and a fault is never needed for progress.

- `FairSpec` of `Enforcer`, `WF_vars(Daemon)`, and `SpecAll` of `Parentald`, `WF_allVars(Cycle)`: the operating system
  schedules the daemon and systemd restarts it (`Restart=always` in `install.go`); the ticker wakes it.
  `Converges` needs the faults, the versions and the clock to be finite, as they are in an instance.
- `FairSpec` of `Lifecycle`, `WF_vars(Daemon)`: the same daemon, from its keys to the update. The server may
  be away for good: `UpdatesSettle` supposes that it serves from some time on.
- `TickSpec` of `TickScan`, `WF_tickVars(Goroutine)`: the goroutine of the loop goes on. The processes may start and
  end as long as the bound lets them, so `TickEnds` does not rest on their coming to rest.

## Proofs

All obligations are checked by TLAPS with its SMT solver, Zenon and the PTL back end. The
assumptions are those the modules name: the constants' types (`CalendarAssumption`, `StoreAssumption`,
`WalkAssumption`, `EnforcerAssumption`, `ParentaldAssumption`, `ActivityAssumption`, `ProcessScanAssumption`,
`TickScanAssumption`, `MigrationAssumption`, `LifecycleAssumption`); TLC evaluates each of them in a run. Those that are
more than a type:

- `Forever > MaxTime` and `Forever > MaxBonusEnd`: the year 9999 of `lockUser` is later than every instant of the model.
- `IsFiniteSet(Hosts)`, `IsFiniteSet(Pids)`: there are finitely many computers, and pids.
- `TickScanAssumption`: a file in a directory was found there and has a command (`desktop.go:189` and `:194` return without
  one); a missing name and a missing game are both the empty string; no executable is called like a marker, whose
  prefix is `appid:` (`tracker.go:76`); the ids of sessions are not the two words that `reasons` uses for failures. A program with such a name would be taken for a game.

Facts about finite data (a sum over days and requests, the files of a directory, the processes of a lineage) are
by induction all the same: a least counterexample, of a set of numbers or of finite sets, from the library's theorem that
the strict subset ordering is well-founded (`LeastNumber`, `LeastSubset`). What the folds of the community modules
compute is unfolded in the same way (`SumUnfold`, `Registered`).

| theorem | says | argument |
|---|---|---|
| `NextStartOpens` | what `NextScheduleStart` returns is a start of a window, later than now | division of instants into day, minute and tick; a later minute of today or any of a later day is later |
| `ConfigStoreProofs!TypeCorrect` | `[]TypeOK` | `IInv`, below |
| `BonusIsKept` | `[]BonusKept` | `IInv` |
| `LockIsKept` | `[]LockKept`, for any zones | `IInv` and `NextStartOpens` |
| `LockEndsAtFirstStart` | `[]NextStartIsFirstOpening` | every start there is has one of the week to come before it, the least of these is the result |
| `LockEndAdmits` | `[]NextStartAdmits` | an instant between two starts that no window covers is covered by none |
| `ScheduleEndIsReached` | `[]EndTimeIsReached` | the window found covers each instant up to its end, of the same day |
| `ShownIsEnforced` | `[]StateShownIsStateEnforced` | cases of `userState`, in its order |
| `LocksEnd` | `[]LockEnds`, for any zones | `IInv`, of which `LockEndOf` |
| `StoreImplementsPromises` | `Spec => ImplementsPromises`, for any zones | each step mapped, below |
| `CleanupIsHarmless` | `[]CleanupHarmless` | types: a deadline that is cleaned has passed for every later instant |
| `EnforcerProofs!TypeCorrect` | `[]TypeOK` | `IInv` of `EnforcerProofs` |
| `DenyFileImplementsRule` | `Spec => AccessRule`'s specification | initial state and each step mapped |
| `SessionsEndOfDenied` | `Spec => SessionsEndDenied` | `AddedDenied` |
| `DeniedAreOut` | `[]NoDeniedSession` | `SInv` |
| `NeverRolledBack` | `[]VersionsForward` | `VInv` |
| `ParentaldProofs!TypeCorrect` | `[]TypeOK` | `IInv` of `ParentaldProofs` |
| `PromisesAreEnforced` | `[]PromisesEnforced` | `IInv` |
| `TickTypeCorrect` | `[]TickTypeOK` | `TickInv` |
| `WalkVisitsOnce` | `[]NoSecondVisit` | `ScanInv` |
| `SessionsAreJudged` | `[]SessionsJudged` | `Checked` |
| `NamesOfTheSystem` | `[]SystemNamesKept` | `LookupInv` |
| `SteadyAppsAreCounted` | `[]SteadyCounted` | `CountInv` |
| `ActivityProofs!TypeCorrect` | `[]TypeOK` | `TypeOK` is inductive |
| `AppTimeIsKept`, `NothingCountedTwice` | `[]AppTimeKept`, `[]CountedOnce` | `Books` |
| `ScreenTimeIsReal` | `[]ScreenTimeWithinClock` | `Books` for the screen, `Clocked` |
| `PagesAreConsistent` | `[]AppWithinScreen` | `ReportsWithin`, `PageWithin` |
| `StatusesGoForward` | `Spec => StatusesForward` | `OneAtATime` |
| `AppTimeAddedOnce` | `[]AppTimeOnce` | `IInv` of `MigrationProofs` |
| `BadFilesStopNoOther` | `[]BadFilesAlone` | `Moved` |
| `LifecycleProofs!TypeCorrect` | `[]TypeOK` | `IInv` of `LifecycleProofs` |
| `ServerStaysTrusted`, `IdentityUnique`, `RegistrationHolds` | `[]ServerTrusted`, `[]OneIdentity`, `[]ToldIsAccepted` | `IInv`, `KeysKept` and `Settled` of `Keypair` |
| `UpdatesAreWhole` | `[]BinaryWhole` | `IInv` |

*ConfigStore.* `LockKept` is not inductive: it says nothing of the file, from which a restart takes the users,
nor of requests that have read the clock. `IInv` adds `PendingAt` (a request's clock is not in the future)
and `GrantsHeld`: in memory and in the file alike, a lock that stands is a deadline at a start of one of
its windows or for ever, or that start has passed, and a bonus that stands is a deadline no earlier than
what was granted. Each action either changes no deadline of a user with a grant, withdraws the grant, or
grants with the deadline it stores; the clean-up removes passed deadlines only. A lock's deadline in `LockEndOf` has no
opening of the user's windows between the request and itself, which is `LocksEnd`.

For `StoreImplementsPromises`, `PromisesHeld` says that in each state of `IInv` the abstract promises are kept: a lock that
stands denies every instant up to the first opening, a bonus admits up to its end, now and later. An edit maps to a
request about one user, with the record of that user after the clean-up (`RequestMaps`); the records of all
others decide as before (`PutOthers`, and `CleanupIsHarmless`), and the grants of others are not touched (`GrantOthers`).
Restarts and the clock map to themselves, the reading of the clock before the mutex stutters.

*Enforcer.* `IInv` adds that `decided` is the verdict of `conf` at `decidedAt` when it is to be written
(`Basis`), no moment before that of the file and no version after the served one, and that the users to be
put out are decided and in the file (`AddedDenied`). `Sync` and `Stop` map to `Apply`, `Tick` and `Publish`
to themselves, the rest stutters.

For `NoDeniedSession`, `SInv` adds where the denied with a session can be: among the users `added` in the step that ends
sessions, and nowhere else (`PutOut`), and that no login is half done and nothing is left to end where the
process is not ending sessions (`NothingPending`). `Sync` makes this so because whoever was in the file before was out already, and
a login looks at the file. For `VersionsForward`, `VInv` adds that the version in use is no older than that of the
deny file, and that outside of a write of the cache the cache holds one no older than either (`Onward`); the
three faults in the premise are those that cut a write of the cache off.

*Activity.* The invariant is a double entry: of each host, user and application (and the screen), what is in the tables,
in the tracker, in requests not yet committed and in the report waited for is together no more than was measured
(`OnePlace`, without `drop` and `restart`; always for the screen, as screen time is never merged back) and no
less (`SomePlace`, without `exit`). Each step moves time from one place to the next. `Requested` says which report a
request carries and that a daemon has one request a cycle; `Clocked` that each cycle took a tick or a start. The places
are sums over days, applications and requests, about which the first part of the module proves that an update
changes them by what it adds. `ReportsWithin` and `PageWithin` follow the two amounts of one tick side by side,
the latter through the commits between the two queries: the query for the screen comes second and can only
find more. `OneAtATime` says that while the daemon waits for each answer no other request of it can set a status.

*Parentald.* `PromisesEnforced` says nothing of the rules on the way. `IInv` adds that the server's rules agree with its promises
(`Kept`), that the rules in the cache, and those of the cycle until its verdict, agree with the promises from now on, of the users
whose promises have not changed since (`CacheRight`, `RulesReceived`), that after the verdict the deny file agrees with them at
that moment (`Verdict`), and that the users in the file who are not about to be put out are out or missed (`DeniedOut`). A
cache that was not written keeps its own account of these users (`cached`), which is what makes a fetch that fails harmless.

*TickScan.* For the walk, `ScanInv` adds that every process that is pending or visited was read, and that its parent is a
root or a visited process (`Reached`): a process is entered through its one parent, so once. `Reached` is about the map
that was read, of which it asks nothing else, so it covers cycles of parents as well. `ParentRead` adds that a process
nothing happened to is read with the parent it has. For the sessions, `Checked` says that, during the check, one active all
the time is still to be looked at, and that each session active at the moment is among the reasons; a refused answer ends the
check.

For the names, `LookupInv` says that, once the directories of the system are read, each key of their files leads to
one of them, and that the games up to some place of the list are theirs, all of them among these (`SystemFirst`). A
later directory changes neither, as a key is kept and a game goes to the end (`RegisterKeeps`, for the whole fold `FoldKeeps`).

For `SteadyCounted`, `CountInv` adds that the processes have no cycle (`Acyclic`: from every set of them a parent leads
out; a fork and an exit keep this, as orphans go to a process that is not below them, `OneAbove`), that an
undisturbed process is read as it is (`ReadAsItIs`), and that the walk leaves out nothing it has come to (`WalkedOn`). If an
application left alone were not visited, the processes of its lineage that are neither roots nor visited would have their
parents among them, which `Acyclic` excludes (`SteadyVisited`).

*Lifecycle.* The argument is in `Keypair`: as long as the files that are there can be read, the private key is written last and its
pair never drawn again, so a pair in use is that of the files, whole and for good (`KeysKept` in every case, `Settled` without a
failing read). The lemmas are instantiated for the server and the daemon. `IInv` adds
that each draw after the first was paid for by a fault (`DrawsPaid`, which bounds the keys), what the other files hold (`Known`), that
the key left on a computer is the server's private one and every registered key the daemon's, unless a read has failed (`ServerReads`,
`DaemonReads`), that a download is whole or unsigned or checked (`Binaries`), and that the daemon's step fits
where it is with its keys (`StepsFit`).

*Migration.* `IInv` adds that no file at or after `next` has application time in the table while the
migration runs (`Ahead`), which the guard establishes at the start. For `BadFilesAlone`, `Moved` adds that what a migration has
passed is in or was skipped, and that this holds of all files between two runs of the server if the table has data.

Model-checked only: liveness, which is out of the prover's reach (`Converges`, `LockTakesEffect`, `FreeUsersLeave`, `TickEnds`,
`UpdatesSettle`). Every other property of a passing run is a theorem.

## Not modelled

Requests of the daemon other than the fetch that never return (they stop the loop like the one in
`daemon_hang`); daylight saving and the printing of times; rendering, routes and translations; the web login, a
cookie compared with a signature and an expiry; the cryptography itself; the queries of charts and lists, single
statements that only read, and the two-minute rule of `GetStatuses`; what is parsed from .desktop files, cgroups and command lines, and icons; Home
Assistant. `components` in `PROJECT.json` says of each part what is and why the rest is not.

## Plan

Done: schedule, store, enforcer, activity, migration; then `Promises` and `Parentald`, `TickScan` with its parts, `Keypair` and
`Lifecycle`, the page of a day in `Activity`; proofs of all safety properties of the passing runs, and that
`ConfigStore` implements `Promises` and `Enforcer` implements `AccessRule`.

To come:

1. Proofs: that the daemon of `Parentald` is an abstraction of the cycle of `Enforcer`; what the ticks of `TickScan` and the
   updates of `Lifecycle` have left to do, as a measure that every step of theirs lowers, which is the safety part of
   `TickEnds` and `UpdatesSettle`.
2. Old pages: deletion by index, users brought back by a request, if the repository comes to say what should happen.
