----------------------------- MODULE ConfigStore -----------------------------
(***************************************************************************)
(* The server's configuration: the Store of internal/config/store.go, its  *)
(* file, and the handlers of internal/server/handlers.go that change it.   *)
(*                                                                         *)
(* Store.mu serialises the updates, so a handler is one action, except     *)
(* that lockUser and addBonus read the clock before they ask for the mutex:*)
(* they are two actions, with time and other requests in between.          *)
(***************************************************************************)
EXTENDS Schedule, FiniteSets

CONSTANTS
  Users,          \* user names a request can carry
  Handlers,       \* goroutines that serve a lock or a bonus request
  Windows,        \* windows a form can submit
  BonusMinutes,   \* numbers of minutes a bonus request can carry
  ServerZone,     \* the zone of the server's clock
  ClientZone,     \* the zone of the computers that enforce the rules
  Forever,        \* 1 January 9999
  MaxSchedules,   \* bound on a user's list of windows
  MaxTime,        \* bound on the clock
  MaxBonusEnd     \* bound on the end of a bonus, which stacking moves

ASSUME StoreAssumption ==
  /\ Windows \subseteq Window
  /\ BonusMinutes \subseteq Nat \ {0}
  /\ ServerZone \in Nat /\ ClientZone \in Nat
  /\ MaxSchedules \in Nat /\ MaxTime \in Nat /\ MaxBonusEnd \in Nat
  /\ Forever \in Nat /\ Forever > MaxTime /\ Forever > MaxBonusEnd

VARIABLES
  now,       \* the time, the same for all
  cfg,       \* Store.cfg, a function on the users present
  disk,      \* the content of the config file
  reply,     \* what the last step answered
  pending,   \* by handler: the request it serves, with the time it read
  \* History, for the properties only:
  lockGranted,   \* by user: the last lock the admin was told of and that stands
  bonusGranted   \* by user: the end of the access granted by the acknowledged bonuses

vars == << now, cfg, disk, reply, pending, lockGranted, bonusGranted >>
history == << lockGranted, bonusGranted >>

IsConfig(c) == DOMAIN c \subseteq Users /\ c \in [DOMAIN c -> User]

Idle == [op |-> "idle"]
Requests ==
  {Idle} \cup [op : {"lock"}, user : Users, at : Nat]
         \cup [op : {"bonus"}, user : Users, at : Nat, minutes : BonusMinutes]

NoLock == [at |-> Nil]
Locks == {NoLock} \cup [at : Nat, schedules : Seq(Window)]

TypeOK ==
  /\ now \in 0 .. MaxTime
  /\ IsConfig(cfg) /\ IsConfig(disk)
  /\ reply \in {"none", "ok", "failed"}
  /\ pending \in [Handlers -> Requests]
  /\ lockGranted \in [Users -> Locks]
  /\ bonusGranted \in [Users -> Instant \cup {Nil}]

Init ==
  /\ now = 0
  /\ cfg = << >> /\ disk = << >>
  /\ reply = "none"
  /\ pending = [h \in Handlers |-> Idle]
  /\ lockGranted = [u \in Users |-> NoLock]
  /\ bonusGranted = [u \in Users |-> Nil]

-----------------------------------------------------------------------------
(* cfg.Users[name], the zero User for a name that is not there. *)
UserOf(u) == IF u \in DOMAIN cfg THEN cfg[u] ELSE ZeroUser

Put(u, record) == [v \in DOMAIN cfg \cup {u} |-> IF v = u THEN record ELSE cfg[v]]

MutExpireTogether(record) ==
  [record EXCEPT !.lockedUntil = IF record.bonusUntil # Nil /\ now > record.bonusUntil THEN Nil ELSE @,
                 !.bonusUntil  = IF @ # Nil /\ now > @ THEN Nil ELSE @]

(* The zero time.Time in place of nil. *)
MutExpireToZeroTime(record) ==
  [record EXCEPT !.lockedUntil = IF @ # Nil /\ now > @ THEN Nil - 1 ELSE @,
                 !.bonusUntil  = IF @ # Nil /\ now > @ THEN Nil - 1 ELSE @]

(* cleanupExpired, for one user. *)
Expire(record) ==
  [record EXCEPT !.lockedUntil = IF @ # Nil /\ now > @ THEN Nil ELSE @,
                 !.bonusUntil  = IF @ # Nil /\ now > @ THEN Nil ELSE @]

CleanupExpired(config) == [u \in DOMAIN config |-> Expire(config[u])]

MutUpdateIgnoresSaveError(config) ==
  /\ cfg' = CleanupExpired(config)
  /\ \/ disk' = cfg' /\ reply' \in {"ok", "failed"}
     \/ disk' = disk /\ reply' \in {"ok", "failed"}

(***************************************************************************)
(* Store.Update: the mutated map is cleaned and saved.  A save that fails  *)
(* leaves the file as it was and the mutation in memory; one that succeeds *)
(* may have its answer lost with the connection: for the admin, it failed.  *)
(***************************************************************************)
Update(config) ==
  /\ cfg' = CleanupExpired(config)
  /\ \/ disk' = cfg' /\ reply' \in {"ok", "failed"}
     \/ disk' = disk /\ reply' = "failed"

(***************************************************************************)
(* The admin counts on a lock or a bonus once told that it succeeded, and  *)
(* on nothing for a user whose last request was not answered that way.     *)
(***************************************************************************)
Grant(u, lock, bonus) ==
  /\ lockGranted'  = [lockGranted  EXCEPT ![u] = IF reply' = "ok" THEN lock ELSE NoLock]
  /\ bonusGranted' = [bonusGranted EXCEPT ![u] = IF reply' = "ok" THEN bonus ELSE Nil]

-----------------------------------------------------------------------------
AddUser(u) ==
  /\ Update(Put(u, UserOf(u)))
  /\ UNCHANGED << now, pending, history >>

DeleteUser(u) ==
  /\ Update([v \in DOMAIN cfg \ {u} |-> cfg[v]])
  /\ Grant(u, NoLock, Nil)
  /\ UNCHANGED << now, pending >>

AddSchedule(u, w) ==
  /\ Len(UserOf(u).schedules) < MaxSchedules
  /\ Update(Put(u, [UserOf(u) EXCEPT !.schedules = Append(@, w)]))
  /\ UNCHANGED << now, pending, history >>

(* The index comes from the page the admin looks at, however old it is. *)
DeleteSchedule(u, i) ==
  /\ Update(IF i \in DOMAIN UserOf(u).schedules
            THEN Put(u, [UserOf(u) EXCEPT !.schedules = RemoveAt(@, i)])
            ELSE cfg)
  /\ UNCHANGED << now, pending, history >>

UnlockUser(u) ==
  /\ Update(Put(u, [UserOf(u) EXCEPT !.lockedUntil = Nil]))
  /\ Grant(u, NoLock, bonusGranted[u])
  /\ UNCHANGED << now, pending >>

(* lockUser and addBonus up to time.Now(): the rest needs Store.mu. *)
ReceiveLock(h, u) ==
  /\ pending[h] = Idle
  /\ pending' = [pending EXCEPT ![h] = [op |-> "lock", user |-> u, at |-> now]]
  /\ reply' = "none"
  /\ UNCHANGED << now, cfg, disk, history >>

ReceiveBonus(h, u, m) ==
  /\ pending[h] = Idle
  /\ pending' = [pending EXCEPT ![h] = [op |-> "bonus", user |-> u, at |-> now, minutes |-> m]]
  /\ reply' = "none"
  /\ UNCHANGED << now, cfg, disk, history >>

MutLockEndForeverInWindow(u, at) ==
  LET next == NextScheduleStart(UserOf(u).schedules, at, ServerZone)
  IN  IF next = Nil \/ IsInSchedule(UserOf(u).schedules, at, ServerZone) THEN Forever ELSE next

LockEnd(u, at) ==
  LET next == NextScheduleStart(UserOf(u).schedules, at, ServerZone)
  IN  IF next = Nil THEN Forever ELSE next

LockUser(h) ==
  LET r == pending[h] IN
  /\ r.op = "lock"
  /\ Update(Put(r.user, [UserOf(r.user) EXCEPT !.lockedUntil = LockEnd(r.user, r.at)]))
  /\ Grant(r.user, [at |-> r.at, schedules |-> UserOf(r.user).schedules], bonusGranted[r.user])
  /\ pending' = [pending EXCEPT ![h] = Idle]
  /\ UNCHANGED now

MutBonusEndNotStacked(u, at, m) ==
  LET record == UserOf(u)
      end    == ScheduleEndTime(record.schedules, at, ServerZone)
      base   == IF end # Nil THEN end ELSE at
  IN  base + m * TicksPerMinute

(* On top of a running bonus, else past the end of the window, else from at. *)
BonusEnd(u, at, m) ==
  LET record == UserOf(u)
      end    == ScheduleEndTime(record.schedules, at, ServerZone)
      base   == IF Before(at, record.bonusUntil) THEN record.bonusUntil
                ELSE IF end # Nil THEN end ELSE at
  IN  base + m * TicksPerMinute

AddBonus(h) ==
  LET r == pending[h] IN
  /\ r.op = "bonus"
  /\ BonusEnd(r.user, r.at, r.minutes) =< MaxBonusEnd
  /\ Update(Put(r.user, [UserOf(r.user) EXCEPT
               !.lockedUntil = Nil, !.bonusUntil = BonusEnd(r.user, r.at, r.minutes)]))
  /\ Grant(r.user, NoLock,
           (IF now =< bonusGranted[r.user] THEN bonusGranted[r.user] ELSE r.at)
             + r.minutes * TicksPerMinute)
  /\ pending' = [pending EXCEPT ![h] = Idle]
  /\ UNCHANGED now

Tick ==
  /\ now < MaxTime
  /\ now' = now + 1
  /\ reply' = "none"
  /\ UNCHANGED << cfg, disk, pending, history >>

(* The process ends, wherever its handlers are, and a new one runs Load. *)
Restart ==
  /\ cfg' = disk
  /\ pending' = [h \in Handlers |-> Idle]
  /\ reply' = "none"
  /\ UNCHANGED << now, disk, history >>

Next ==
  \/ \E u \in Users :
       \/ AddUser(u) \/ DeleteUser(u) \/ UnlockUser(u)
       \/ \E w \in Windows : AddSchedule(u, w)
       \/ \E i \in 1 .. MaxSchedules : DeleteSchedule(u, i)
       \/ \E h \in Handlers : \/ ReceiveLock(h, u)
                              \/ \E m \in BonusMinutes : ReceiveBonus(h, u, m)
  \/ \E h \in Handlers : LockUser(h) \/ AddBonus(h)
  \/ Tick
  \/ Restart

Spec == Init /\ [][Next]_vars

-----------------------------------------------------------------------------
Allowed(u) == IsAllowed(u, cfg, now, ClientZone)

(***************************************************************************)
(* The windows of a granted lock opened after it was asked for: by the     *)
(* clock of the server, which knows no other, wherever the computer is.    *)
(***************************************************************************)
OpenedSince(lock) == \E t \in lock.at + 1 .. now : Opens(lock.schedules, t, ServerZone)

(***************************************************************************)
(* An admin told that a user is locked can count on it: no other request,  *)
(* edit of the schedules, failed save or restart lets the user in before   *)
(* one of the windows the user had at that moment starts on the server.    *)
(***************************************************************************)
LockKept ==
  \A u \in Users :
    lockGranted[u] # NoLock /\ ~ OpenedSince(lockGranted[u]) => ~ Allowed(u)

(***************************************************************************)
(* ... and once such a window starts, the lock is over.                    *)
(***************************************************************************)
LockEnds ==
  \A u \in DOMAIN cfg :
    lockGranted[u] # NoLock /\ OpenedSince(lockGranted[u]) => ~ Before(now, cfg[u].lockedUntil)

(***************************************************************************)
(* Bonus minutes add up: a user with acknowledged bonuses and no lock since*)
(* is allowed until all their minutes have passed, whatever happens to the *)
(* schedules, to other users and to the server.                            *)
(***************************************************************************)
BonusKept ==
  \A u \in Users :
    Before(now, bonusGranted[u]) /\ lockGranted[u] = NoLock => Allowed(u)

(***************************************************************************)
(* What the server promises, by user: the instants from now on at which the*)
(* rules deny access, those of the lock and those of the bonuses the admin *)
(* was told of.                                                            *)
(***************************************************************************)
Instants == 0 .. MaxBonusEnd

DeniedAhead == [u \in Users |-> { t \in Instants : now =< t /\ ~ IsAllowed(u, cfg, t, ClientZone) }]

LockedInstants ==
  [u \in Users |->
    IF lockGranted[u] = NoLock THEN {}
    ELSE LET at == lockGranted[u].at
             openings == { s \in Instants : at < s /\ Opens(lockGranted[u].schedules, s, ServerZone) }
         IN  { t \in Instants : at =< t /\ \A s \in openings : t < s }]

BonusInstants ==
  [u \in Users |-> IF lockGranted[u] = NoLock
                   THEN { t \in Instants : Before(t, bonusGranted[u]) } ELSE {}]

Promised == INSTANCE Promises
              WITH denied <- DeniedAhead, lock <- LockedInstants, bonus <- BonusInstants

(***************************************************************************)
(* The store implements Promises: at each moment the rules it would answer *)
(* with agree, for all the time to come, with what the admins were told,   *)
(* and a request about one user, with its clean-up of everybody's expired  *)
(* deadlines, changes nothing for another.                                 *)
(***************************************************************************)
ImplementsPromises == Promised!Spec

(***************************************************************************)
(* At whatever moment the deadlines that have passed are cleaned up, by an *)
(* update of anybody, it changes what no user may do, then or later.       *)
(***************************************************************************)
CleanupHarmless ==
  \A u \in DOMAIN cfg, t \in Instants :
    now =< t => IsAllowed(u, CleanupExpired(cfg), t, ClientZone) = IsAllowed(u, cfg, t, ClientZone)

(***************************************************************************)
(* handlers.go:353, "In schedule: extend past schedule end": a bonus of m  *)
(* minutes granted inside a window lets the user stay m minutes more than  *)
(* the schedule alone would have.                                          *)
(***************************************************************************)
BonusExtends ==
  [][ \A h \in Handlers :
        LET r == pending[h]
            schedules == cfg[r.user].schedules
            In(t) == IsInSchedule(schedules, t, ServerZone)
            over == { t \in r.at .. r.at + TicksPerDay : ~ In(t) }
            last == CHOOSE t \in over : \A s \in over : t =< s
        IN  (/\ r.op = "bonus" /\ pending'[h] = Idle /\ reply' = "ok"
             /\ r.user \in DOMAIN cfg
             /\ In(r.at)
             /\ ~ Before(r.at, cfg[r.user].bonusUntil))
            => \A t \in now .. last + r.minutes * TicksPerMinute - 1 :
                 IsAllowed(r.user, cfg', t, ServerZone)
    ]_vars
=============================================================================
