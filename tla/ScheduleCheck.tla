---------------------------- MODULE ScheduleCheck ----------------------------
(***************************************************************************)
(* A clock walking over a week and a day for every user record of an       *)
(* instance: the functions of schedule.go compared, at every instant, with *)
(* each other and with what they are for.  (Its names are not those of     *)
(* ConfigStore: ConfigStoreProofs extends both.)                           *)
(***************************************************************************)
EXTENDS Schedule

CONSTANTS Zone,          \* the zone of every reader
          MaxWindows,    \* bound on the length of the schedule list
          Deadlines      \* the values of lockedUntil and bonusUntil tried

ASSUME WalkAssumption ==
  Zone \in Nat /\ MaxWindows \in Nat /\ Deadlines \subseteq Instant \cup {Nil}

VARIABLES user, clock

walkVars == << user, clock >>

Week    == DaysPerWeek * TicksPerDay
Horizon == Week + TicksPerDay     \* bound on the clock

Lists == UNION { [1 .. n -> Window] : n \in 0 .. MaxWindows }

WalkInit ==
  /\ user \in [schedules : Lists, lockedUntil : Deadlines, bonusUntil : Deadlines]
  /\ clock = 0

WalkTick == clock < Horizon /\ clock' = clock + 1 /\ UNCHANGED user

(* The walk ends at the bound. *)
WalkDone == clock = Horizon /\ UNCHANGED walkVars

WalkNext == WalkTick \/ WalkDone

WalkSpec == WalkInit /\ [][WalkNext]_walkVars

-----------------------------------------------------------------------------
(***************************************************************************)
(* The instant until which a lock holds (NextScheduleStart) is a start of  *)
(* a window, strictly later than now, with none before it; and there is    *)
(* none only when no window ever starts.                                   *)
(***************************************************************************)
NextStartIsFirstOpening ==
  LET next == NextScheduleStart(user.schedules, clock, Zone) IN
  IF next = Nil
  THEN \A t \in clock + 1 .. clock + Week : ~ Opens(user.schedules, t, Zone)
  ELSE /\ next > clock
       /\ Opens(user.schedules, next, Zone)
       /\ \A t \in clock + 1 .. next - 1 : ~ Opens(user.schedules, t, Zone)

(***************************************************************************)
(* NextScheduleStart agrees with IsInSchedule, which recomputes the windows*)
(* in its own way: when every window is proper and the user is outside all *)
(* of them, the schedule denies the user until exactly that instant and    *)
(* allows it there.                                                        *)
(***************************************************************************)
NextStartAdmits ==
  LET next == NextScheduleStart(user.schedules, clock, Zone)
      In(t) == IsInSchedule(user.schedules, t, Zone) IN
  (/\ \A w \in Range(user.schedules) : Proper(w)
   /\ ~ In(clock)
   /\ next # Nil)
  => In(next) /\ \A t \in clock .. next - 1 : ~ In(t)

(***************************************************************************)
(* ScheduleEndTime, from which a bonus is counted, exists exactly while the*)
(* schedule allows the user, lies ahead, and the schedule goes on allowing *)
(* the user up to it.                                                      *)
(***************************************************************************)
EndTimeIsReached ==
  LET end == ScheduleEndTime(user.schedules, clock, Zone) IN
  /\ (end = Nil) <=> ~ IsInSchedule(user.schedules, clock, Zone)
  /\ end # Nil => /\ end > clock
                  /\ \A t \in clock .. end - 1 : IsInSchedule(user.schedules, t, Zone)

(***************************************************************************)
(* The page shows a state of access (bonus, free, allowed) exactly when the*)
(* daemon would allow the user: userState "mirrors config.IsAllowed".      *)
(***************************************************************************)
StateShownIsStateEnforced ==
  UserState(user, clock, Zone) \in {"bonus", "free", "allowed"}
    <=> IsAllowed("u", [u |-> user, v |-> ZeroUser], clock, Zone)
=============================================================================
