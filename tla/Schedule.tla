------------------------------ MODULE Schedule ------------------------------
(***************************************************************************)
(* The rules that decide whether a user may be logged in:                  *)
(* internal/config/schedule.go and the records of internal/config/types.go.*)
(*                                                                         *)
(* An instant is a number of clock ticks.  A reader of the clock sees it   *)
(* through a time zone, the number of ticks its wall clock is ahead: the   *)
(* week, the day and the minute of day are those of instant + zone.  A day *)
(* has MinutesPerDay minutes of TicksPerMinute ticks and a week DaysPerWeek*)
(* days, so that an instance can be small; the code has 1440 and 7, and    *)
(* its ticks are nanoseconds.  Days all have the same length (no daylight  *)
(* saving change).                                                         *)
(*                                                                         *)
(* In this module and the others, an operator named Mut... is a mistake one*)
(* could make in the definition after it.  The specifications do not use   *)
(* it: put in that definition's place, it must break a property.           *)
(***************************************************************************)
EXTENDS Integers, SequencesExt

CONSTANTS TicksPerMinute, MinutesPerDay, DaysPerWeek

ASSUME CalendarAssumption ==
  /\ TicksPerMinute \in Nat \ {0}
  /\ MinutesPerDay \in Nat \ {0}
  /\ DaysPerWeek \in Nat \ {0}

TicksPerDay == MinutesPerDay * TicksPerMinute

Nil == -1        \* a nil *time.Time, and a Time text that does not parse

(***************************************************************************)
(* The minute of day a text stands for, Nil for one parseTime refuses:     *)
(* "24:00", the end of the day, is such a text.                            *)
(***************************************************************************)
ClockTime == 0 .. MinutesPerDay - 1
Weekdays  == 0 .. DaysPerWeek - 1

(***************************************************************************)
(* days holds the weekdays that containsDay recognises; a list of unknown  *)
(* names is the empty set.  Nothing in the code relates from and to.       *)
(***************************************************************************)
Window == [days : SUBSET Weekdays, from : ClockTime \cup {Nil}, to : ClockTime \cup {Nil}]

Instant == Nat
User == [schedules : Seq(Window), lockedUntil : Instant \cup {Nil}, bonusUntil : Instant \cup {Nil}]
ZeroUser == [schedules |-> << >>, lockedUntil |-> Nil, bonusUntil |-> Nil]

-----------------------------------------------------------------------------
(* What a wall clock that shows t says. *)

Weekday(t)     == (t \div TicksPerDay) % DaysPerWeek
MinuteOfDay(t) == (t % TicksPerDay) \div TicksPerMinute
Midnight(t)    == (t \div TicksPerDay) * TicksPerDay

Before(now, until) == until # Nil /\ now < until

MutCoversAfterFrom(w, t) ==
  /\ Weekday(t) \in w.days
  /\ w.from # Nil /\ w.to # Nil
  /\ w.from < MinuteOfDay(t) /\ MinuteOfDay(t) < w.to

Covers(w, t) ==
  /\ Weekday(t) \in w.days
  /\ w.from # Nil /\ w.to # Nil
  /\ w.from =< MinuteOfDay(t) /\ MinuteOfDay(t) < w.to

IsInSchedule(schedules, now, zone) ==
  \E w \in Range(schedules) : Covers(w, now + zone)

MutIsAllowedBonusFirst(name, cfg, now, zone) ==
  \/ name \notin DOMAIN cfg
  \/ Before(now, cfg[name].bonusUntil)
  \/ /\ ~ Before(now, cfg[name].lockedUntil)
     /\ \/ cfg[name].schedules = << >>
        \/ IsInSchedule(cfg[name].schedules, now, zone)

IsAllowed(name, cfg, now, zone) ==
  \/ name \notin DOMAIN cfg
  \/ /\ ~ Before(now, cfg[name].lockedUntil)
     /\ \/ Before(now, cfg[name].bonusUntil)
        \/ cfg[name].schedules = << >>
        \/ IsInSchedule(cfg[name].schedules, now, zone)

(* The users enforce() puts in its list of denied users. *)
Verdict(cfg, now, zone) == { name \in DOMAIN cfg : ~ IsAllowed(name, cfg, now, zone) }

-----------------------------------------------------------------------------
(***************************************************************************)
(* The starts NextScheduleStart looks at, in wall clock time: today those  *)
(* in a later minute, and all those of the DaysPerWeek days that follow.   *)
(* It reads from only: a window whose to does not parse, or is not after   *)
(* from, has a start all the same.                                         *)
(***************************************************************************)
MutUpcomingOneDayShort(schedules, t) ==
  { Midnight(t) + p[1] * TicksPerDay + p[2].from * TicksPerMinute :
      p \in { q \in (0 .. DaysPerWeek - 1) \X Range(schedules) :
                /\ Weekday(t + q[1] * TicksPerDay) \in q[2].days
                /\ q[2].from # Nil
                /\ q[1] = 0 => q[2].from > MinuteOfDay(t) } }

Upcoming(schedules, t) ==
  { Midnight(t) + p[1] * TicksPerDay + p[2].from * TicksPerMinute :
      p \in { q \in (0 .. DaysPerWeek) \X Range(schedules) :
                /\ Weekday(t + q[1] * TicksPerDay) \in q[2].days
                /\ q[2].from # Nil
                /\ q[1] = 0 => q[2].from > MinuteOfDay(t) } }

Earliest(instants) == { t \in instants : \A other \in instants : t =< other }

NextScheduleStart(schedules, now, zone) ==
  LET first == Earliest(Upcoming(schedules, now + zone)) IN
  IF first = {} THEN Nil ELSE (CHOOSE t \in first : TRUE) - zone

FirstCovering(schedules, t) ==
  { i \in DOMAIN schedules : /\ Covers(schedules[i], t)
                             /\ \A j \in 1 .. i - 1 : ~ Covers(schedules[j], t) }

(***************************************************************************)
(* The end of the window the loop of ScheduleEndTime meets first, in the   *)
(* order of the list, among those that cover now.                          *)
(***************************************************************************)
MutScheduleEndTimeInclusive(schedules, now, zone) ==
  LET first == FirstCovering(schedules, now + zone) IN
  IF first = {} THEN Nil
  ELSE LET i == CHOOSE i \in first : TRUE
       IN  Midnight(now + zone) + (schedules[i].to + 1) * TicksPerMinute - zone

ScheduleEndTime(schedules, now, zone) ==
  LET first == FirstCovering(schedules, now + zone) IN
  IF first = {} THEN Nil
  ELSE LET i == CHOOSE i \in first : TRUE
       IN  Midnight(now + zone) + schedules[i].to * TicksPerMinute - zone

-----------------------------------------------------------------------------
(***************************************************************************)
(* The state the overview page shows for a user, by internal/server/       *)
(* templates.go.                                                           *)
(***************************************************************************)
MutUserStateBonusFirst(u, now, zone) ==
  IF Before(now, u.bonusUntil) THEN "bonus"
  ELSE IF Before(now, u.lockedUntil) THEN "locked"
  ELSE IF u.schedules = << >> THEN "free"
  ELSE IF IsInSchedule(u.schedules, now, zone) THEN "allowed"
  ELSE "blocked"

UserState(u, now, zone) ==
  IF Before(now, u.lockedUntil) THEN "locked"
  ELSE IF Before(now, u.bonusUntil) THEN "bonus"
  ELSE IF u.schedules = << >> THEN "free"
  ELSE IF IsInSchedule(u.schedules, now, zone) THEN "allowed"
  ELSE "blocked"

-----------------------------------------------------------------------------
(***************************************************************************)
(* Reference: instant t is the first tick of the minute in which one of    *)
(* the windows starts on that day.                                         *)
(***************************************************************************)
Opens(schedules, t, zone) ==
  \E w \in Range(schedules) :
    /\ w.from # Nil
    /\ Weekday(t + zone) \in w.days
    /\ (t + zone) % TicksPerDay = w.from * TicksPerMinute

(* What types.go says of a window: To must be > From. *)
Proper(w) == w.from \in ClockTime /\ w.to \in ClockTime /\ w.from < w.to
=============================================================================
