-------------------------- MODULE ConfigStoreProofs --------------------------
(***************************************************************************)
(* The rules and the store that hold a family to them, for any number of   *)
(* users, handlers and windows, any calendar and any bound: first what the *)
(* functions of schedule.go return, by the arithmetic of the calendar, and *)
(* then what an acknowledged lock or bonus is worth.                       *)
(***************************************************************************)
EXTENDS ConfigStore, ScheduleCheck, FiniteSetTheorems, WellFoundedInduction, TLAPS

-----------------------------------------------------------------------------
(* The calendar, and the functions that read it. *)

LEMMA TicksPerDayType == TicksPerDay \in Nat \ {0}
  BY CalendarAssumption, SMT DEF TicksPerDay

(* Division by the length of a day, on a day number and an offset into it. *)
LEMMA DivMod ==
  ASSUME NEW d \in Nat, NEW D \in Nat \ {0}, NEW r \in 0 .. D - 1
  PROVE  (d * D + r) \div D = d /\ (d * D + r) % D = r
  BY SMT

LEMMA Decompose ==
  ASSUME NEW t \in Nat, NEW D \in Nat \ {0}
  PROVE  t = (t \div D) * D + (t % D) /\ t % D \in 0 .. D - 1 /\ t \div D \in Nat
  BY SMT

LEMMA MultiplyMonotone ==
  ASSUME NEW a \in Nat, NEW b \in Nat, NEW D \in Nat \ {0}, a < b
  PROVE  a * D + D =< b * D
  BY SMT

(* A later minute starts after every tick of an earlier one. *)
LEMMA LaterMinute ==
  ASSUME NEW r \in Nat, NEW T \in Nat \ {0}, NEW m \in Nat, m > r \div T
  PROVE  m * T > r
  <1> DEFINE q == r \div T
             rest == r % T
  <1>1. r = q * T + rest /\ rest \in 0 .. T - 1 /\ q \in Nat BY Decompose
  <1> HIDE DEF q, rest
  <1>2. q * T + T =< m * T BY <1>1, MultiplyMonotone DEF q
  <1> QED BY <1>1, <1>2, SMT

(* A minute of the day starts within the day. *)
LEMMA MinuteWithinDay ==
  ASSUME NEW m \in ClockTime
  PROVE  m * TicksPerMinute \in 0 .. TicksPerDay - 1
  <1>1. TicksPerMinute \in Nat \ {0} /\ MinutesPerDay \in Nat \ {0}
    BY CalendarAssumption
  <1>2. m \in Nat /\ m + 1 =< MinutesPerDay
    BY <1>1, SMT DEF ClockTime
  <1>3. (m + 1) * TicksPerMinute =< MinutesPerDay * TicksPerMinute
    BY <1>1, <1>2, SMT
  <1> QED BY <1>1, <1>2, <1>3, SMT DEF TicksPerDay

(* Every nonempty set of naturals has a least element. *)
LEMMA LeastNumber ==
  ASSUME NEW T \in SUBSET Nat, T # {}
  PROVE  \E x \in T : \A y \in T : x =< y
  <1> DEFINE F == { 0 .. n : n \in T }
  <1>1. F \subseteq FiniteSubsetsOf(Nat)
    <2>1. \A n \in T : IsFiniteSet(0 .. n) /\ 0 .. n \in SUBSET Nat BY FS_Interval
    <2> QED BY <2>1 DEF FiniteSubsetsOf
  <1>2. F # {} OBVIOUS
  <1> HIDE DEF F
  <1>3. PICK s \in F : \A t \in F : <<t, s>> \notin StrictSubsetOrdering(Nat)
    BY <1>1, <1>2, FS_StrictSubsetOrderingWellFounded, WFMin
  <1>4. PICK x \in T : s = 0 .. x BY DEF F
  <1>5. ASSUME NEW y \in T, y < x PROVE FALSE
    <2>1. 0 .. y \in F BY DEF F
    <2>2. 0 .. y \subseteq 0 .. x /\ x \in 0 .. x /\ x \notin 0 .. y BY <1>5
    <2>3. <<0 .. y, s>> \in StrictSubsetOrdering(Nat) BY <2>2, <1>4 DEF StrictSubsetOrdering
    <2> QED BY <1>3, <2>1, <2>3
  <1> QED BY <1>5

(* An earlier tick is in no later minute. *)
LEMMA EarlierMinute ==
  ASSUME NEW r \in Nat, NEW s \in Nat, r =< s, NEW T \in Nat \ {0}
  PROVE  r \div T =< s \div T
  <1> DEFINE q == r \div T
             p == s \div T
             x == r % T
             y == s % T
  <1>1. r = q * T + x /\ x \in 0 .. T - 1 /\ q \in Nat BY Decompose
  <1>2. s = p * T + y /\ y \in 0 .. T - 1 /\ p \in Nat BY Decompose
  <1> HIDE DEF q, p, x, y
  <1>3. p < q => p * T + T =< q * T BY <1>1, <1>2, MultiplyMonotone
  <1>4. p * T \in Nat /\ q * T \in Nat BY <1>1, <1>2
  <1> QED BY <1>1, <1>2, <1>3, <1>4, SMT DEF p, q

(* The tick at which minute m starts is in minute m. *)
LEMMA StartOfMinute ==
  ASSUME NEW m \in Nat, NEW T \in Nat \ {0}
  PROVE  (m * T) \div T = m
  <1>1. (m * T + 0) \div T = m BY DivMod
  <1>2. m * T + 0 = m * T OBVIOUS
  <1> QED BY <1>1, <1>2

(***************************************************************************)
(* A number of days n > 0 after day a falls on the weekday of the day k    *)
(* after a, for some k of the week that follows a.                         *)
(***************************************************************************)
LEMMA SameWeekday ==
  ASSUME NEW a \in Nat, NEW n \in Nat, n > 0, NEW W \in Nat \ {0}
  PROVE  \E k \in 1 .. W : k =< n /\ (a + k) % W = (a + n) % W
  <1> DEFINE q == (n - 1) \div W
             x == (n - 1) % W
             k == x + 1
  <1>1. n - 1 \in Nat OBVIOUS
  <1>2. n - 1 = q * W + x /\ x \in 0 .. W - 1 /\ q \in Nat BY <1>1, Decompose
  <1> HIDE DEF x
  <1>3. n = q * W + k /\ k \in 1 .. W
    <2> HIDE DEF q
    <2>1. q * W \in Nat BY <1>2
    <2> QED BY <1>2, <2>1, SMT
  <1> HIDE DEF q, k
  <1>4. q * W \in Nat BY <1>2
  <1>5. k =< n BY <1>3, <1>4
  <1>6. (a + k) % W = (a + n) % W
    <2> DEFINE d == (a + k) \div W
               r == (a + k) % W
    <2>1. a + k \in Nat BY <1>3
    <2>2. a + k = d * W + r /\ r \in 0 .. W - 1 /\ d \in Nat BY <2>1, Decompose
    <2> HIDE DEF d, r
    <2>3. a + n = (d + q) * W + r BY <1>2, <1>3, <2>2, SMT
    <2>4. d + q \in Nat BY <1>2, <2>2
    <2>5. (a + n) % W = r BY <2>2, <2>3, <2>4, DivMod
    <2> QED BY <2>5 DEF r
  <1> QED BY <1>3, <1>5, <1>6

(***************************************************************************)
(* Every start that NextScheduleStart considers is later than the wall     *)
(* clock it starts from, and a window starts there.                        *)
(***************************************************************************)
LEMMA UpcomingOpens ==
  ASSUME NEW schedules \in Seq(Window), NEW t \in Nat, NEW s \in Upcoming(schedules, t)
  PROVE  s \in Nat /\ s > t /\ Opens(schedules, s, 0)
  <1> DEFINE D == TicksPerDay
             day == t \div D
  <1>1. D \in Nat \ {0} BY TicksPerDayType
  <1>2. PICK k \in 0 .. DaysPerWeek, w \in Range(schedules) :
          /\ s = Midnight(t) + k * D + w.from * TicksPerMinute
          /\ Weekday(t + k * D) \in w.days
          /\ w.from # Nil
          /\ k = 0 => w.from > MinuteOfDay(t)
    BY DEF Upcoming
  <1>3. w \in Window BY DEF Range
  <1>4. w.from \in ClockTime BY <1>2, <1>3 DEF Window
  <1>5. w.from * TicksPerMinute \in 0 .. D - 1 BY <1>4, MinuteWithinDay
  <1>6. k \in Nat BY CalendarAssumption, SMT
  <1>7. t = day * D + (t % D) /\ t % D \in 0 .. D - 1 /\ day \in Nat BY <1>1, Decompose
  <1> DEFINE m == w.from * TicksPerMinute
  <1>8. (t + k * D) \div D = day + k /\ Midnight(t) = day * D
    <2>1. t + k * D = (day + k) * D + (t % D) BY <1>1, <1>6, <1>7, SMT
    <2>2. day + k \in Nat BY <1>6, <1>7
    <2> HIDE DEF D, day
    <2>3. (t + k * D) \div D = day + k BY <1>1, <1>7, <2>1, <2>2, DivMod
    <2> QED BY <2>3 DEF Midnight, D, day
  <1>9. s = (day + k) * D + m /\ m \in 0 .. D - 1 /\ day + k \in Nat
    BY <1>1, <1>2, <1>5, <1>6, <1>7, <1>8, SMT
  <1>10. s \div D = day + k /\ s % D = m
    <2> HIDE DEF D, day, m
    <2> QED BY <1>1, <1>9, DivMod
  <1>11. s \in Nat
    <2> HIDE DEF D, day, m
    <2> QED BY <1>1, <1>9, SMT
  <1>12. Opens(schedules, s, 0)
    <2>1. Weekday(s) \in w.days BY <1>2, <1>8, <1>10 DEF Weekday
    <2>2. s + 0 = s BY <1>11
    <2> QED BY <1>2, <1>10, <2>1, <2>2 DEF Opens
  <1>13. s > t
    <2>1. CASE k > 0
      <3> HIDE DEF D, day, m
      <3>1. k * D >= D BY <1>1, <1>6, <2>1, SMT
      <3> QED BY <1>1, <1>6, <1>7, <1>9, <3>1, SMT
    <2>2. CASE k = 0
      <3>1. w.from > (t % D) \div TicksPerMinute BY <1>2, <2>2 DEF MinuteOfDay
      <3>2. w.from * TicksPerMinute > t % D
        <4>1. t % D \in Nat BY <1>7, <1>1
        <4>2. w.from \in Nat BY <1>4, SMT DEF ClockTime
        <4> HIDE DEF D
        <4> QED BY <3>1, <4>1, <4>2, CalendarAssumption, LaterMinute
      <3> HIDE DEF D, day
      <3> QED BY <1>1, <1>6, <1>7, <1>9, <2>2, <3>2, SMT
    <2> QED BY <1>6, <2>1, <2>2
  <1> QED BY <1>11, <1>12, <1>13

(***************************************************************************)
(* The instant NextScheduleStart returns is later than now, and a window   *)
(* starts there: a lock never ends inside a window or before it began.     *)
(***************************************************************************)
THEOREM NextStartOpens ==
  ASSUME NEW schedules \in Seq(Window), NEW at \in Nat, NEW zone \in Nat,
         NextScheduleStart(schedules, at, zone) # Nil
  PROVE  LET next == NextScheduleStart(schedules, at, zone) IN
         next \in Nat /\ next > at /\ Opens(schedules, next, zone)
  <1> DEFINE t == at + zone
             first == Earliest(Upcoming(schedules, t))
             s == CHOOSE x \in first : TRUE
             next == NextScheduleStart(schedules, at, zone)
  <1>1. first # {} /\ next = s - zone BY DEF NextScheduleStart
  <1>2. s \in Upcoming(schedules, t) BY <1>1 DEF Earliest
  <1>3. t \in Nat OBVIOUS
  <1>4. s \in Nat /\ s > t /\ Opens(schedules, s, 0) BY <1>2, <1>3, UpcomingOpens
  <1> HIDE DEF s, next
  <1>5. next \in Nat /\ next > at /\ next + zone = s + 0 BY <1>1, <1>4, SMT
  <1>6. Opens(schedules, next, zone) BY <1>4, <1>5 DEF Opens
  <1> QED BY <1>5, <1>6 DEF next

(***************************************************************************)
(* And whenever a window starts later than the wall clock, it is there or  *)
(* after one of the starts NextScheduleStart considers: a start more than  *)
(* a week away has one on its weekday in the week that follows.            *)
(***************************************************************************)
LEMMA UpcomingReaches ==
  ASSUME NEW schedules \in Seq(Window), NEW t \in Nat, NEW s \in Nat, s > t, Opens(schedules, s, 0)
  PROVE  \E first \in Upcoming(schedules, t) : first =< s
  <1> DEFINE D == TicksPerDay
             T == TicksPerMinute
             W == DaysPerWeek
             a == t \div D
             b == s \div D
             x == t % D
             y == s % D
  <1>1. D \in Nat \ {0} /\ T \in Nat \ {0} /\ W \in Nat \ {0} BY TicksPerDayType, CalendarAssumption
  <1>2. t = a * D + x /\ x \in 0 .. D - 1 /\ a \in Nat BY <1>1, Decompose
  <1>3. s = b * D + y /\ y \in 0 .. D - 1 /\ b \in Nat BY <1>1, Decompose
  <1>4. PICK w \in Range(schedules) : w.from # Nil /\ b % W \in w.days /\ y = w.from * T
    <2>1. s + 0 = s OBVIOUS
    <2> QED BY <2>1 DEF Opens, Weekday
  <1>5. w.from \in Nat /\ w.from \in ClockTime
    <2>1. w \in Window BY DEF Range
    <2> QED BY <1>4, <2>1 DEF Window, ClockTime
  <1>6. ASSUME NEW k \in 0 .. W, (a + k) % W \in w.days, k = 0 => w.from > x \div T
        PROVE  (a + k) * D + y \in Upcoming(schedules, t)
    <2>1. k \in Nat BY <1>1
    <2>2. t + k * D = (a + k) * D + x /\ a + k \in Nat /\ a * D + k * D = (a + k) * D
      <3> HIDE DEF D, a, x
      <3> QED BY <1>1, <1>2, <2>1, SMT
    <2>3. (t + k * D) \div D = a + k
      <3> HIDE DEF D, a, x
      <3> QED BY <1>1, <1>2, <2>2, DivMod
    <2>4. Weekday(t + k * D) \in w.days BY <1>6, <2>3 DEF Weekday
    <2>5. k = 0 => w.from > MinuteOfDay(t) BY <1>6 DEF MinuteOfDay
    <2>6. (a + k) * D + y = Midnight(t) + k * D + w.from * T BY <1>4, <2>2 DEF Midnight
    <2>7. << k, w >> \in (0 .. W) \X Range(schedules) OBVIOUS
    <2> DEFINE p == << k, w >>
    <2>8. p[1] = k /\ p[2] = w OBVIOUS
    <2> QED BY <1>4, <2>4, <2>5, <2>6, <2>7, <2>8 DEF Upcoming
  <1> HIDE DEF D, a, b, x, y
  <1>7. b >= a
    <2>1. b < a => b * D + D =< a * D BY <1>1, <1>2, <1>3, MultiplyMonotone
    <2>2. a * D \in Nat /\ b * D \in Nat BY <1>1, <1>2, <1>3
    <2> QED BY <1>1, <1>2, <1>3, <2>1, <2>2
  <1>8. CASE b = a
    <2>1. y > x
      <3>1. a * D \in Nat BY <1>1, <1>2
      <3> QED BY <1>1, <1>2, <1>3, <1>8, <3>1
    <2>2. w.from > x \div T
      <3>1. x \in Nat /\ y \in Nat BY <1>1, <1>2, <1>3
      <3> DEFINE q == x \div T
                 z == x % T
      <3>2. x = q * T + z /\ z \in 0 .. T - 1 /\ q \in Nat BY <1>1, <3>1, Decompose
      <3> HIDE DEF q, z
      <3>3. w.from < q => w.from * T + T =< q * T BY <1>1, <1>5, <3>2, MultiplyMonotone
      <3>4. w.from * T \in Nat /\ q * T \in Nat BY <1>1, <1>5, <3>2
      <3>5. ~ (w.from < q) BY <1>1, <1>4, <2>1, <3>1, <3>2, <3>3, <3>4
      <3>6. w.from # q BY <1>4, <2>1, <3>2, <3>4
      <3> QED BY <1>5, <3>2, <3>5, <3>6 DEF q
    <2>3. a + 0 = a BY <1>2
    <2>4. a * D + y \in Upcoming(schedules, t)
      <3>1. (a + 0) % W \in w.days BY <1>2, <1>4, <1>8
      <3>2. 0 \in 0 .. W BY <1>1
      <3>3. (a + 0) * D + y \in Upcoming(schedules, t) BY <1>6, <2>2, <3>1, <3>2
      <3>4. (a + 0) * D = a * D BY <1>2
      <3> QED BY <3>3, <3>4
    <2> QED BY <1>3, <1>8, <2>4
  <1>9. CASE b > a
    <2>1. b - a \in Nat /\ b - a > 0 /\ a + (b - a) = b BY <1>2, <1>3, <1>9
    <2>2. PICK k \in 1 .. W : k =< b - a /\ (a + k) % W = (a + (b - a)) % W
      <3> DEFINE n == b - a
      <3>1. n \in Nat /\ n > 0 BY <2>1
      <3> HIDE DEF n
      <3> SUFFICES \E k \in 1 .. W : k =< n /\ (a + k) % W = (a + n) % W BY DEF n
      <3> HIDE DEF W
      <3>2. a \in Nat /\ W \in Nat \ {0} BY <1>1, <1>2
      <3> QED BY ONLY <3>1, <3>2, SameWeekday, Zenon
    <2>3. (a + k) % W \in w.days BY <1>4, <2>1, <2>2
    <2>4. k \in 0 .. W /\ k # 0 BY <1>1, <2>2
    <2>5. (a + k) * D + y \in Upcoming(schedules, t) BY <1>6, <2>3, <2>4
    <2>6. a + k \in Nat /\ a + k =< b BY <1>1, <1>2, <1>3, <2>2
    <2> DEFINE c == a + k
    <2>7. c < b => c * D + D =< b * D BY <1>1, <1>3, <2>6, MultiplyMonotone
    <2>8. c * D \in Nat /\ b * D \in Nat /\ D \in Nat /\ y \in Nat BY <1>1, <1>3, <2>6
    <2> HIDE DEF c
    <2>9. c * D + y =< s
      <3>1. CASE c = b BY <1>3, <2>8, <3>1
      <3>2. CASE c < b BY <1>3, <2>7, <2>8, <3>2
      <3> QED BY <1>3, <2>6, <3>1, <3>2 DEF c
    <2> QED BY <2>5, <2>9 DEF c
  <1> QED BY <1>2, <1>3, <1>7, <1>8, <1>9

(***************************************************************************)
(* No window starts between now and the instant NextScheduleStart returns, *)
(* and none ever starts again if it returns none.                          *)
(***************************************************************************)
LEMMA NextStartFirst ==
  ASSUME NEW schedules \in Seq(Window), NEW at \in Nat, NEW zone \in Nat,
         NEW s \in Nat, s > at, Opens(schedules, s, zone)
  PROVE  LET next == NextScheduleStart(schedules, at, zone) IN next # Nil /\ next =< s
  <1> DEFINE t == at + zone
             upcoming == Upcoming(schedules, t)
             first == Earliest(upcoming)
             least == CHOOSE x \in first : TRUE
  <1>1. t \in Nat /\ s + zone \in Nat /\ s + zone > t OBVIOUS
  <1>2. Opens(schedules, s + zone, 0)
    <2>1. (s + zone) + 0 = s + zone OBVIOUS
    <2> QED BY <2>1 DEF Opens
  <1>3. PICK reach \in upcoming : reach =< s + zone BY <1>1, <1>2, UpcomingReaches
  <1>4. upcoming \subseteq Nat /\ \A x \in upcoming : x > t BY <1>1, UpcomingOpens
  <1> HIDE DEF upcoming
  <1>5. PICK x \in upcoming : \A y \in upcoming : x =< y BY <1>3, <1>4, LeastNumber
  <1>6. x \in first BY <1>5 DEF Earliest
  <1>7. least \in first BY <1>6
  <1>8. least \in upcoming /\ least =< reach BY <1>3, <1>7 DEF Earliest
  <1>9. NextScheduleStart(schedules, at, zone) = least - zone
    BY <1>6 DEF NextScheduleStart, upcoming
  <1> HIDE DEF least
  <1>10. least \in Nat /\ least > t /\ reach \in Nat BY <1>3, <1>4, <1>8
  <1> QED BY <1>3, <1>8, <1>9, <1>10 DEF Nil

(***************************************************************************)
(* The instant ScheduleEndTime returns is later than now.                  *)
(***************************************************************************)
LEMMA EndTimeLater ==
  ASSUME NEW schedules \in Seq(Window), NEW at \in Nat, NEW zone \in Nat,
         ScheduleEndTime(schedules, at, zone) # Nil
  PROVE  LET end == ScheduleEndTime(schedules, at, zone) IN end \in Nat /\ end > at
  <1> DEFINE t == at + zone
             first == CHOOSE i \in FirstCovering(schedules, t) : TRUE
             day == t \div TicksPerDay
             to == schedules[first].to
             end == ScheduleEndTime(schedules, at, zone)
  <1>1. FirstCovering(schedules, t) # {} /\ end = Midnight(t) + to * TicksPerMinute - zone
    BY DEF ScheduleEndTime
  <1>2. first \in DOMAIN schedules /\ Covers(schedules[first], t)
    BY <1>1 DEF FirstCovering
  <1>3. to \in Nat /\ to > MinuteOfDay(t)
    <2>1. schedules[first] \in Window BY <1>2
    <2>2. to \in ClockTime BY <1>2, <2>1 DEF Covers, Window
    <2> QED BY <1>2, <2>2, SMT DEF ClockTime, Covers
  <1>4. TicksPerDay \in Nat \ {0} BY TicksPerDayType
  <1>5. t \in Nat OBVIOUS
  <1>6. t = day * TicksPerDay + (t % TicksPerDay) /\ t % TicksPerDay \in Nat /\ day \in Nat
    <2> HIDE DEF t
    <2>1. t = day * TicksPerDay + (t % TicksPerDay) /\ day \in Nat BY <1>4, <1>5, Decompose
    <2>2. t % TicksPerDay \in 0 .. TicksPerDay - 1 BY <1>4, <1>5, Decompose
    <2>3. t % TicksPerDay \in Nat BY <1>4, <2>2
    <2> QED BY <2>1, <2>3
  <1>7. to * TicksPerMinute > t % TicksPerDay
    BY <1>3, <1>6, CalendarAssumption, LaterMinute DEF MinuteOfDay
  <1>8. to * TicksPerMinute \in Nat BY <1>3, CalendarAssumption
  <1>9. Midnight(t) = day * TicksPerDay BY DEF Midnight
  <1> HIDE DEF first, day, to, end
  <1>10. day * TicksPerDay \in Nat BY <1>4, <1>6
  <1> QED BY <1>1, <1>6, <1>7, <1>8, <1>9, <1>10, SMT DEF end

-----------------------------------------------------------------------------
(***************************************************************************)
(* How a window covers instants: from a start of its own on, without a gap,*)
(* up to its end.                                                          *)
(***************************************************************************)
LEMMA SameDay ==
  ASSUME NEW t \in Nat, NEW u \in Nat, t =< u, NEW r \in 0 .. TicksPerDay, u < Midnight(t) + r
  PROVE  /\ u \div TicksPerDay = t \div TicksPerDay
         /\ t % TicksPerDay \in Nat /\ u % TicksPerDay \in Nat
         /\ t % TicksPerDay =< u % TicksPerDay /\ u % TicksPerDay < r
  <1> DEFINE D == TicksPerDay
             a == t \div D
             b == u \div D
             x == t % D
             y == u % D
  <1>1. D \in Nat \ {0} BY TicksPerDayType
  <1>2. t = a * D + x /\ x \in 0 .. D - 1 /\ a \in Nat BY <1>1, Decompose
  <1>3. u = b * D + y /\ y \in 0 .. D - 1 /\ b \in Nat BY <1>1, Decompose
  <1>4. u < a * D + r BY DEF Midnight
  <1>5. r \in 0 .. D OBVIOUS
  <1> HIDE DEF D, a, b, x, y
  <1>6. a < b => a * D + D =< b * D BY <1>1, <1>2, <1>3, MultiplyMonotone
  <1>7. b < a => b * D + D =< a * D BY <1>1, <1>2, <1>3, MultiplyMonotone
  <1>8. a * D \in Nat /\ b * D \in Nat BY <1>1, <1>2, <1>3
  <1>9. ~ (a < b) BY <1>1, <1>3, <1>4, <1>5, <1>6, <1>8
  <1>10. ~ (b < a) BY <1>1, <1>2, <1>3, <1>7, <1>8
  <1>11. a = b BY <1>2, <1>3, <1>9, <1>10
  <1>12. x \in Nat /\ y \in Nat BY <1>1, <1>2, <1>3
  <1>13. x =< y /\ y < r BY <1>2, <1>3, <1>4, <1>5, <1>8, <1>11, <1>12
  <1> QED BY <1>11, <1>12, <1>13 DEF D, a, b, x, y

(* The end of a day is the latest a window can end. *)
LEMMA WithinDay ==
  ASSUME NEW m \in ClockTime
  PROVE  m \in Nat /\ m * TicksPerMinute \in 0 .. TicksPerDay
  <1>1. m \in Nat BY CalendarAssumption DEF ClockTime
  <1>2. TicksPerDay \in Nat BY TicksPerDayType
  <1> QED BY <1>1, <1>2, MinuteWithinDay

LEMMA CoversOn ==
  ASSUME NEW w \in Window, NEW t \in Nat, NEW u \in Nat, t =< u,
         Covers(w, t), u < Midnight(t) + w.to * TicksPerMinute
  PROVE  Covers(w, u)
  <1> DEFINE r == w.to * TicksPerMinute
             x == t % TicksPerDay
             y == u % TicksPerDay
  <1>1. w.from \in ClockTime /\ w.to \in ClockTime BY DEF Covers, Window
  <1>2. w.from \in Nat /\ w.to \in Nat /\ r \in 0 .. TicksPerDay BY <1>1, WithinDay
  <1>3. TicksPerMinute \in Nat \ {0} BY CalendarAssumption
  <1>4. /\ u \div TicksPerDay = t \div TicksPerDay
        /\ x \in Nat /\ y \in Nat /\ x =< y /\ y < r
    <2> HIDE DEF r
    <2> QED BY <1>2, SameDay DEF r
  <1> HIDE DEF x, y
  <1>5. x \div TicksPerMinute =< y \div TicksPerMinute BY <1>3, <1>4, EarlierMinute
  <1>6. y \div TicksPerMinute < w.to
    <2> DEFINE q == y \div TicksPerMinute
               z == y % TicksPerMinute
    <2>1. y = q * TicksPerMinute + z /\ z \in 0 .. TicksPerMinute - 1 /\ q \in Nat
      BY <1>3, <1>4, Decompose
    <2> HIDE DEF q, z
    <2>2. w.to < q => w.to * TicksPerMinute + TicksPerMinute =< q * TicksPerMinute
      BY <1>2, <1>3, <2>1, MultiplyMonotone
    <2>3. r \in Nat /\ q * TicksPerMinute \in Nat BY <1>2, <1>3, <2>1
    <2>4. ~ (w.to < q) BY <1>3, <1>4, <2>1, <2>2, <2>3
    <2>5. w.to # q BY <1>3, <1>4, <2>1, <2>3
    <2> QED BY <1>2, <2>1, <2>4, <2>5 DEF q
  <1>7. x \div TicksPerMinute \in Nat /\ y \div TicksPerMinute \in Nat
    BY <1>3, <1>4, Decompose
  <1>8. w.from =< x \div TicksPerMinute BY DEF Covers, MinuteOfDay, x
  <1>9. w.from =< y \div TicksPerMinute BY <1>2, <1>5, <1>7, <1>8
  <1> QED BY <1>4, <1>6, <1>9 DEF Covers, Weekday, MinuteOfDay, y

(* A window that covers u and not yet t, before u, starts in between. *)
LEMMA StartsBetween ==
  ASSUME NEW w \in Window, NEW t \in Nat, NEW u \in Nat, t =< u,
         Covers(w, u), ~ Covers(w, t)
  PROVE  \E s \in Nat : /\ t < s /\ s =< u
                        /\ Weekday(s) \in w.days /\ s % TicksPerDay = w.from * TicksPerMinute
  <1> DEFINE D == TicksPerDay
             T == TicksPerMinute
             b == u \div D
             y == u % D
             m == w.from * T
             s == b * D + m
  <1>1. D \in Nat \ {0} /\ T \in Nat \ {0} BY TicksPerDayType, CalendarAssumption
  <1>2. u = b * D + y /\ y \in 0 .. D - 1 /\ b \in Nat BY <1>1, Decompose
  <1>3. w.from \in ClockTime /\ w.to \in ClockTime BY DEF Covers, Window
  <1>4. w.from \in Nat /\ w.to \in Nat /\ m \in 0 .. D - 1 BY <1>3, WithinDay, MinuteWithinDay
  <1>5. m =< y
    <2> DEFINE q == y \div T
               z == y % T
    <2>1. w.from =< q BY DEF Covers, MinuteOfDay
    <2>2. y \in Nat BY <1>1, <1>2
    <2> HIDE DEF y
    <2>3. y = q * T + z /\ z \in 0 .. T - 1 /\ q \in Nat BY <1>1, <2>2, Decompose
    <2> HIDE DEF q, z
    <2>4. w.from < q => m + T =< q * T BY <1>1, <1>4, <2>3, MultiplyMonotone
    <2>5. m \in Nat /\ q * T \in Nat BY <1>1, <1>4, <2>3
    <2>6. w.from = q \/ w.from < q BY <1>4, <2>1, <2>3
    <2>7. m =< q * T BY <1>1, <2>4, <2>5, <2>6
    <2> QED BY <1>1, <2>3, <2>5, <2>7
  <1>6. s \div D = b /\ s % D = m
    <2> HIDE DEF D, m, b
    <2> QED BY <1>1, <1>2, <1>4, DivMod
  <1>7. s \in Nat /\ s =< u
    <2> HIDE DEF D, m, b, y
    <2>1. b * D \in Nat BY <1>1, <1>2
    <2> QED BY <1>1, <1>2, <1>4, <1>5, <2>1
  <1>8. Weekday(s) \in w.days
    <2>1. Weekday(s) = Weekday(u) BY <1>6 DEF Weekday
    <2> QED BY <2>1 DEF Covers
  <1>9. t < s
    <2> SUFFICES ASSUME s =< t PROVE FALSE
      <3> HIDE DEF s
      <3> QED BY <1>7
    <2>1. t % D \in Nat /\ t \div D = b /\ m =< t % D /\ t % D =< y
      <3> DEFINE a == t \div D
                 x == t % D
      <3>1. t = a * D + x /\ x \in 0 .. D - 1 /\ a \in Nat BY <1>1, Decompose
      <3> HIDE DEF D, m, b, y, a, x
      <3>2. a < b => a * D + D =< b * D BY <1>1, <1>2, <3>1, MultiplyMonotone
      <3>3. b < a => b * D + D =< a * D BY <1>1, <1>2, <3>1, MultiplyMonotone
      <3>4. a * D \in Nat /\ b * D \in Nat /\ m \in Nat BY <1>1, <1>2, <1>4, <3>1
      <3>5. ~ (a < b) BY <1>1, <3>1, <3>2, <3>4
      <3>6. ~ (b < a) BY <1>1, <1>2, <3>1, <3>3, <3>4
      <3>7. a = b BY <1>2, <3>1, <3>5, <3>6
      <3>8. x \in Nat /\ m =< x /\ x =< y BY <1>1, <1>2, <3>1, <3>4, <3>7
      <3> QED BY <3>7, <3>8 DEF a, x
    <2>2. Weekday(t) \in w.days
      <3>1. Weekday(t) = Weekday(u) BY <2>1 DEF Weekday
      <3> QED BY <3>1 DEF Covers
    <2>3. y \in Nat BY <1>1, <1>2
    <2>4. m \in Nat BY <1>1, <1>4
    <2> DEFINE x == t % D
    <2>5. x \in Nat /\ m =< x /\ x =< y BY <2>1
    <2> HIDE DEF x, y
    <2>6. m \div T = w.from BY <1>1, <1>4, StartOfMinute
    <2>7. w.from =< x \div T
      <3> HIDE DEF m, T
      <3> QED BY <1>1, <2>4, <2>5, <2>6, EarlierMinute
    <2>8. x \div T =< y \div T
      <3> HIDE DEF T
      <3> QED BY <1>1, <2>3, <2>5, EarlierMinute
    <2>9. y \div T < w.to BY DEF Covers, MinuteOfDay, y
    <2>10. x \div T \in Nat /\ y \div T \in Nat
      <3> HIDE DEF T
      <3> QED BY <1>1, <2>3, <2>5, Decompose
    <2>11. x \div T < w.to BY <1>4, <2>8, <2>9, <2>10
    <2>12. Covers(w, t) BY <2>2, <2>7, <2>11 DEF Covers, MinuteOfDay, x
    <2> QED BY <2>12
  <1> HIDE DEF s
  <1> QED BY <1>6, <1>7, <1>8, <1>9

(* A proper window covers the instants at which it starts. *)
LEMMA StartIsCovered ==
  ASSUME NEW w \in Window, Proper(w), NEW s \in Nat,
         Weekday(s) \in w.days, s % TicksPerDay = w.from * TicksPerMinute
  PROVE  Covers(w, s)
  <1>1. w.from \in Nat /\ w.from # Nil /\ w.to # Nil BY CalendarAssumption DEF Proper, ClockTime, Nil
  <1>2. MinuteOfDay(s) = w.from BY <1>1, CalendarAssumption, StartOfMinute DEF MinuteOfDay
  <1> QED BY <1>1, <1>2 DEF Covers, Proper

(* The loop of ScheduleEndTime finds a window exactly when one covers now. *)
LEMMA FirstCoveringFound ==
  ASSUME NEW schedules \in Seq(Window), NEW t
  PROVE  (\E w \in Range(schedules) : Covers(w, t)) <=> FirstCovering(schedules, t) # {}
  <1> DEFINE hits == { i \in DOMAIN schedules : Covers(schedules[i], t) }
  <1>1. ASSUME NEW w \in Range(schedules), Covers(w, t) PROVE FirstCovering(schedules, t) # {}
    <2>1. DOMAIN schedules = 1 .. Len(schedules) /\ Len(schedules) \in Nat OBVIOUS
    <2>2. hits # {} /\ hits \subseteq Nat BY <1>1, <2>1 DEF Range
    <2>3. PICK i \in hits : \A j \in hits : i =< j BY <2>2, LeastNumber
    <2>4. ASSUME NEW j \in 1 .. i - 1 PROVE ~ Covers(schedules[j], t)
      <3>1. i \in 1 .. Len(schedules) BY <2>1
      <3>2. j \in DOMAIN schedules /\ ~ (i =< j) BY <2>1, <3>1
      <3> QED BY <2>3, <3>2
    <2> QED BY <2>4 DEF FirstCovering
  <1>2. ASSUME FirstCovering(schedules, t) # {} PROVE \E w \in Range(schedules) : Covers(w, t)
    BY <1>2 DEF FirstCovering, Range
  <1> QED BY <1>1, <1>2

-----------------------------------------------------------------------------
(***************************************************************************)
(* The walk: its record is a user's and its clock a natural, which is all  *)
(* the properties need, since they hold of every user at every instant.    *)
(***************************************************************************)
Walking == user \in User /\ clock \in Nat

LEMMA WalkInvariant == WalkSpec => []Walking
  <1>1. WalkInit => Walking
    <2> SUFFICES ASSUME WalkInit PROVE Walking
      OBVIOUS
    <2>1. Lists \subseteq Seq(Window) BY WalkAssumption DEF Lists
    <2> QED BY <2>1, WalkAssumption DEF WalkInit, Walking, User
  <1>2. Walking /\ [WalkNext]_walkVars => Walking'
    BY DEF Walking, WalkNext, WalkTick, WalkDone, walkVars
  <1> QED BY <1>1, <1>2, PTL DEF WalkSpec

(***************************************************************************)
(* The instant until which a lock holds is the first start of a window     *)
(* after now, and there is none only if no window ever starts again.       *)
(***************************************************************************)
THEOREM LockEndsAtFirstStart == WalkSpec => []NextStartIsFirstOpening
  <1>1. Walking => NextStartIsFirstOpening
    <2> SUFFICES ASSUME Walking PROVE NextStartIsFirstOpening
      OBVIOUS
    <2> DEFINE next == NextScheduleStart(user.schedules, clock, Zone)
    <2>1. user.schedules \in Seq(Window) /\ clock \in Nat /\ Zone \in Nat
      BY WalkAssumption DEF Walking, User
    <2>2. next # Nil => next \in Nat /\ next > clock /\ Opens(user.schedules, next, Zone)
      BY <2>1, NextStartOpens
    <2>3. \A s \in Nat : s > clock /\ Opens(user.schedules, s, Zone) => next # Nil /\ next =< s
      BY <2>1, NextStartFirst
    <2> HIDE DEF next
    <2>4. CASE next = Nil
      <3>1. Week \in Nat BY TicksPerDayType, CalendarAssumption DEF Week
      <3>2. \A t \in clock + 1 .. clock + Week : t \in Nat /\ t > clock BY <2>1, <3>1
      <3> QED BY <2>3, <2>4, <3>2 DEF NextStartIsFirstOpening, next
    <2>5. CASE next # Nil
      <3>1. \A t \in clock + 1 .. next - 1 : t \in Nat /\ t > clock /\ ~ (next =< t)
        BY <2>1, <2>2, <2>5
      <3> QED BY <2>2, <2>3, <2>5, <3>1 DEF NextStartIsFirstOpening, next
    <2> QED BY <2>4, <2>5
  <1> QED BY <1>1, WalkInvariant, PTL

(***************************************************************************)
(* From outside all windows, if they are proper, the schedule denies until *)
(* the end of a lock taken now, and admits there.                          *)
(***************************************************************************)
THEOREM LockEndAdmits == WalkSpec => []NextStartAdmits
  <1>1. Walking => NextStartAdmits
    <2> DEFINE schedules == user.schedules
               next == NextScheduleStart(schedules, clock, Zone)
    <2> SUFFICES ASSUME Walking,
                        \A w \in Range(schedules) : Proper(w),
                        ~ IsInSchedule(schedules, clock, Zone),
                        next # Nil
                 PROVE  /\ IsInSchedule(schedules, next, Zone)
                        /\ \A t \in clock .. next - 1 : ~ IsInSchedule(schedules, t, Zone)
      BY DEF NextStartAdmits
    <2>1. schedules \in Seq(Window) /\ clock \in Nat /\ Zone \in Nat
      BY WalkAssumption DEF Walking, User
    <2>2. next \in Nat /\ next > clock /\ Opens(schedules, next, Zone)
      BY <2>1, NextStartOpens
    <2>3. \A s \in Nat : s > clock /\ Opens(schedules, s, Zone) => next =< s
      BY <2>1, NextStartFirst
    <2>4. \A w \in Range(schedules) : w \in Window BY <2>1 DEF Range
    <2> HIDE DEF next, schedules
    <2>5. IsInSchedule(schedules, next, Zone)
      <3>1. PICK w \in Range(schedules) :
               Weekday(next + Zone) \in w.days /\ (next + Zone) % TicksPerDay = w.from * TicksPerMinute
        BY <2>2 DEF Opens
      <3>2. Covers(w, next + Zone) BY <2>1, <2>2, <2>4, <3>1, StartIsCovered
      <3> QED BY <3>2 DEF IsInSchedule
    <2>6. ASSUME NEW t \in clock .. next - 1, IsInSchedule(schedules, t, Zone) PROVE FALSE
      <3>1. t \in Nat /\ clock =< t /\ t < next BY <2>1, <2>2
      <3>2. PICK w \in Range(schedules) : Covers(w, t + Zone) BY <2>6 DEF IsInSchedule
      <3>3. ~ Covers(w, clock + Zone) BY DEF IsInSchedule
      <3>4. clock + Zone \in Nat /\ t + Zone \in Nat /\ clock + Zone =< t + Zone BY <2>1, <3>1
      <3>5. PICK s \in Nat : /\ clock + Zone < s /\ s =< t + Zone
                             /\ Weekday(s) \in w.days /\ s % TicksPerDay = w.from * TicksPerMinute
        BY <2>4, <3>2, <3>3, <3>4, StartsBetween
      <3>6. s - Zone \in Nat /\ s - Zone > clock /\ s - Zone =< t /\ (s - Zone) + Zone = s
        BY <2>1, <3>1, <3>5
      <3>7. w.from # Nil BY <3>2 DEF Covers
      <3>8. Opens(schedules, s - Zone, Zone) BY <3>5, <3>6, <3>7 DEF Opens
      <3>9. next =< s - Zone BY <2>3, <3>6, <3>8
      <3> QED BY <2>2, <3>1, <3>6, <3>9
    <2> QED BY <2>5, <2>6
  <1> QED BY <1>1, WalkInvariant, PTL

(***************************************************************************)
(* The instant a bonus is counted from exists exactly while the schedule   *)
(* admits the user, and the schedule admits the user up to it.             *)
(***************************************************************************)
THEOREM ScheduleEndIsReached == WalkSpec => []EndTimeIsReached
  <1>1. Walking => EndTimeIsReached
    <2> SUFFICES ASSUME Walking PROVE EndTimeIsReached
      OBVIOUS
    <2> DEFINE schedules == user.schedules
               end == ScheduleEndTime(schedules, clock, Zone)
               at == clock + Zone
               hits == FirstCovering(schedules, at)
               first == CHOOSE i \in hits : TRUE
               w == schedules[first]
    <2>1. schedules \in Seq(Window) /\ clock \in Nat /\ Zone \in Nat
      BY WalkAssumption DEF Walking, User
    <2>2. hits # {} <=> IsInSchedule(schedules, clock, Zone)
      BY <2>1, FirstCoveringFound DEF IsInSchedule
    <2>3. end # Nil => end \in Nat /\ end > clock BY <2>1, EndTimeLater
    <2>4. at \in Nat BY <2>1
    <2>5. CASE hits = {}
      <3>1. end = Nil BY <2>5 DEF ScheduleEndTime
      <3> QED BY <2>2, <2>5, <3>1 DEF EndTimeIsReached
    <2>6. CASE hits # {}
      <3> DEFINE limit == Midnight(at) + w.to * TicksPerMinute
      <3>1. end = Midnight(at) + w.to * TicksPerMinute - Zone BY <2>6 DEF ScheduleEndTime
      <3>2. first \in DOMAIN schedules /\ Covers(w, at) BY <2>6 DEF FirstCovering
      <3> HIDE DEF first
      <3>3. w \in Window /\ w \in Range(schedules)
        <4> HIDE DEF schedules
        <4> QED BY <2>1, <3>2 DEF Range
      <3>4. w.to \in Nat /\ w.to > MinuteOfDay(at)
        <4>1. w.to \in ClockTime BY <3>2, <3>3 DEF Covers, Window
        <4> QED BY <3>2, <4>1, WithinDay DEF Covers
      <3>5. limit \in Nat /\ end = limit - Zone
        <4>1. TicksPerDay \in Nat \ {0} BY TicksPerDayType
        <4>2. at \div TicksPerDay \in Nat BY <2>4, <4>1, Decompose
        <4>3. Midnight(at) \in Nat BY <4>1, <4>2 DEF Midnight
        <4>4. w.to * TicksPerMinute \in Nat BY <3>4, CalendarAssumption
        <4> HIDE DEF w, end
        <4> QED BY <2>1, <3>1, <4>3, <4>4
      <3>6. end # Nil
        <4>1. limit > at
          <5> DEFINE D == TicksPerDay
                     a == at \div D
                     x == at % D
          <5>1. D \in Nat \ {0} BY TicksPerDayType
          <5>2. at = a * D + x /\ x \in 0 .. D - 1 /\ a \in Nat BY <2>4, <5>1, Decompose
          <5>3. w.to > x \div TicksPerMinute BY <3>4 DEF MinuteOfDay
          <5>4. x \in Nat BY <5>1, <5>2
          <5> HIDE DEF D, x
          <5>5. w.to * TicksPerMinute > x BY <3>4, <5>3, <5>4, CalendarAssumption, LaterMinute
          <5>6. limit = a * D + w.to * TicksPerMinute BY DEF Midnight, D
          <5>7. a * D \in Nat /\ w.to * TicksPerMinute \in Nat BY <3>4, <5>1, <5>2, CalendarAssumption
          <5> HIDE DEF a, limit, at
          <5> QED BY <5>2, <5>4, <5>5, <5>6, <5>7
        <4> HIDE DEF limit, end
        <4> QED BY <2>1, <3>5, <4>1 DEF Nil
      <3>7. ASSUME NEW t \in clock .. end - 1 PROVE IsInSchedule(schedules, t, Zone)
        <4> HIDE DEF limit, end
        <4>1. t \in Nat /\ clock =< t /\ t < end BY <2>1, <2>3, <3>6
        <4>2. t + Zone \in Nat /\ at =< t + Zone /\ t + Zone < limit BY <2>1, <3>5, <4>1
        <4>3. Covers(w, t + Zone) BY <2>4, <3>2, <3>3, <4>2, CoversOn DEF limit
        <4> QED BY <3>3, <4>3 DEF IsInSchedule
      <3> QED BY <2>2, <2>3, <2>6, <3>6, <3>7 DEF EndTimeIsReached
    <2> QED BY <2>5, <2>6
  <1> QED BY <1>1, WalkInvariant, PTL

(***************************************************************************)
(* The state shown for a user is one of access exactly when the rules the  *)
(* daemon enforces allow the user.                                         *)
(***************************************************************************)
THEOREM ShownIsEnforced == WalkSpec => []StateShownIsStateEnforced
  <1>1. StateShownIsStateEnforced
    <2> DEFINE config == [u |-> user, v |-> ZeroUser]
    <2>1. "u" \in DOMAIN config /\ config["u"] = user OBVIOUS
    <2> HIDE DEF config
    <2>2. IsAllowed("u", config, clock, Zone)
            <=> /\ ~ Before(clock, user.lockedUntil)
                /\ \/ Before(clock, user.bonusUntil)
                   \/ user.schedules = << >>
                   \/ IsInSchedule(user.schedules, clock, Zone)
      BY <2>1 DEF IsAllowed
    <2> QED BY <2>2 DEF StateShownIsStateEnforced, UserState, config
  <1> QED BY <1>1, PTL

-----------------------------------------------------------------------------
(***************************************************************************)
(* The invariant of the store.  LockKept and BonusKept are not inductive:  *)
(* they speak of the memory only, and a restart replaces it by the file.   *)
(* The invariant says of both what a grant needs, and accounts for the     *)
(* deadlines that an update cleans.                                        *)
(***************************************************************************)
OpenedBy(lock, t) == \E s \in lock.at + 1 .. t : Opens(lock.schedules, s, ServerZone)

(***************************************************************************)
(* The end of a lock: a start of a window, or none; and the first one.     *)
(* Both are as the server's clock shows the windows.                       *)
(***************************************************************************)
LockEndOf(lock, end) ==
  /\ end = Forever \/ (end > lock.at /\ Opens(lock.schedules, end, ServerZone))
  /\ \A s \in Nat : lock.at < s /\ s < end => ~ Opens(lock.schedules, s, ServerZone)

(* What config c keeps at time t of the grants lock and bonus of user u. *)
LockHeld(c, u, lock, t) ==
  lock # NoLock =>
    /\ u \in DOMAIN c
    /\ IF c[u].lockedUntil = Nil THEN OpenedBy(lock, t) ELSE LockEndOf(lock, c[u].lockedUntil)

BonusHeld(c, u, lock, bonus, t) ==
  bonus # Nil /\ t =< bonus =>
    /\ u \in DOMAIN c
    /\ c[u].bonusUntil # Nil /\ c[u].bonusUntil >= bonus
    /\ lock = NoLock => c[u].lockedUntil = Nil

Held(c, u, lock, bonus, t) == LockHeld(c, u, lock, t) /\ BonusHeld(c, u, lock, bonus, t)

GrantsHeld ==
  \A u \in Users : /\ Held(cfg,  u, lockGranted[u], bonusGranted[u], now)
                   /\ Held(disk, u, lockGranted[u], bonusGranted[u], now)

PendingAt == \A h \in Handlers : pending[h] # Idle => pending[h].at =< now

IInv == TypeOK /\ PendingAt /\ GrantsHeld

-----------------------------------------------------------------------------
(* Types of the operators the actions are built from. *)

LEMMA ZeroUserType == ZeroUser \in User
  BY DEF ZeroUser, User, Nil

LEMMA UserOfType ==
  ASSUME IsConfig(cfg), NEW u \in Users
  PROVE  UserOf(u) \in User
  BY ZeroUserType DEF IsConfig, UserOf

LEMMA PutType ==
  ASSUME IsConfig(cfg), NEW u \in Users, NEW record \in User
  PROVE  /\ IsConfig(Put(u, record))
         /\ Put(u, record)[u] = record /\ u \in DOMAIN Put(u, record)
         /\ \A v \in DOMAIN cfg \ {u} : v \in DOMAIN Put(u, record) /\ Put(u, record)[v] = cfg[v]
  BY DEF IsConfig, Put

LEMMA CleanupType ==
  ASSUME NEW config, IsConfig(config)
  PROVE  IsConfig(CleanupExpired(config))
  <1>1. \A record \in User : Expire(record) \in User
    BY DEF Expire, User, Nil
  <1> QED BY <1>1 DEF IsConfig, CleanupExpired

LEMMA UpdateType ==
  ASSUME TypeOK, NEW config, IsConfig(config), Update(config)
  PROVE  IsConfig(cfg') /\ IsConfig(disk') /\ reply' \in {"ok", "failed"}
  <1>1. cfg' = CleanupExpired(config) BY DEF Update
  <1>2. IsConfig(cfg') BY <1>1, CleanupType
  <1> QED BY <1>2 DEF TypeOK, Update, IsConfig

LEMMA RemoveAtType ==
  ASSUME NEW s \in Seq(Window), NEW i \in DOMAIN s
  PROVE  RemoveAt(s, i) \in Seq(Window)
  BY DEF RemoveAt

LEMMA LockEndType ==
  ASSUME IsConfig(cfg), NEW u \in Users, NEW at \in Nat
  PROVE  LockEnd(u, at) \in Nat
  <1> DEFINE next == NextScheduleStart(UserOf(u).schedules, at, ServerZone)
  <1>1. UserOf(u).schedules \in Seq(Window) BY UserOfType DEF User
  <1>2. next # Nil => next \in Nat BY <1>1, NextStartOpens, StoreAssumption
  <1> QED BY <1>2, StoreAssumption DEF LockEnd

LEMMA BonusEndType ==
  ASSUME IsConfig(cfg), NEW u \in Users, NEW at \in Nat, NEW m \in BonusMinutes
  PROVE  /\ BonusEnd(u, at, m) \in Nat
         /\ BonusEnd(u, at, m) >= at + m * TicksPerMinute
         /\ Before(at, UserOf(u).bonusUntil)
              => BonusEnd(u, at, m) = UserOf(u).bonusUntil + m * TicksPerMinute
  <1> DEFINE end == ScheduleEndTime(UserOf(u).schedules, at, ServerZone)
             until == UserOf(u).bonusUntil
             base == IF Before(at, until) THEN until ELSE IF end # Nil THEN end ELSE at
  <1>1. UserOf(u).schedules \in Seq(Window) /\ until \in Nat \cup {Nil}
    BY UserOfType DEF User, Instant
  <1>2. end # Nil => end \in Nat /\ end > at
    BY <1>1, EndTimeLater, StoreAssumption
  <1>3. base \in Nat /\ base >= at
    <2> HIDE DEF end, until
    <2> QED BY <1>1, <1>2 DEF Before, Nil
  <1>4. m * TicksPerMinute \in Nat BY StoreAssumption, CalendarAssumption
  <1>5. BonusEnd(u, at, m) = base + m * TicksPerMinute BY DEF BonusEnd
  <1> HIDE DEF base
  <1>6. BonusEnd(u, at, m) \in Nat /\ BonusEnd(u, at, m) >= at + m * TicksPerMinute
    BY <1>3, <1>4, <1>5
  <1> QED BY <1>5, <1>6 DEF base

-----------------------------------------------------------------------------
(***************************************************************************)
(* Cleaning, reading a later clock and changing something else than the    *)
(* deadlines all keep what a grant needs.                                  *)
(***************************************************************************)
LEMMA CleanupKeeps ==
  ASSUME TypeOK, NEW config, IsConfig(config), NEW u \in Users,
         NEW lock \in Locks, NEW bonus \in Instant \cup {Nil},
         Held(config, u, lock, bonus, now)
  PROVE  Held(CleanupExpired(config), u, lock, bonus, now)
  <1> DEFINE clean == CleanupExpired(config)
  <1>1. now \in Nat /\ now < Forever
    BY StoreAssumption DEF TypeOK
  <1>2. DOMAIN clean = DOMAIN config /\ \A v \in DOMAIN config : clean[v] = Expire(config[v])
    BY DEF CleanupExpired
  <1>3. ASSUME u \in DOMAIN config
        PROVE  /\ config[u] \in User
               /\ clean[u].lockedUntil = IF config[u].lockedUntil # Nil /\ now > config[u].lockedUntil
                                         THEN Nil ELSE config[u].lockedUntil
               /\ clean[u].bonusUntil = IF config[u].bonusUntil # Nil /\ now > config[u].bonusUntil
                                        THEN Nil ELSE config[u].bonusUntil
    <2>1. config[u] \in User BY <1>3 DEF IsConfig
    <2> QED BY <1>2, <1>3, <2>1 DEF Expire, User
  <1> HIDE DEF clean
  <1>4. LockHeld(clean, u, lock, now)
    <2> SUFFICES ASSUME lock # NoLock
                 PROVE  /\ u \in DOMAIN clean
                        /\ IF clean[u].lockedUntil = Nil THEN OpenedBy(lock, now)
                           ELSE LockEndOf(lock, clean[u].lockedUntil)
      BY DEF LockHeld
    <2>1. u \in DOMAIN config BY DEF Held, LockHeld
    <2>2. CASE clean[u].lockedUntil = config[u].lockedUntil
      BY <1>2, <2>1, <2>2 DEF Held, LockHeld
    <2>3. CASE clean[u].lockedUntil # config[u].lockedUntil
      <3> DEFINE end == config[u].lockedUntil
      <3>1. end # Nil /\ now > end /\ clean[u].lockedUntil = Nil BY <1>3, <2>1, <2>3
      <3>2. end \in Nat BY <1>3, <2>1, <3>1 DEF User, Instant
      <3>3. LockEndOf(lock, end) BY <3>1 DEF Held, LockHeld
      <3>4. end # Forever BY <1>1, <3>1, <3>2, StoreAssumption
      <3>5. lock.at \in Nat BY DEF Locks
      <3> HIDE DEF end
      <3>6. end \in lock.at + 1 .. now BY <1>1, <3>1, <3>2, <3>3, <3>4, <3>5 DEF LockEndOf
      <3>7. OpenedBy(lock, now) BY <3>3, <3>4, <3>6 DEF OpenedBy, LockEndOf
      <3> QED BY <1>2, <2>1, <3>1, <3>7
    <2> QED BY <2>2, <2>3
  <1>5. BonusHeld(clean, u, lock, bonus, now)
    <2> SUFFICES ASSUME bonus # Nil, now =< bonus
                 PROVE  /\ u \in DOMAIN clean
                        /\ clean[u].bonusUntil # Nil /\ clean[u].bonusUntil >= bonus
                        /\ lock = NoLock => clean[u].lockedUntil = Nil
      BY DEF BonusHeld
    <2>1. /\ u \in DOMAIN config
          /\ config[u].bonusUntil # Nil /\ config[u].bonusUntil >= bonus
          /\ lock = NoLock => config[u].lockedUntil = Nil
      BY DEF Held, BonusHeld
    <2>2. config[u].bonusUntil \in Nat /\ bonus \in Nat
      BY <1>3, <2>1 DEF User, Instant
    <2>3. clean[u].bonusUntil = config[u].bonusUntil
      BY <1>1, <1>3, <2>1, <2>2
    <2> QED BY <1>2, <1>3, <2>1, <2>3
  <1> QED BY <1>4, <1>5 DEF Held, clean

LEMMA SameDeadlines ==
  ASSUME NEW c, NEW d, NEW u \in Users, NEW lock, NEW bonus, NEW t,
         Held(c, u, lock, bonus, t),
         u \in DOMAIN c => /\ u \in DOMAIN d
                           /\ d[u].lockedUntil = c[u].lockedUntil
                           /\ d[u].bonusUntil = c[u].bonusUntil
  PROVE  Held(d, u, lock, bonus, t)
  BY DEF Held, LockHeld, BonusHeld

LEMMA LaterClock ==
  ASSUME NEW c, NEW u \in Users, NEW lock \in Locks, NEW bonus \in Instant \cup {Nil},
         NEW t \in Nat, Held(c, u, lock, bonus, t)
  PROVE  Held(c, u, lock, bonus, t + 1)
  <1>1. OpenedBy(lock, t) /\ lock # NoLock => OpenedBy(lock, t + 1)
    <2> SUFFICES ASSUME OpenedBy(lock, t), lock # NoLock PROVE OpenedBy(lock, t + 1)
      OBVIOUS
    <2>1. lock.at \in Nat BY DEF Locks
    <2>2. lock.at + 1 .. t \subseteq lock.at + 1 .. t + 1 BY <2>1
    <2> QED BY <2>2 DEF OpenedBy
  <1>2. bonus # Nil /\ t + 1 =< bonus => t =< bonus BY DEF Instant
  <1> QED BY <1>1, <1>2 DEF Held, LockHeld, BonusHeld

-----------------------------------------------------------------------------
(***************************************************************************)
(* An update that changes no deadline, and one that answers a request about*)
(* user u and changes the deadlines of u only.                             *)
(***************************************************************************)
LEMMA EditStep ==
  ASSUME TypeOK, GrantsHeld, NEW config, IsConfig(config), Update(config),
         UNCHANGED << now, history >>,
         \A v \in DOMAIN cfg : /\ v \in DOMAIN config
                               /\ config[v].lockedUntil = cfg[v].lockedUntil
                               /\ config[v].bonusUntil = cfg[v].bonusUntil
  PROVE  GrantsHeld'
  <1> SUFFICES ASSUME NEW v \in Users
               PROVE  /\ Held(cfg',  v, lockGranted[v], bonusGranted[v], now)
                      /\ Held(disk', v, lockGranted[v], bonusGranted[v], now)
    BY DEF GrantsHeld, history
  <1>1. lockGranted[v] \in Locks /\ bonusGranted[v] \in Instant \cup {Nil} BY DEF TypeOK
  <1>2. Held(config, v, lockGranted[v], bonusGranted[v], now)
    BY SameDeadlines DEF GrantsHeld
  <1>3. cfg' = CleanupExpired(config) BY DEF Update
  <1>4. Held(cfg', v, lockGranted[v], bonusGranted[v], now) BY <1>1, <1>2, <1>3, CleanupKeeps
  <1> QED BY <1>4 DEF Update, GrantsHeld

LEMMA GrantStep ==
  ASSUME TypeOK, GrantsHeld, NEW config, IsConfig(config), Update(config),
         NEW u \in Users, NEW lock \in Locks, NEW bonus \in Instant \cup {Nil},
         Grant(u, lock, bonus), now' = now,
         Held(config, u, lock, bonus, now),
         \A v \in DOMAIN cfg \ {u} : v \in DOMAIN config /\ config[v] = cfg[v]
  PROVE  GrantsHeld'
  <1>1. lockGranted \in [Users -> Locks] /\ bonusGranted \in [Users -> Instant \cup {Nil}]
    BY DEF TypeOK
  <1>2. cfg' = CleanupExpired(config) BY DEF Update
  <1> SUFFICES ASSUME NEW v \in Users
               PROVE  /\ Held(cfg',  v, lockGranted'[v], bonusGranted'[v], now)
                      /\ Held(disk', v, lockGranted'[v], bonusGranted'[v], now)
    BY DEF GrantsHeld
  <1>3. CASE v # u
    <2>1. lockGranted'[v] = lockGranted[v] /\ bonusGranted'[v] = bonusGranted[v]
      BY <1>1, <1>3 DEF Grant
    <2>2. Held(config, v, lockGranted[v], bonusGranted[v], now)
      BY <1>3, SameDeadlines DEF GrantsHeld
    <2>3. Held(cfg', v, lockGranted[v], bonusGranted[v], now) BY <1>1, <1>2, <2>2, CleanupKeeps
    <2> QED BY <2>1, <2>3 DEF Update, GrantsHeld
  <1>4. CASE v = u /\ reply' = "ok"
    <2>1. lockGranted'[u] = lock /\ bonusGranted'[u] = bonus BY <1>1, <1>4 DEF Grant
    <2>2. Held(cfg', u, lock, bonus, now) BY <1>2, CleanupKeeps
    <2>3. disk' = cfg' BY <1>4 DEF Update
    <2> QED BY <1>4, <2>1, <2>2, <2>3
  <1>5. CASE v = u /\ reply' # "ok"
    <2>1. lockGranted'[u] = NoLock /\ bonusGranted'[u] = Nil BY <1>1, <1>5 DEF Grant
    <2> QED BY <1>5, <2>1 DEF Held, LockHeld, BonusHeld
  <1> QED BY <1>3, <1>4, <1>5

LEMMA GrantType ==
  ASSUME TypeOK, NEW u \in Users, NEW lock \in Locks, NEW bonus \in Instant \cup {Nil},
         Grant(u, lock, bonus)
  PROVE  lockGranted' \in [Users -> Locks] /\ bonusGranted' \in [Users -> Instant \cup {Nil}]
  BY DEF TypeOK, Grant, Locks

-----------------------------------------------------------------------------
(* The invariant, action by action. *)

LEMMA InitIInv == Init => IInv
  BY StoreAssumption
  DEF Init, IInv, TypeOK, IsConfig, PendingAt, GrantsHeld, Held, LockHeld, BonusHeld,
      Requests, Locks

LEMMA EditKeepsIInv ==
  ASSUME IInv, NEW config, IsConfig(config), Update(config),
         UNCHANGED << now, pending, history >>,
         \A v \in DOMAIN cfg : /\ v \in DOMAIN config
                               /\ config[v].lockedUntil = cfg[v].lockedUntil
                               /\ config[v].bonusUntil = cfg[v].bonusUntil
  PROVE  IInv'
  <1>1. TypeOK' BY UpdateType DEF IInv, TypeOK, IsConfig, history
  <1>2. PendingAt' BY DEF IInv, PendingAt
  <1>3. GrantsHeld' BY EditStep DEF IInv, history
  <1> QED BY <1>1, <1>2, <1>3 DEF IInv

LEMMA GrantKeepsIInv ==
  ASSUME IInv, NEW config, IsConfig(config), Update(config),
         NEW u \in Users, NEW lock \in Locks, NEW bonus \in Instant \cup {Nil},
         Grant(u, lock, bonus), now' = now,
         pending' \in [Handlers -> Requests],
         \A h \in Handlers : pending'[h] \in {Idle, pending[h]},
         Held(config, u, lock, bonus, now),
         \A v \in DOMAIN cfg \ {u} : v \in DOMAIN config /\ config[v] = cfg[v]
  PROVE  IInv'
  <1>1. TypeOK' BY UpdateType, GrantType DEF IInv, TypeOK, IsConfig
  <1>2. PendingAt' BY DEF IInv, PendingAt
  <1>3. GrantsHeld' BY GrantStep DEF IInv
  <1> QED BY <1>1, <1>2, <1>3 DEF IInv

LEMMA AddUserStep ==
  ASSUME IInv, NEW u \in Users, AddUser(u)
  PROVE  IInv'
  <1> DEFINE config == Put(u, UserOf(u))
  <1>1. UserOf(u) \in User BY UserOfType DEF IInv, TypeOK
  <1>2. /\ IsConfig(config)
        /\ \A v \in DOMAIN cfg : v \in DOMAIN config /\ config[v] = cfg[v]
    BY <1>1, PutType DEF IInv, TypeOK, UserOf
  <1> HIDE DEF config
  <1> QED BY <1>2, EditKeepsIInv DEF AddUser, config

LEMMA ScheduleEdit ==
  ASSUME IInv, NEW u \in Users, NEW schedules \in Seq(Window),
         Update(Put(u, [UserOf(u) EXCEPT !.schedules = schedules])),
         UNCHANGED << now, pending, history >>
  PROVE  IInv'
  <1> DEFINE record == [UserOf(u) EXCEPT !.schedules = schedules]
             config == Put(u, record)
  <1>1. UserOf(u) \in User BY UserOfType DEF IInv, TypeOK
  <1>2. /\ record \in User
        /\ record.lockedUntil = UserOf(u).lockedUntil
        /\ record.bonusUntil = UserOf(u).bonusUntil
    BY <1>1 DEF User
  <1> HIDE DEF record
  <1>3. /\ IsConfig(config)
        /\ config[u] = record /\ u \in DOMAIN config
        /\ \A v \in DOMAIN cfg \ {u} : v \in DOMAIN config /\ config[v] = cfg[v]
    BY <1>2, PutType DEF IInv, TypeOK
  <1>4. \A v \in DOMAIN cfg : /\ v \in DOMAIN config
                              /\ config[v].lockedUntil = cfg[v].lockedUntil
                              /\ config[v].bonusUntil = cfg[v].bonusUntil
    BY <1>2, <1>3 DEF UserOf
  <1> HIDE DEF config
  <1> QED BY <1>3, <1>4, EditKeepsIInv DEF config, record

LEMMA AddScheduleStep ==
  ASSUME IInv, NEW u \in Users, NEW w \in Windows, AddSchedule(u, w)
  PROVE  IInv'
  <1>1. UserOf(u) \in User BY UserOfType DEF IInv, TypeOK
  <1>2. Append(UserOf(u).schedules, w) \in Seq(Window) BY <1>1, StoreAssumption DEF User
  <1> QED BY <1>2, ScheduleEdit DEF AddSchedule

LEMMA DeleteScheduleStep ==
  ASSUME IInv, NEW u \in Users, NEW i \in 1 .. MaxSchedules, DeleteSchedule(u, i)
  PROVE  IInv'
  <1>1. CASE i \in DOMAIN UserOf(u).schedules
    <2>1. UserOf(u) \in User BY UserOfType DEF IInv, TypeOK
    <2>2. RemoveAt(UserOf(u).schedules, i) \in Seq(Window) BY <1>1, <2>1, RemoveAtType DEF User
    <2> QED BY <1>1, <2>2, ScheduleEdit DEF DeleteSchedule
  <1>2. CASE i \notin DOMAIN UserOf(u).schedules
    <2>1. IsConfig(cfg) BY DEF IInv, TypeOK
    <2> QED BY <1>2, <2>1, EditKeepsIInv DEF DeleteSchedule
  <1> QED BY <1>1, <1>2

LEMMA DeleteUserStep ==
  ASSUME IInv, NEW u \in Users, DeleteUser(u)
  PROVE  IInv'
  <1> DEFINE config == [v \in DOMAIN cfg \ {u} |-> cfg[v]]
  <1>1. IsConfig(config) BY DEF IInv, TypeOK, IsConfig
  <1>2. Held(config, u, NoLock, Nil, now) BY DEF Held, LockHeld, BonusHeld
  <1>3. \A v \in DOMAIN cfg \ {u} : v \in DOMAIN config /\ config[v] = cfg[v] OBVIOUS
  <1>4. NoLock \in Locks BY DEF Locks
  <1>5. pending' \in [Handlers -> Requests] /\ \A h \in Handlers : pending'[h] \in {Idle, pending[h]}
    BY DEF DeleteUser, IInv, TypeOK
  <1>6. Update(config) /\ Grant(u, NoLock, Nil) /\ now' = now BY DEF DeleteUser
  <1> HIDE DEF config
  <1> QED BY <1>1, <1>2, <1>3, <1>4, <1>5, <1>6, GrantKeepsIInv

LEMMA UnlockUserStep ==
  ASSUME IInv, NEW u \in Users, UnlockUser(u)
  PROVE  IInv'
  <1> DEFINE record == [UserOf(u) EXCEPT !.lockedUntil = Nil]
             config == Put(u, record)
  <1>1. UserOf(u) \in User BY UserOfType DEF IInv, TypeOK
  <1>2. record \in User /\ record.lockedUntil = Nil /\ record.bonusUntil = UserOf(u).bonusUntil
    BY <1>1 DEF User
  <1> HIDE DEF record
  <1>3. /\ IsConfig(config)
        /\ config[u] = record /\ u \in DOMAIN config
        /\ \A v \in DOMAIN cfg \ {u} : v \in DOMAIN config /\ config[v] = cfg[v]
    BY <1>2, PutType DEF IInv, TypeOK
  <1>4. Held(config, u, NoLock, bonusGranted[u], now)
    BY <1>2, <1>3 DEF IInv, GrantsHeld, Held, LockHeld, BonusHeld, UserOf
  <1>5. NoLock \in Locks /\ bonusGranted[u] \in Instant \cup {Nil} BY DEF Locks, IInv, TypeOK
  <1>6. pending' \in [Handlers -> Requests] /\ \A h \in Handlers : pending'[h] \in {Idle, pending[h]}
    BY DEF UnlockUser, IInv, TypeOK
  <1>7. Update(config) /\ Grant(u, NoLock, bonusGranted[u]) /\ now' = now
    BY DEF UnlockUser, record
  <1> HIDE DEF config
  <1> QED BY <1>3, <1>4, <1>5, <1>6, <1>7, GrantKeepsIInv

LEMMA ReceiveLockStep ==
  ASSUME IInv, NEW h \in Handlers, NEW u \in Users, ReceiveLock(h, u)
  PROVE  IInv'
  <1> DEFINE r == [op |-> "lock", user |-> u, at |-> now]
  <1>1. now \in Nat BY DEF IInv, TypeOK
  <1>2. r \in Requests BY <1>1 DEF Requests
  <1>3. TypeOK' BY <1>2 DEF IInv, TypeOK, ReceiveLock, history, IsConfig
  <1>4. PendingAt'
    BY <1>1 DEF IInv, TypeOK, PendingAt, ReceiveLock
  <1>5. GrantsHeld' BY DEF IInv, GrantsHeld, ReceiveLock, history
  <1> QED BY <1>3, <1>4, <1>5 DEF IInv

LEMMA ReceiveBonusStep ==
  ASSUME IInv, NEW h \in Handlers, NEW u \in Users, NEW m \in BonusMinutes, ReceiveBonus(h, u, m)
  PROVE  IInv'
  <1> DEFINE r == [op |-> "bonus", user |-> u, at |-> now, minutes |-> m]
  <1>1. now \in Nat BY DEF IInv, TypeOK
  <1>2. r \in Requests BY <1>1 DEF Requests
  <1>3. TypeOK' BY <1>2 DEF IInv, TypeOK, ReceiveBonus, history, IsConfig
  <1>4. PendingAt'
    BY <1>1 DEF IInv, TypeOK, PendingAt, ReceiveBonus
  <1>5. GrantsHeld' BY DEF IInv, GrantsHeld, ReceiveBonus, history
  <1> QED BY <1>3, <1>4, <1>5 DEF IInv

(* The lock ends at the next start of a window. *)
LEMMA LockUserStep ==
  ASSUME IInv, NEW h \in Handlers, LockUser(h)
  PROVE  IInv'
  <1> DEFINE r == pending[h]
             u == r.user
             end == LockEnd(u, r.at)
             record == [UserOf(u) EXCEPT !.lockedUntil = end]
             config == Put(u, record)
             lock == [at |-> r.at, schedules |-> UserOf(u).schedules]
  <1>1. u \in Users /\ r.at \in Nat /\ pending \in [Handlers -> Requests]
    BY DEF LockUser, IInv, TypeOK, Requests, Idle
  <1>2. UserOf(u) \in User /\ UserOf(u).schedules \in Seq(Window)
    BY <1>1, UserOfType DEF IInv, TypeOK, User
  <1>3. end \in Nat BY <1>1, LockEndType DEF IInv, TypeOK
  <1>4. lock \in Locks /\ lock # NoLock
    BY <1>1, <1>2 DEF Locks, NoLock, Nil
  <1>5. LockEndOf(lock, end)
    <2> DEFINE next == NextScheduleStart(UserOf(u).schedules, r.at, ServerZone)
    <2>1. next # Nil => next \in Nat /\ next > r.at /\ Opens(UserOf(u).schedules, next, ServerZone)
      BY <1>1, <1>2, NextStartOpens, StoreAssumption
    <2>2. \A s \in Nat : s > r.at /\ Opens(UserOf(u).schedules, s, ServerZone)
                          => next # Nil /\ next =< s
      BY <1>1, <1>2, NextStartFirst, StoreAssumption
    <2> HIDE DEF next
    <2>3. ASSUME NEW s \in Nat, lock.at < s, s < end PROVE ~ Opens(lock.schedules, s, ServerZone)
      <3> SUFFICES ASSUME Opens(lock.schedules, s, ServerZone) PROVE FALSE
        OBVIOUS
      <3>1. next # Nil /\ next =< s BY <1>1, <2>2, <2>3
      <3>2. end = next BY <3>1 DEF LockEnd, next
      <3> QED BY <2>1, <2>3, <3>1, <3>2
    <2> QED BY <2>1, <2>3 DEF LockEndOf, LockEnd, next
  <1> HIDE DEF end
  <1>6. record \in User /\ record.lockedUntil = end /\ record.bonusUntil = UserOf(u).bonusUntil
    BY <1>2, <1>3 DEF User, Instant
  <1>7. end # Nil BY <1>3 DEF Nil
  <1>8. pending' \in [Handlers -> Requests] /\ \A g \in Handlers : pending'[g] \in {Idle, pending[g]}
    BY <1>1 DEF LockUser, Requests
  <1>9. bonusGranted[u] \in Instant \cup {Nil} BY <1>1 DEF IInv, TypeOK
  <1>10. Update(config) /\ Grant(u, lock, bonusGranted[u]) /\ now' = now
    BY DEF LockUser, end
  <1> HIDE DEF record, r
  <1>11. /\ IsConfig(config)
         /\ config[u] = record /\ u \in DOMAIN config
         /\ \A v \in DOMAIN cfg \ {u} : v \in DOMAIN config /\ config[v] = cfg[v]
    BY <1>1, <1>6, PutType DEF IInv, TypeOK
  <1> HIDE DEF config, lock
  <1>12. LockHeld(config, u, lock, now) BY <1>5, <1>6, <1>7, <1>11 DEF LockHeld
  <1>13. BonusHeld(config, u, lock, bonusGranted[u], now)
    BY <1>1, <1>4, <1>6, <1>11 DEF IInv, GrantsHeld, Held, BonusHeld, UserOf
  <1> HIDE DEF u
  <1> QED BY <1>1, <1>4, <1>8, <1>9, <1>10, <1>11, <1>12, <1>13, GrantKeepsIInv DEF Held

(* The end of the bonus is at least what the admin may count on. *)
LEMMA AddBonusStep ==
  ASSUME IInv, NEW h \in Handlers, AddBonus(h)
  PROVE  IInv'
  <1> DEFINE r == pending[h]
             u == r.user
             extra == r.minutes * TicksPerMinute
             end == BonusEnd(u, r.at, r.minutes)
             old == bonusGranted[u]
             bonus == (IF now =< old THEN old ELSE r.at) + extra
             record == [UserOf(u) EXCEPT !.lockedUntil = Nil, !.bonusUntil = end]
             config == Put(u, record)
  <1>1. /\ u \in Users /\ r.at \in Nat /\ r.minutes \in BonusMinutes
        /\ pending \in [Handlers -> Requests] /\ r # Idle
    BY DEF AddBonus, IInv, TypeOK, Requests, Idle
  <1>2. r.at =< now /\ now \in Nat BY <1>1 DEF IInv, TypeOK, PendingAt
  <1>3. UserOf(u) \in User BY <1>1, UserOfType DEF IInv, TypeOK
  <1>4. extra \in Nat
    <2>1. r.minutes \in Nat BY <1>1, StoreAssumption
    <2> HIDE DEF r
    <2> QED BY <2>1, CalendarAssumption
  <1>5. /\ end \in Nat /\ end >= r.at + extra
        /\ Before(r.at, UserOf(u).bonusUntil) => end = UserOf(u).bonusUntil + extra
    BY <1>1, BonusEndType DEF IInv, TypeOK
  <1>6. old \in Nat \cup {Nil} BY <1>1 DEF IInv, TypeOK, Instant
  <1>7. pending' \in [Handlers -> Requests] /\ \A g \in Handlers : pending'[g] \in {Idle, pending[g]}
    BY <1>1 DEF AddBonus, Requests
  <1>8. Update(config) /\ Grant(u, NoLock, bonus) /\ now' = now
    BY DEF AddBonus
  <1> HIDE DEF end, extra
  <1>9. record \in User /\ record.lockedUntil = Nil /\ record.bonusUntil = end
    BY <1>3, <1>5 DEF User, Instant
  <1>10. bonus \in Nat /\ end >= bonus
    <2>1. CASE old # Nil /\ now =< old
      <3>1. u \in DOMAIN cfg /\ cfg[u].bonusUntil # Nil /\ cfg[u].bonusUntil >= old
        BY <1>1, <2>1 DEF IInv, GrantsHeld, Held, BonusHeld
      <3>2. UserOf(u).bonusUntil = cfg[u].bonusUntil BY <3>1 DEF UserOf
      <3>3. UserOf(u).bonusUntil \in Nat BY <1>3, <3>1, <3>2 DEF User, Instant
      <3> HIDE DEF r, u, old
      <3>4. CASE r.at < UserOf(u).bonusUntil
        <4>1. end = UserOf(u).bonusUntil + extra BY <1>5, <3>1, <3>2, <3>4 DEF Before
        <4> QED BY <1>4, <1>6, <2>1, <3>1, <3>2, <3>3, <4>1 DEF Nil
      <3>5. CASE ~ (r.at < UserOf(u).bonusUntil)
        <4>1. r.at = old BY <1>1, <1>2, <1>6, <2>1, <3>1, <3>2, <3>3, <3>5 DEF Nil
        <4> QED BY <1>2, <1>4, <1>5, <1>6, <2>1, <4>1 DEF Nil
      <3> QED BY <3>4, <3>5
    <2>2. CASE old = Nil \/ ~ (now =< old)
      <3>1. bonus = r.at + extra BY <1>2, <1>6, <2>2 DEF Nil
      <3> QED BY <1>1, <1>4, <1>5, <3>1
    <2> QED BY <2>1, <2>2
  <1> HIDE DEF record, r, bonus
  <1>11. /\ IsConfig(config)
         /\ config[u] = record /\ u \in DOMAIN config
         /\ \A v \in DOMAIN cfg \ {u} : v \in DOMAIN config /\ config[v] = cfg[v]
    BY <1>1, <1>9, PutType DEF IInv, TypeOK
  <1> HIDE DEF config
  <1>12. Held(config, u, NoLock, bonus, now)
    BY <1>5, <1>9, <1>10, <1>11 DEF Held, LockHeld, BonusHeld, Nil
  <1>13. NoLock \in Locks /\ bonus \in Instant \cup {Nil} BY <1>10 DEF Locks, Instant
  <1> HIDE DEF u
  <1> QED BY <1>1, <1>7, <1>8, <1>11, <1>12, <1>13, GrantKeepsIInv

LEMMA TickStep ==
  ASSUME IInv, Tick
  PROVE  IInv'
  <1>1. TypeOK' BY StoreAssumption DEF IInv, TypeOK, Tick, history, IsConfig
  <1>2. PendingAt'
    <2>1. \A h \in Handlers : pending[h] # Idle => pending[h].at \in Nat
      BY DEF IInv, TypeOK, Requests
    <2> QED BY <2>1 DEF IInv, TypeOK, PendingAt, Tick
  <1>3. GrantsHeld'
    <2> SUFFICES ASSUME NEW u \in Users
                 PROVE  /\ Held(cfg,  u, lockGranted[u], bonusGranted[u], now + 1)
                        /\ Held(disk, u, lockGranted[u], bonusGranted[u], now + 1)
      BY DEF GrantsHeld, Tick, history
    <2>1. lockGranted[u] \in Locks /\ bonusGranted[u] \in Instant \cup {Nil} /\ now \in Nat
      BY DEF IInv, TypeOK
    <2> QED BY <2>1, LaterClock DEF IInv, GrantsHeld
  <1> QED BY <1>1, <1>2, <1>3 DEF IInv

LEMMA RestartStep ==
  ASSUME IInv, Restart
  PROVE  IInv'
  <1>1. TypeOK' BY DEF IInv, TypeOK, Restart, history, IsConfig, Requests
  <1>2. PendingAt' BY DEF PendingAt, Restart
  <1>3. GrantsHeld' BY DEF IInv, GrantsHeld, Restart, history
  <1> QED BY <1>1, <1>2, <1>3 DEF IInv

LEMMA NextIInv == IInv /\ [Next]_vars => IInv'
  <1> SUFFICES ASSUME IInv, [Next]_vars PROVE IInv'
    OBVIOUS
  <1>1. ASSUME NEW u \in Users, AddUser(u) PROVE IInv' BY <1>1, AddUserStep
  <1>2. ASSUME NEW u \in Users, DeleteUser(u) PROVE IInv' BY <1>2, DeleteUserStep
  <1>3. ASSUME NEW u \in Users, UnlockUser(u) PROVE IInv' BY <1>3, UnlockUserStep
  <1>4. ASSUME NEW u \in Users, NEW w \in Windows, AddSchedule(u, w) PROVE IInv'
    BY <1>4, AddScheduleStep
  <1>5. ASSUME NEW u \in Users, NEW i \in 1 .. MaxSchedules, DeleteSchedule(u, i) PROVE IInv'
    BY <1>5, DeleteScheduleStep
  <1>6. ASSUME NEW h \in Handlers, NEW u \in Users, ReceiveLock(h, u) PROVE IInv'
    BY <1>6, ReceiveLockStep
  <1>7. ASSUME NEW h \in Handlers, NEW u \in Users, NEW m \in BonusMinutes, ReceiveBonus(h, u, m)
        PROVE IInv'
    BY <1>7, ReceiveBonusStep
  <1>8. ASSUME NEW h \in Handlers, LockUser(h) PROVE IInv' BY <1>8, LockUserStep
  <1>9. ASSUME NEW h \in Handlers, AddBonus(h) PROVE IInv' BY <1>9, AddBonusStep
  <1>10. CASE Tick BY <1>10, TickStep
  <1>11. CASE Restart BY <1>11, RestartStep
  <1>12. CASE UNCHANGED vars
    BY <1>12 DEF vars, IInv, TypeOK, PendingAt, GrantsHeld, Held, LockHeld, BonusHeld, IsConfig
  <1> QED
    BY <1>1, <1>2, <1>3, <1>4, <1>5, <1>6, <1>7, <1>8, <1>9, <1>10, <1>11, <1>12 DEF Next

-----------------------------------------------------------------------------
(***************************************************************************)
(* The store's types: whatever requests, failed saves and restarts come,   *)
(* memory and file hold well-formed configurations of known users.         *)
(***************************************************************************)
THEOREM TypeCorrect == Spec => []TypeOK
  <1>1. IInv => TypeOK BY DEF IInv
  <1> QED BY <1>1, InitIInv, NextIInv, PTL DEF Spec

(***************************************************************************)
(* Access granted by acknowledged bonuses lasts to the end of all their    *)
(* minutes, unless a lock follows.                                         *)
(***************************************************************************)
THEOREM BonusIsKept == Spec => []BonusKept
  <1>1. IInv => BonusKept
    <2> SUFFICES ASSUME IInv, NEW u \in Users,
                        Before(now, bonusGranted[u]), lockGranted[u] = NoLock
                 PROVE  Allowed(u)
      BY DEF BonusKept
    <2>1. bonusGranted[u] \in Nat /\ bonusGranted[u] # Nil /\ now \in Nat /\ now < bonusGranted[u]
      BY DEF IInv, TypeOK, Before, Instant
    <2>2. /\ u \in DOMAIN cfg
          /\ cfg[u].bonusUntil # Nil /\ cfg[u].bonusUntil >= bonusGranted[u]
          /\ cfg[u].lockedUntil = Nil
      BY <2>1 DEF IInv, GrantsHeld, Held, BonusHeld
    <2>3. cfg[u].bonusUntil \in Nat BY <2>2 DEF IInv, TypeOK, IsConfig, User, Instant
    <2> QED BY <2>1, <2>2, <2>3 DEF Allowed, IsAllowed, Before
  <1> QED BY <1>1, InitIInv, NextIInv, PTL DEF Spec

(***************************************************************************)
(* An acknowledged lock keeps the user out until one of the user's windows *)
(* starts by the clock of the server, in whatever zone the computer is.    *)
(***************************************************************************)
THEOREM LockIsKept == Spec => []LockKept
  <1>1. IInv => LockKept
    <2> SUFFICES ASSUME IInv, NEW u \in Users,
                        lockGranted[u] # NoLock, ~ OpenedSince(lockGranted[u])
                 PROVE  ~ Allowed(u)
      BY DEF LockKept
    <2> DEFINE lock == lockGranted[u]
               end == cfg[u].lockedUntil
    <2>1. lock \in Locks /\ lock.at \in Nat /\ now \in Nat /\ now < Forever
      BY StoreAssumption DEF IInv, TypeOK, Locks
    <2>2. ~ OpenedBy(lock, now) BY DEF OpenedSince, OpenedBy
    <2>3. u \in DOMAIN cfg /\ end # Nil /\ LockEndOf(lock, end)
      BY <2>2 DEF IInv, GrantsHeld, Held, LockHeld
    <2>4. end \in Nat BY <2>3 DEF IInv, TypeOK, IsConfig, User, Instant
    <2> HIDE DEF lock, end
    <2>5. now < end
      <3>1. CASE end = Forever BY <2>1, <3>1
      <3>2. CASE end > lock.at /\ Opens(lock.schedules, end, ServerZone)
        <4>1. end \notin lock.at + 1 .. now BY <2>2, <3>2 DEF OpenedBy
        <4> QED BY <2>1, <2>4, <3>2, <4>1
      <3> QED BY <2>3, <3>1, <3>2 DEF LockEndOf
    <2> QED BY <2>3, <2>5 DEF Allowed, IsAllowed, Before, end
  <1> QED BY <1>1, InitIInv, NextIInv, PTL DEF Spec

(***************************************************************************)
(* ... and once one of those windows has started, the lock is over: the    *)
(* lock ends no later than the first of them.                              *)
(***************************************************************************)
THEOREM LocksEnd == Spec => []LockEnds
  <1>1. IInv => LockEnds
    <2> SUFFICES ASSUME IInv, NEW u \in DOMAIN cfg,
                        lockGranted[u] # NoLock, OpenedSince(lockGranted[u]),
                        Before(now, cfg[u].lockedUntil)
                 PROVE  FALSE
      BY DEF LockEnds
    <2> DEFINE lock == lockGranted[u]
               end == cfg[u].lockedUntil
    <2>1. u \in Users /\ now \in Nat /\ cfg[u] \in User BY DEF IInv, TypeOK, IsConfig
    <2>2. lock \in Locks /\ lock.at \in Nat BY <2>1 DEF IInv, TypeOK, Locks
    <2>3. end # Nil /\ end \in Nat /\ now < end BY <2>1 DEF Before, User, Instant
    <2>4. LockEndOf(lock, end) BY <2>1, <2>3 DEF IInv, GrantsHeld, Held, LockHeld
    <2>5. PICK s \in lock.at + 1 .. now : Opens(lock.schedules, s, ServerZone) BY DEF OpenedSince
    <2> HIDE DEF lock, end
    <2>6. s \in Nat /\ lock.at < s /\ s < end BY <2>1, <2>2, <2>3, <2>5
    <2> QED BY <2>4, <2>5, <2>6 DEF LockEndOf
  <1> QED BY <1>1, InitIInv, NextIInv, PTL DEF Spec

-----------------------------------------------------------------------------
(***************************************************************************)
(* An update cleans every record of a deadline that has passed: what the   *)
(* rules say of a user it does not concern is, from now on, the same.      *)
(***************************************************************************)
LEMMA SameVerdict ==
  ASSUME NEW c, NEW d, NEW u, now \in Nat, NEW t \in Nat, now =< t, NEW zone,
         u \in DOMAIN d <=> u \in DOMAIN c,
         u \in DOMAIN c => c[u] \in User /\ d[u] = c[u]
  PROVE  IsAllowed(u, CleanupExpired(d), t, zone) = IsAllowed(u, c, t, zone)
  <1> DEFINE clean == CleanupExpired(d)
             old == c[u]
             new == clean[u]
  <1>1. DOMAIN clean = DOMAIN d BY DEF CleanupExpired
  <1>2. CASE u \notin DOMAIN c BY <1>1, <1>2 DEF IsAllowed
  <1>3. CASE u \in DOMAIN c
    <2>1. old \in User /\ new = Expire(old) BY <1>3 DEF CleanupExpired
    <2>2. old.lockedUntil \in Nat \cup {Nil} /\ old.bonusUntil \in Nat \cup {Nil}
      BY <2>1 DEF User, Instant
    <2>3. /\ new.schedules = old.schedules
          /\ new.lockedUntil \in {old.lockedUntil, Nil} /\ new.bonusUntil \in {old.bonusUntil, Nil}
          /\ new.lockedUntil # old.lockedUntil => old.lockedUntil # Nil /\ now > old.lockedUntil
          /\ new.bonusUntil # old.bonusUntil => old.bonusUntil # Nil /\ now > old.bonusUntil
      BY <2>1 DEF Expire, User
    <2> HIDE DEF old, new, clean
    <2>4. Before(t, new.lockedUntil) = Before(t, old.lockedUntil)
      BY <2>2, <2>3 DEF Before, Nil
    <2>5. Before(t, new.bonusUntil) = Before(t, old.bonusUntil)
      BY <2>2, <2>3 DEF Before, Nil
    <2> QED BY <1>1, <1>3, <2>3, <2>4, <2>5 DEF IsAllowed, old, new, clean
  <1> QED BY <1>2, <1>3

(***************************************************************************)
(* The clean-up of expired deadlines, which any update brings about for    *)
(* everybody, changes what no user may do at any time to come.             *)
(***************************************************************************)
THEOREM CleanupIsHarmless == Spec => []CleanupHarmless
  <1>1. IInv => CleanupHarmless
    <2> SUFFICES ASSUME IInv, NEW u \in DOMAIN cfg, NEW t \in Instants, now =< t
                 PROVE  IsAllowed(u, CleanupExpired(cfg), t, ClientZone) = IsAllowed(u, cfg, t, ClientZone)
      BY DEF CleanupHarmless
    <2>1. now \in Nat /\ t \in Nat BY StoreAssumption DEF IInv, TypeOK, Instants
    <2>2. cfg[u] \in User BY DEF IInv, TypeOK, IsConfig
    <2> QED BY <2>1, <2>2, SameVerdict
  <1> QED BY <1>1, InitIInv, NextIInv, PTL DEF Spec

-----------------------------------------------------------------------------
(***************************************************************************)
(* The store implements Promises.  What was promised agrees with the rules *)
(* because the invariant holds; a request is a request of Promises because *)
(* it leaves the records and the grants of the others as they are.         *)
(***************************************************************************)
LEMMA PromisesHeld == IInv => Promised!Kept
  <1> SUFFICES ASSUME IInv, NEW u \in Users
               PROVE  /\ LockedInstants[u] \cap Promised!Ahead \subseteq DeniedAhead[u]
                      /\ BonusInstants[u] \cap DeniedAhead[u] = {}
    BY DEF Promised!Kept
  <1> DEFINE lock == lockGranted[u]
             bonus == bonusGranted[u]
  <1>1. now \in Nat /\ lock \in Locks /\ bonus \in Nat \cup {Nil} BY DEF IInv, TypeOK, Instant
  <1>2. Held(cfg, u, lock, bonus, now) BY DEF IInv, GrantsHeld
  <1>3. u \in DOMAIN cfg => cfg[u] \in User BY DEF IInv, TypeOK, IsConfig
  <1>4. Instants \subseteq Nat BY StoreAssumption DEF Instants
  <1>5. ASSUME NEW t \in LockedInstants[u], t \in Promised!Ahead PROVE t \in DeniedAhead[u]
    <2>1. lock # NoLock BY <1>5 DEF LockedInstants
    <2>2. /\ t \in Instants
          /\ \A s \in Instants : lock.at < s /\ Opens(lock.schedules, s, ServerZone) => t < s
      BY <1>5, <2>1 DEF LockedInstants
    <2>3. t \in Nat /\ now =< t BY <1>4, <1>5, <2>2 DEF Promised!Ahead
    <2>4. lock.at \in Nat BY <1>1, <2>1 DEF Locks
    <2> HIDE DEF lock
    <2>5. \A s \in Nat : s =< t => s \in Instants BY <2>2, StoreAssumption DEF Instants
    <2>6. ~ OpenedBy(lock, now)
      <3> SUFFICES ASSUME NEW s \in lock.at + 1 .. now, Opens(lock.schedules, s, ServerZone)
                   PROVE  FALSE
        BY DEF OpenedBy
      <3>1. s \in Nat /\ lock.at < s /\ s =< t BY <1>1, <2>3, <2>4
      <3> QED BY <2>2, <2>3, <2>5, <3>1
    <2> DEFINE end == cfg[u].lockedUntil
    <2>7. u \in DOMAIN cfg /\ end # Nil /\ LockEndOf(lock, end)
      BY <1>2, <2>1, <2>6 DEF Held, LockHeld
    <2>8. end \in Nat BY <1>3, <2>7 DEF User, Instant
    <2> HIDE DEF end
    <2>9. t < end
      <3>1. CASE end = Forever BY <2>2, <2>3, <3>1, StoreAssumption DEF Instants
      <3>2. CASE end > lock.at /\ Opens(lock.schedules, end, ServerZone)
        BY <2>2, <2>3, <2>5, <2>8, <3>2
      <3> QED BY <2>7, <3>1, <3>2 DEF LockEndOf
    <2>10. ~ IsAllowed(u, cfg, t, ClientZone) BY <2>7, <2>9 DEF IsAllowed, Before, end
    <2> QED BY <2>2, <2>3, <2>10 DEF DeniedAhead
  <1>6. ASSUME NEW t \in BonusInstants[u] PROVE t \notin DeniedAhead[u]
    <2>1. lock = NoLock /\ t \in Instants /\ Before(t, bonus) BY <1>6 DEF BonusInstants
    <2> SUFFICES ASSUME now =< t PROVE IsAllowed(u, cfg, t, ClientZone)
      BY DEF DeniedAhead
    <2>2. t \in Nat /\ bonus \in Nat /\ bonus # Nil /\ t < bonus BY <1>1, <1>4, <2>1 DEF Before
    <2>3. /\ u \in DOMAIN cfg
          /\ cfg[u].bonusUntil # Nil /\ cfg[u].bonusUntil >= bonus
          /\ cfg[u].lockedUntil = Nil
      <3>1. now =< bonus BY <1>1, <2>2
      <3> QED BY <1>2, <2>1, <2>2, <3>1 DEF Held, BonusHeld
    <2>4. cfg[u].bonusUntil \in Nat BY <1>3, <2>3 DEF User, Instant
    <2>5. Before(t, cfg[u].bonusUntil) /\ ~ Before(t, cfg[u].lockedUntil)
      BY <2>2, <2>3, <2>4 DEF Before
    <2> QED BY <2>3, <2>5 DEF IsAllowed
  <1> QED BY <1>5, <1>6

LEMMA RequestMaps ==
  ASSUME IInv, Promised!Kept', NEW u \in Users, NEW config, Update(config), now' = now,
         \A v \in Users \ {u} : /\ v \in DOMAIN config <=> v \in DOMAIN cfg
                                /\ v \in DOMAIN cfg => config[v] = cfg[v]
                                /\ lockGranted'[v] = lockGranted[v]
                                /\ bonusGranted'[v] = bonusGranted[v]
  PROVE  Promised!Request(u)
  <1>1. DeniedAhead' \in [Users -> SUBSET Promised!Ahead] BY DEF DeniedAhead, Promised!Ahead
  <1>2. LockedInstants' \in [Users -> SUBSET Instants] /\ BonusInstants' \in [Users -> SUBSET Instants]
    BY DEF LockedInstants, BonusInstants, Instants
  <1>3. ASSUME NEW v \in Users \ {u}
        PROVE  /\ DeniedAhead'[v] = DeniedAhead[v]
               /\ LockedInstants'[v] = LockedInstants[v]
               /\ BonusInstants'[v] = BonusInstants[v]
    <2>1. \A t \in Instants : now =< t =>
            IsAllowed(v, cfg', t, ClientZone) = IsAllowed(v, cfg, t, ClientZone)
      <3> SUFFICES ASSUME NEW t \in Instants, now =< t
                   PROVE  IsAllowed(v, cfg', t, ClientZone) = IsAllowed(v, cfg, t, ClientZone)
        OBVIOUS
      <3>1. now \in Nat /\ t \in Nat BY StoreAssumption DEF IInv, TypeOK, Instants
      <3>2. v \in DOMAIN cfg => cfg[v] \in User BY DEF IInv, TypeOK, IsConfig
      <3>3. cfg' = CleanupExpired(config) BY DEF Update
      <3>4. v \in DOMAIN config <=> v \in DOMAIN cfg
        OBVIOUS
      <3>5. v \in DOMAIN cfg => cfg[v] \in User /\ config[v] = cfg[v]
        BY <3>2
      <3>6. IsAllowed(v, CleanupExpired(config), t, ClientZone) = IsAllowed(v, cfg, t, ClientZone)
        <4>1. CASE v \in DOMAIN cfg
          BY <3>1, <3>4, <3>5, <4>1, SameVerdict
        <4>2. CASE v \notin DOMAIN cfg
          BY <3>4, <4>2 DEF IsAllowed, CleanupExpired
        <4> QED BY <4>1, <4>2
      <3> QED BY <3>3, <3>6
    <2>2. DeniedAhead'[v] = DeniedAhead[v] BY <2>1 DEF DeniedAhead, Instants
    <2>3. LockedInstants'[v] = LockedInstants[v] BY DEF LockedInstants, Instants
    <2>4. BonusInstants'[v] = BonusInstants[v] BY DEF BonusInstants, Instants
    <2> QED BY <2>2, <2>3, <2>4
  <1> QED BY <1>1, <1>2, <1>3 DEF Promised!Request

LEMMA PutOthers ==
  ASSUME NEW u, NEW record
  PROVE  \A v \in Users \ {u} : /\ v \in DOMAIN Put(u, record) <=> v \in DOMAIN cfg
                                /\ v \in DOMAIN cfg => Put(u, record)[v] = cfg[v]
  BY DEF Put

LEMMA GrantOthers ==
  ASSUME IInv, NEW u \in Users, NEW lock, NEW bonus, Grant(u, lock, bonus)
  PROVE  \A v \in Users \ {u} : lockGranted'[v] = lockGranted[v] /\ bonusGranted'[v] = bonusGranted[v]
  BY DEF IInv, TypeOK, Grant

LEMMA StepMaps ==
  ASSUME IInv, Promised!Kept', [Next]_vars
  PROVE  [Promised!Next]_(Promised!vars)
  <1> USE DEF Promised!Next
  <1>1. ASSUME NEW u \in Users, AddUser(u) PROVE Promised!Request(u)
    BY <1>1, RequestMaps, PutOthers DEF AddUser, history
  <1>2. ASSUME NEW u \in Users, DeleteUser(u) PROVE Promised!Request(u)
    <2> DEFINE config == [v \in DOMAIN cfg \ {u} |-> cfg[v]]
    <2>1. Update(config) /\ Grant(u, NoLock, Nil) /\ now' = now BY <1>2 DEF DeleteUser
    <2>2. \A v \in Users \ {u} : /\ v \in DOMAIN config <=> v \in DOMAIN cfg
                                 /\ v \in DOMAIN cfg => config[v] = cfg[v]
      OBVIOUS
    <2> HIDE DEF config
    <2> QED BY <2>1, <2>2, RequestMaps, GrantOthers
  <1>3. ASSUME NEW u \in Users, UnlockUser(u) PROVE Promised!Request(u)
    BY <1>3, RequestMaps, PutOthers, GrantOthers DEF UnlockUser
  <1>4. ASSUME NEW u \in Users, NEW w \in Windows, AddSchedule(u, w) PROVE Promised!Request(u)
    BY <1>4, RequestMaps, PutOthers DEF AddSchedule, history
  <1>5. ASSUME NEW u \in Users, NEW i \in 1 .. MaxSchedules, DeleteSchedule(u, i)
        PROVE  Promised!Request(u)
    <2>1. CASE i \in DOMAIN UserOf(u).schedules
      BY <1>5, <2>1, RequestMaps, PutOthers DEF DeleteSchedule, history
    <2>2. CASE i \notin DOMAIN UserOf(u).schedules
      BY <1>5, <2>2, RequestMaps DEF DeleteSchedule, history
    <2> QED BY <2>1, <2>2
  <1>6. ASSUME NEW h \in Handlers, LockUser(h) PROVE \E u \in Users : Promised!Request(u)
    <2> DEFINE u == pending[h].user
    <2>1. u \in Users BY <1>6 DEF LockUser, IInv, TypeOK, Requests, Idle
    <2>2. \E record, lock, bonus : Update(Put(u, record)) /\ Grant(u, lock, bonus) /\ now' = now
      BY <1>6 DEF LockUser
    <2> HIDE DEF u
    <2> QED BY <2>1, <2>2, RequestMaps, PutOthers, GrantOthers
  <1>7. ASSUME NEW h \in Handlers, AddBonus(h) PROVE \E u \in Users : Promised!Request(u)
    <2> DEFINE u == pending[h].user
    <2>1. u \in Users BY <1>7 DEF AddBonus, IInv, TypeOK, Requests, Idle
    <2>2. \E record, lock, bonus : Update(Put(u, record)) /\ Grant(u, lock, bonus) /\ now' = now
      BY <1>7 DEF AddBonus
    <2> HIDE DEF u
    <2> QED BY <2>1, <2>2, RequestMaps, PutOthers, GrantOthers
  <1>8. CASE Tick
    <2>1. /\ now < MaxTime /\ now' = now + 1 /\ now \in Nat
          /\ UNCHANGED << cfg, lockGranted, bonusGranted >>
      BY <1>8 DEF Tick, history, IInv, TypeOK
    <2>2. UNCHANGED << LockedInstants, BonusInstants >>
      BY <2>1 DEF LockedInstants, BonusInstants, Instants
    <2>3. \A t \in Instants : now + 1 =< t <=> now =< t /\ t # now
      BY <2>1, StoreAssumption DEF Instants
    <2>4. DeniedAhead' = [u \in Users |-> DeniedAhead[u] \ {now}]
      BY <2>1, <2>3 DEF DeniedAhead, Instants
    <2> QED BY <2>1, <2>2, <2>4 DEF Promised!Tick, Promised!promises
  <1>9. CASE Restart
    <2>1. UNCHANGED << now, lockGranted, bonusGranted >> BY <1>9 DEF Restart, history
    <2>2. UNCHANGED << LockedInstants, BonusInstants >>
      BY <2>1 DEF LockedInstants, BonusInstants, Instants
    <2>3. DeniedAhead' \in [Users -> SUBSET Promised!Ahead]
      BY <2>1 DEF DeniedAhead, Promised!Ahead
    <2> QED BY <2>1, <2>2, <2>3 DEF Promised!Restart, Promised!promises
  <1>10. ASSUME UNCHANGED << now, cfg, lockGranted, bonusGranted >> PROVE UNCHANGED Promised!vars
    BY <1>10 DEF Promised!vars, Promised!promises, DeniedAhead, LockedInstants, BonusInstants, Instants
  <1>11. ASSUME NEW h \in Handlers, NEW u \in Users, ReceiveLock(h, u) PROVE UNCHANGED Promised!vars
    BY <1>10, <1>11 DEF ReceiveLock, history
  <1>12. ASSUME NEW h \in Handlers, NEW u \in Users, NEW m \in BonusMinutes, ReceiveBonus(h, u, m)
         PROVE  UNCHANGED Promised!vars
    BY <1>10, <1>12 DEF ReceiveBonus, history
  <1>13. CASE UNCHANGED vars BY <1>10, <1>13 DEF vars
  <1> QED
    BY <1>1, <1>2, <1>3, <1>4, <1>5, <1>6, <1>7, <1>8, <1>9, <1>11, <1>12, <1>13 DEF Next

(***************************************************************************)
(* What the server promises, it keeps: through requests, failed saves,     *)
(* lost answers, clean-ups and restarts, the rules it would answer with    *)
(* agree for all the time to come with the locks and bonuses it            *)
(* acknowledged, whatever the zones of its clock and of the computers.     *)
(***************************************************************************)
THEOREM StoreImplementsPromises == Spec => ImplementsPromises
  <1>1. Init => Promised!Init
    BY DEF Init, Promised!Init, DeniedAhead, LockedInstants, BonusInstants, IsAllowed, Before
  <1>2. IInv => Promised!Kept BY PromisesHeld
  <1>3. IInv' => Promised!Kept' BY <1>2, PTL
  <1>4. IInv /\ IInv' /\ [Next]_vars => [Promised!Next]_(Promised!vars)
    BY <1>3, StepMaps
  <1> QED BY <1>1, <1>4, InitIInv, NextIInv, PTL DEF Spec, ImplementsPromises, Promised!Spec
=============================================================================
