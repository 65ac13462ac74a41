---------------------------- MODULE ActivityProofs ----------------------------
(***************************************************************************)
(* What the server records of the time the daemons measure, for any number *)
(* of hosts, users, applications, days and faults.                         *)
(*                                                                         *)
(* The first part is about sums over finite sets.  Induction is written as *)
(* a minimal counterexample: of a nonempty set of finite sets, or of       *)
(* numbers, one is minimal.                                                *)
(***************************************************************************)
EXTENDS Activity, FiniteSetTheorems, WellFoundedInduction, TLAPS

(* The element a fold takes first. *)
Pick(s) == CHOOSE x \in s : TRUE

(* The recursion that defines the sums over the subsets of T. *)
IsSum(g, f, T) == g = [s \in SUBSET T |-> IF s = {} THEN 0 ELSE f[Pick(s)] + g[s \ {Pick(s)}]]

(* Every nonempty set of numbers has a least one. *)
LEMMA LeastNumber ==
  ASSUME NEW T \in SUBSET Nat, T # {}
  PROVE  \E x \in T : \A y \in T : x =< y
  <1> DEFINE F == { 0 .. n : n \in T }
  <1>1. F \subseteq FiniteSubsetsOf(Nat)
    <2>1. \A n \in T : IsFiniteSet(0 .. n) /\ 0 .. n \in SUBSET Nat BY FS_Interval
    <2> QED BY <2>1 DEF FiniteSubsetsOf
  <1>2. F # {} OBVIOUS
  <1> HIDE DEF F
  <1>3. PICK s \in F : \A t \in F : <<t, s>> \notin StrictSubsetOrdering(Nat)
    BY <1>1, <1>2, FS_StrictSubsetOrderingWellFounded, WFMin
  <1>4. PICK x \in T : s = 0 .. x BY DEF F
  <1>5. ASSUME NEW y \in T, y < x PROVE FALSE
    <2>1. 0 .. y \in F BY DEF F
    <2>2. 0 .. y \subseteq 0 .. x /\ x \in 0 .. x /\ x \notin 0 .. y BY <1>5
    <2>3. <<0 .. y, s>> \in StrictSubsetOrdering(Nat) BY <2>2, <1>4 DEF StrictSubsetOrdering
    <2> QED BY <1>3, <2>1, <2>3
  <1> QED BY <1>5

(* Every nonempty set of subsets of a finite set has a minimal one. *)
LEMMA LeastSubset ==
  ASSUME NEW S, IsFiniteSet(S), NEW B \in SUBSET (SUBSET S), B # {}
  PROVE  \E s \in B : \A t \in B : t \subseteq s => t = s
  <1>1. B \subseteq FiniteSubsetsOf(S) BY FS_FiniteSubsetsOfFinite
  <1>2. PICK s \in B : \A t \in B : <<t, s>> \notin StrictSubsetOrdering(S)
    BY <1>1, FS_StrictSubsetOrderingWellFounded, WFMin
  <1> QED BY <1>2 DEF StrictSubsetOrdering

(***************************************************************************)
(* A function with that recursion exists, by induction on the size of the  *)
(* subsets it is defined on.                                               *)
(***************************************************************************)
LEMMA SumExists ==
  ASSUME NEW f, NEW T, IsFiniteSet(T)
  PROVE  \E g : IsSum(g, f, T)
  <1> DEFINE Level(n) == { s \in SUBSET T : Cardinality(s) =< n }
             Recur(g, s) == IF s = {} THEN 0 ELSE f[Pick(s)] + g[s \ {Pick(s)}]
             Good(n) == \E g : g = [s \in Level(n) |-> Recur(g, s)]
             B == { n \in Nat : ~ Good(n) }
  <1>1. ASSUME B # {} PROVE FALSE
    <2>1. PICK n \in B : \A m \in B : n =< m BY <1>1, LeastNumber
    <2>2. CASE n = 0
      <3>1. \A s \in Level(0) : s = {} 
        <4> TAKE s \in Level(0)
        <4>1. IsFiniteSet(s) /\ Cardinality(s) \in Nat BY FS_Subset, FS_CardinalityType
        <4> QED BY <4>1, FS_EmptySet
      <3>2. [s \in Level(0) |-> 0] = [s \in Level(0) |-> Recur([t \in Level(0) |-> 0], s)] BY <3>1
      <3>3. Good(0) BY <3>2
      <3> QED BY <2>2, <3>3
    <2>3. CASE n # 0
      <3>1. n - 1 \in Nat /\ ~ (n =< n - 1) BY <2>3
      <3>2. Good(n - 1) BY <3>1, <2>1
      <3>3. PICK g : g = [s \in Level(n - 1) |-> Recur(g, s)] BY <3>2
      <3> DEFINE h == [s \in Level(n) |-> Recur(g, s)]
      <3>4. ASSUME NEW s \in Level(n), s # {} PROVE s \ {Pick(s)} \in Level(n - 1) \cap Level(n)
        <4>1. Pick(s) \in s BY <3>4 DEF Pick
        <4>2. IsFiniteSet(s) /\ Cardinality(s) \in Nat BY FS_Subset, FS_CardinalityType
        <4>3. Cardinality(s \ {Pick(s)}) = Cardinality(s) - 1 BY <4>1, <4>2, FS_RemoveElement
        <4> QED BY <4>2, <4>3
      <3>5. ASSUME NEW s \in Level(n) PROVE Recur(g, s) = Recur(h, s)
        <4>1. CASE s = {} BY <4>1
        <4>2. CASE s # {}
          <5> DEFINE t == s \ {Pick(s)}
          <5>1. t \in Level(n - 1) /\ t \in Level(n) BY <3>4, <4>2
          <5> HIDE DEF t
          <5>2. g[t] = Recur(g, t) BY <3>3, <5>1
          <5>3. h[t] = Recur(g, t) BY <5>1
          <5> HIDE DEF h
          <5> QED BY <4>2, <5>2, <5>3 DEF t
        <4> QED BY <4>1, <4>2
      <3> HIDE DEF Recur
      <3>6. h = [s \in Level(n) |-> Recur(h, s)] BY <3>5
      <3>7. Good(n) BY <3>6
      <3> QED BY <3>7
    <2> QED BY <2>2, <2>3
  <1>2. Cardinality(T) \in Nat BY FS_CardinalityType
  <1>3. Good(Cardinality(T)) BY <1>1, <1>2
  <1>4. Level(Cardinality(T)) = SUBSET T BY FS_Subset
  <1> QED BY <1>3, <1>4 DEF IsSum

(* It is unique, and does not depend on what is not in the set. *)
LEMMA SumUnique ==
  ASSUME NEW f, NEW e, NEW T, NEW U, IsFiniteSet(T), U \subseteq T, NEW g, NEW h, IsSum(g, f, T), IsSum(h, e, U),
         \A x \in U : f[x] = e[x]
  PROVE  g[U] = h[U]
  <1> DEFINE B == { s \in SUBSET U : g[s] # h[s] }
  <1>1. ASSUME B # {} PROVE FALSE
    <2>1. PICK s \in B : \A t \in B : t \subseteq s => t = s
      <3> IsFiniteSet(U) BY FS_Subset
      <3> HIDE DEF B
      <3>1. B \in SUBSET (SUBSET U) BY DEF B
      <3> QED BY <1>1, <3>1, LeastSubset
    <2> DEFINE t == s \ {Pick(s)}
    <2>1a. s \in SUBSET T /\ s \in SUBSET U OBVIOUS
    <2>2. g[s] = IF s = {} THEN 0 ELSE f[Pick(s)] + g[t] BY <2>1a DEF IsSum
    <2>3. h[s] = IF s = {} THEN 0 ELSE e[Pick(s)] + h[t] BY <2>1a DEF IsSum
    <2>4. s # {} BY <2>2, <2>3
    <2>5. Pick(s) \in s BY <2>4 DEF Pick
    <2>6. t \notin B BY <2>1, <2>5
    <2>7. g[t] = h[t] BY <2>6, <2>1a
    <2> QED BY <2>2, <2>3, <2>5, <2>7
  <1> QED BY <1>1

(* So the sum is what its recursion says. *)
LEMMA SumUnfold ==
  ASSUME NEW f, NEW T, IsFiniteSet(T)
  PROVE  SumFunctionOnSet(f, T) =
           IF T = {} THEN 0 ELSE f[Pick(T)] + SumFunctionOnSet(f, T \ {Pick(T)})
  <1> DEFINE G(U) == CHOOSE g : IsSum(g, f, U)
             U == T \ {Pick(T)}
  <1>1. SumFunctionOnSet(f, T) = G(T)[T] /\ SumFunctionOnSet(f, U) = G(U)[U]
    BY DEF SumFunctionOnSet, FoldFunctionOnSet, MapThenFoldSet, IsSum, Pick
  <1>2. IsFiniteSet(U) BY FS_Subset
  <1>3. IsSum(G(T), f, T) /\ IsSum(G(U), f, U) BY <1>2, SumExists
  <1> HIDE DEF G
  <1>4. G(T)[U] = G(U)[U] BY <1>3, SumUnique
  <1>5. G(T)[T] = IF T = {} THEN 0 ELSE f[Pick(T)] + G(T)[U] BY <1>3 DEF IsSum
  <1> QED BY <1>1, <1>4, <1>5

(* A sum depends on the values at the elements of its set only. *)
LEMMA SumEqual ==
  ASSUME NEW f, NEW e, NEW T, IsFiniteSet(T), \A x \in T : f[x] = e[x]
  PROVE  SumFunctionOnSet(f, T) = SumFunctionOnSet(e, T)
  <1> DEFINE G(U) == CHOOSE g : IsSum(g, f, U)
             H(U) == CHOOSE g : IsSum(g, e, U)
  <1>1. SumFunctionOnSet(f, T) = G(T)[T] /\ SumFunctionOnSet(e, T) = H(T)[T]
    BY DEF SumFunctionOnSet, FoldFunctionOnSet, MapThenFoldSet, IsSum, Pick
  <1>3. IsSum(G(T), f, T) /\ IsSum(H(T), e, T) BY SumExists
  <1> HIDE DEF G, H
  <1>4. G(T)[T] = H(T)[T] BY <1>3, SumUnique
  <1> QED BY <1>1, <1>4

(* A sum of numbers is a number, and grows with its values. *)
LEMMA SumMonotone ==
  ASSUME NEW f, NEW e, NEW T, IsFiniteSet(T),
         \A x \in T : f[x] \in Nat /\ e[x] \in Nat /\ f[x] =< e[x]
  PROVE  /\ SumFunctionOnSet(f, T) \in Nat /\ SumFunctionOnSet(e, T) \in Nat
         /\ SumFunctionOnSet(f, T) =< SumFunctionOnSet(e, T)
  <1> DEFINE F(s) == SumFunctionOnSet(f, s)
             E(s) == SumFunctionOnSet(e, s)
             Good(s) == F(s) \in Nat /\ E(s) \in Nat /\ F(s) =< E(s)
             B == { s \in SUBSET T : ~ Good(s) }
  <1>1. ASSUME B # {} PROVE FALSE
    <2>1. PICK s \in B : \A t \in B : t \subseteq s => t = s
      <3> HIDE DEF B
      <3>1. B \in SUBSET (SUBSET T) BY DEF B
      <3> QED BY <1>1, <3>1, LeastSubset
    <2> DEFINE t == s \ {Pick(s)}
    <2>2. s \in SUBSET T /\ IsFiniteSet(s) BY FS_Subset
    <2>3. /\ F(s) = IF s = {} THEN 0 ELSE f[Pick(s)] + F(t)
          /\ E(s) = IF s = {} THEN 0 ELSE e[Pick(s)] + E(t)
      BY <2>2, SumUnfold
    <2>4. CASE s = {} BY <2>1, <2>3, <2>4
    <2>5. CASE s # {}
      <3>1. Pick(s) \in s BY <2>5 DEF Pick
      <3>2. t \in SUBSET T /\ t \notin B BY <2>1, <2>2, <3>1
      <3>3. Good(t) BY <3>2
      <3> HIDE DEF F, E, t
      <3> QED BY <2>1, <2>2, <2>3, <2>5, <3>1, <3>3
    <2> QED BY <2>4, <2>5
  <1> QED BY <1>1

(* Any element can be taken out of a sum first. *)
LEMMA SumRemove ==
  ASSUME NEW f, NEW T, IsFiniteSet(T), \A x \in T : f[x] \in Nat, NEW y \in T
  PROVE  SumFunctionOnSet(f, T) = f[y] + SumFunctionOnSet(f, T \ {y})
  <1> DEFINE F(s) == SumFunctionOnSet(f, s)
             Bad(s) == \E x \in s : F(s) # f[x] + F(s \ {x})
             B == { s \in SUBSET T : Bad(s) }
  <1>1. ASSUME B # {} PROVE FALSE
    <2>1. PICK s \in B : \A t \in B : t \subseteq s => t = s
      <3> HIDE DEF B
      <3>1. B \in SUBSET (SUBSET T) BY DEF B
      <3> QED BY <1>1, <3>1, LeastSubset
    <2>2. s \in SUBSET T /\ IsFiniteSet(s) BY FS_Subset
    <2>3. PICK x \in s : F(s) # f[x] + F(s \ {x}) OBVIOUS
    <2> DEFINE p == Pick(s)
    <2>4. p \in s BY <2>2, <2>3 DEF Pick
    <2>5. F(s) = f[p] + F(s \ {p}) BY <2>2, <2>3, SumUnfold
    <2>6. p # x BY <2>3, <2>5
    <2>7. s \ {p} \notin B /\ s \ {x} \notin B BY <2>1, <2>2, <2>3, <2>4
    <2>8. ~ Bad(s \ {p}) /\ ~ Bad(s \ {x}) BY <2>2, <2>7
    <2>9. x \in s \ {p} /\ p \in s \ {x} BY <2>3, <2>4, <2>6
    <2>10. F(s \ {p}) = f[x] + F((s \ {p}) \ {x}) /\ F(s \ {x}) = f[p] + F((s \ {x}) \ {p})
      <3> HIDE DEF p, F
      <3> QED BY <2>8, <2>9
    <2>11. F((s \ {p}) \ {x}) = F((s \ {x}) \ {p})
      <3>1. (s \ {p}) \ {x} = (s \ {x}) \ {p} OBVIOUS
      <3> HIDE DEF F, p
      <3> QED BY <3>1
    <2>12. F((s \ {x}) \ {p}) \in Nat
      <3> DEFINE t == (s \ {x}) \ {p}
      <3>1. IsFiniteSet(t) /\ t \in SUBSET T BY <2>2, FS_Subset
      <3> HIDE DEF t
      <3>2. F(t) \in Nat BY <3>1, SumMonotone
      <3> QED BY <3>2 DEF t
    <2>13. f[p] \in Nat /\ f[x] \in Nat BY <2>2, <2>3, <2>4
    <2>14. PICK n \in Nat : n = F((s \ {x}) \ {p}) BY <2>12
    <2>15. F(s) = f[p] + (f[x] + n) /\ F(s \ {x}) = f[p] + n
      <3> HIDE DEF F, p
      <3> QED BY <2>5, <2>10, <2>11, <2>14
    <2>16. f[x] + F(s \ {x}) = F(s)
      <3> HIDE DEF F, p
      <3> QED BY <2>13, <2>15
    <2> QED BY <2>3, <2>16
  <1>2. ~ Bad(T) BY <1>1
  <1> QED BY <1>2

(* What a sum gains when one of its values changes. *)
LEMMA SumUpdate ==
  ASSUME NEW f, NEW e, NEW T, IsFiniteSet(T), \A x \in T : f[x] \in Nat /\ e[x] \in Nat,
         NEW y \in T, \A x \in T \ {y} : f[x] = e[x]
  PROVE  /\ SumFunctionOnSet(f, T) \in Nat /\ SumFunctionOnSet(e, T) \in Nat
         /\ SumFunctionOnSet(e, T) + f[y] = SumFunctionOnSet(f, T) + e[y]
  <1>1. IsFiniteSet(T \ {y}) BY FS_Subset
  <1>2. SumFunctionOnSet(f, T \ {y}) = SumFunctionOnSet(e, T \ {y}) BY <1>1, SumEqual
  <1>3. SumFunctionOnSet(f, T \ {y}) \in Nat BY <1>1, SumMonotone
  <1>4. /\ SumFunctionOnSet(f, T) = f[y] + SumFunctionOnSet(f, T \ {y})
        /\ SumFunctionOnSet(e, T) = e[y] + SumFunctionOnSet(e, T \ {y})
    BY SumRemove
  <1>5. f[y] \in Nat /\ e[y] \in Nat OBVIOUS
  <1> QED BY <1>2, <1>3, <1>4, <1>5

(* A sum with one more element. *)
LEMMA SumAdd ==
  ASSUME NEW f, NEW T, IsFiniteSet(T), \A x \in T : f[x] \in Nat, NEW y, y \notin T, f[y] \in Nat
  PROVE  SumFunctionOnSet(f, T \cup {y}) = SumFunctionOnSet(f, T) + f[y]
  <1> DEFINE U == T \cup {y}
  <1>1. IsFiniteSet(U) /\ y \in U /\ \A x \in U : f[x] \in Nat BY FS_AddElement
  <1>2. U \ {y} = T OBVIOUS
  <1> HIDE DEF U
  <1>3. SumFunctionOnSet(f, U) = f[y] + SumFunctionOnSet(f, U \ {y}) BY <1>1, SumRemove
  <1>4. SumFunctionOnSet(f, T) \in Nat BY SumMonotone
  <1> DEFINE v == f[y]
             sum == SumFunctionOnSet(f, T)
  <1>5. v \in Nat /\ sum \in Nat /\ SumFunctionOnSet(f, U) = v + sum BY <1>2, <1>3, <1>4
  <1> HIDE DEF v, sum
  <1>6. SumFunctionOnSet(f, U) = sum + v BY <1>5
  <1> QED BY <1>6 DEF U, v, sum

(* A sum of zeroes. *)
LEMMA SumZero ==
  ASSUME NEW f, NEW T, IsFiniteSet(T), \A x \in T : f[x] = 0
  PROVE  SumFunctionOnSet(f, T) = 0
  <1> DEFINE F(s) == SumFunctionOnSet(f, s)
             B == { s \in SUBSET T : F(s) # 0 }
  <1>1. ASSUME B # {} PROVE FALSE
    <2>1. PICK s \in B : \A t \in B : t \subseteq s => t = s
      <3> HIDE DEF B
      <3>1. B \in SUBSET (SUBSET T) BY DEF B
      <3> QED BY <1>1, <3>1, LeastSubset
    <2> DEFINE t == s \ {Pick(s)}
    <2>2. s \in SUBSET T /\ IsFiniteSet(s) BY FS_Subset
    <2>3. F(s) = IF s = {} THEN 0 ELSE f[Pick(s)] + F(t) BY <2>2, SumUnfold
    <2>4. s # {} BY <2>1, <2>3
    <2>5. Pick(s) \in s BY <2>4 DEF Pick
    <2>6. t \in SUBSET T /\ t \notin B BY <2>1, <2>2, <2>5
    <2>7. F(t) = 0 BY <2>6
    <2>8. f[Pick(s)] = 0 BY <2>2, <2>5
    <2> HIDE DEF F, t
    <2>9. F(s) # 0 BY DEF F
    <2> QED BY <2>3, <2>4, <2>7, <2>8, <2>9
  <1> QED BY <1>1

-----------------------------------------------------------------------------
(* A user's time in front of the screen and in each application. *)
Screen == Unknown   \* no application
Amount(time, u, x) == IF x = Screen THEN time.screen[u] ELSE time.apps[u][x]

(* What a table has of a host, over all days. *)
Total(table, h, u, x) == SumFunctionOnSet([d \in Days |-> Amount(table[d][h], u, x)], Days)

(* What the requests have of a host that may yet be added to the table. *)
Pending(reqs, h) == { r \in reqs : r.host = h /\ r.stage \in {"arrived", "stamped"} }
PendingTime(reqs, h, u, x) ==
  SumFunctionOnSet([r \in Request |-> Amount(r.report.time, u, x)], Pending(reqs, h))

(***************************************************************************)
(* As long as no answer is lost, the report a daemon waits with may be in  *)
(* no request that can still be committed: it is the daemon's own again.   *)
(***************************************************************************)
Faultless == happened \cap {"drop", "restart"} = {}
Backed(h) == Faultless /\ pc[h] = "wait" /\ \A r \in Awaited(h) : r.stage = "refused"
SentTime(h, u, x) == IF Backed(h) THEN Amount(sent[h].time, u, x) ELSE 0

(* What AppTimeKept counts of a report under way. *)
OwnTime(h, u, x) == IF Unrecorded(h) THEN Amount(sent[h].time, u, x) ELSE 0

-----------------------------------------------------------------------------
(* A request is of a cycle that has begun, and holds what its daemon has sent. *)
Requested ==
  /\ IsFiniteSet(requests)
  /\ \A r \in requests :
       /\ r.cycle =< cycle[r.host]
       /\ pc[r.host] = "wait" /\ r.cycle = cycle[r.host] => r.report = sent[r.host]
  /\ \A r, q \in requests : r.host = q.host /\ r.cycle = q.cycle => r = q

(* A cycle takes a tick of the ticker, but for the first one after a start. *)
Clocked ==
  \A h \in Hosts :
    /\ fired[h] => pc[h] # "down"
    /\ cycle[h] + (IF pc[h] = "first" THEN 1 ELSE 0) + (IF fired[h] THEN 1 ELSE 0) =< now + starts[h]
    /\ \A u \in Users : used[h].screen[u] =< cycle[h]

(***************************************************************************)
(* The books of a host, a user and the screen or an application.           *)
(* What has been measured is in one place only: in the table, in a request *)
(* that may yet be committed, in the tracker, or in a report refused.      *)
(* Screen time is never merged back, so that a lost answer does it no harm.*)
(* And of an application no time is lost as long as the daemon lives.      *)
(***************************************************************************)
OnePlace(h, u, x) ==
  x = Screen \/ Faultless =>
    Total(rows, h, u, x) + Amount(tracker[h].time, u, x) + PendingTime(requests, h, u, x)
      + SentTime(h, u, x) =< Amount(used[h], u, x)

SomePlace(h, u, x) ==
  x # Screen /\ "exit" \notin happened =>
    Amount(used[h], u, x) =< Total(rows, h, u, x) + Amount(tracker[h].time, u, x) + OwnTime(h, u, x)

Book(h, u, x) == OnePlace(h, u, x) /\ SomePlace(h, u, x)
Books == \A h \in Hosts, u \in Users, x \in Apps \cup {Screen} : Book(h, u, x)

(* No application longer than the screen, wherever time is. *)
Within(time) == \A u \in Users, a \in Apps : time.apps[u][a] =< time.screen[u]

(* Nothing is refused or lost as long as nothing but these two happens. *)
Smooth == happened \subseteq {"untrusted", "exit"}

ReportsWithin ==
  Smooth =>
    /\ \A h \in Hosts : /\ Within(tracker[h].time) /\ Within(sent[h].time)
                        /\ pc[h] # "down" => h \in registered
                        /\ pc[h] = "wait" => Awaited(h) # {}
    /\ \A r \in requests : Within(r.report.time) /\ r.host \in registered /\ r.stage # "refused"
    /\ \A d \in Days, h \in Hosts : Within(rows[d][h])

(* The query for the screen is still to come, and can only find more. *)
PageWithin ==
  Smooth =>
    /\ page.made = 1 => \A u \in Users, a \in Apps :
                          page.time.apps[u][a] =< DaySums(page.day).screen[u]
    /\ page.made = 2 => Within(page.time)

(* One request at a time, as long as the daemon waits for each answer. *)
Patient == happened \cap {"drop", "exit"} = {}

OneAtATime ==
  Patient =>
    /\ \A r \in requests : r.stage \in {"arrived", "stamped", "committed"} => r \in Awaited(r.host)
    /\ \A u \in DOMAIN statuses : statuses[u].cycle =< cycle[statuses[u].host]

IInv == TypeOK /\ Requested /\ Clocked /\ Books /\ ReportsWithin /\ PageWithin /\ OneAtATime

-----------------------------------------------------------------------------
(* The types of what the operators return. *)

LEMMA DaysType ==
  /\ IsFiniteSet(Days) /\ 0 \in Days /\ MaxTime \in Nat
  /\ \A t \in 0 .. MaxTime : Day(t) \in Days
  <1>1. MaxTime \in Nat /\ TicksPerDay \in Nat \ {0} BY ActivityAssumption
  <1>2. Day(MaxTime) \in Nat BY <1>1 DEF Day
  <1>3. IsFiniteSet(Days) BY <1>2, FS_Interval DEF Days
  <1>4. ASSUME NEW t \in 0 .. MaxTime PROVE Day(t) \in Days
    <2>1. t \div TicksPerDay \in Nat /\ t \div TicksPerDay =< MaxTime \div TicksPerDay BY <1>1
    <2> QED BY <1>2, <2>1 DEF Day, Days
  <1> QED BY <1>1, <1>2, <1>3, <1>4 DEF Days

LEMMA UsageType ==
  /\ Unused \in Usage
  /\ \A x, y \in Usage : Plus(x, y) \in Usage
  /\ \A active, processes : TickTime(active, processes) \in Usage
  BY DEF Unused, Usage, Plus, TickTime

LEMMA FreshType == FreshTracker \in Report
  <1>1. << >> \in [{} -> Session] OBVIOUS
  <1> QED BY <1>1, UsageType DEF FreshTracker, Report

LEMMA ReportType ==
  ASSUME NEW t \in Report
  PROVE  /\ \A users \in SUBSET Users : \A active, processes :
              TrackerTick(t, users, active, processes) \in Report
         /\ \A r \in Report : Merge(t, r) \in Report
         /\ DOMAIN t.sessions \in SUBSET Users
  <1>1. PICK known \in SUBSET Users : t.sessions \in [known -> Session] BY DEF Report
  <1>2. ASSUME NEW users \in SUBSET Users, NEW active, NEW processes
        PROVE  TrackerTick(t, users, active, processes) \in Report
    <2>1. known \cup users \in SUBSET Users OBVIOUS
    <2>2. Update(t.sessions, [u \in users |-> IF u \in active THEN "online" ELSE "idle"])
            \in [known \cup users -> Session]
      BY <1>1 DEF Update, Session
    <2>3. Plus(t.time, TickTime(active, processes)) \in Usage BY UsageType DEF Report
    <2> QED BY <2>1, <2>2, <2>3 DEF TrackerTick, Report
  <1>3. ASSUME NEW r \in Report PROVE Merge(t, r) \in Report
    <2>1. Plus(t.time, r.time) \in Usage /\ t.time \in Usage BY UsageType DEF Report
    <2>2. [t.time EXCEPT !.apps = Plus(t.time, r.time).apps] \in Usage BY <2>1 DEF Usage
    <2>3. Merge(t, r) = [t EXCEPT !.time = [t.time EXCEPT !.apps = Plus(t.time, r.time).apps]]
      BY DEF Merge, Report
    <2> QED BY <2>2, <2>3 DEF Report
  <1> QED BY <1>1, <1>2, <1>3

LEMMA FaultType ==
  ASSUME TypeOK, NEW kind, Fault(kind)
  PROVE  faults' \in 0 .. MaxFaults /\ happened' \subseteq Faults
  BY ActivityAssumption DEF TypeOK, Fault

(* The sums of a page are numbers. *)
LEMMA DaySumsType ==
  ASSUME TypeOK, NEW d \in Days
  PROVE  DaySums(d) \in Usage
  <1>1. ASSUME NEW f \in [Hosts -> Nat] PROVE SumFunction(f) \in Nat
    BY <1>1, ActivityAssumption, SumMonotone DEF SumFunction
  <1>2. \A u \in Users : [h \in Hosts |-> rows[d][h].screen[u]] \in [Hosts -> Nat] BY DEF TypeOK, Usage
  <1>3. \A u \in Users, a \in Apps : [h \in Hosts |-> rows[d][h].apps[u][a]] \in [Hosts -> Nat]
    BY DEF TypeOK, Usage
  <1> QED BY <1>1, <1>2, <1>3 DEF DaySums, Usage

(***************************************************************************)
(* A step of a handler: it replaces its request by one that differs in its *)
(* stage and its date.                                                     *)
(***************************************************************************)
LEMMA Handled ==
  ASSUME TypeOK, NEW r \in requests, Accept(r) \/ Commit(r) \/ UpdateStatuses(r)
  PROVE  /\ UNCHANGED << now, daemon, registered, page, history >>
         /\ \E new \in Request :
              /\ requests' = (requests \ {r}) \cup {new}
              /\ new.host = r.host /\ new.cycle = r.cycle /\ new.report = r.report
              /\ new.stage \in {"stamped", "committed", "done"} => new.date \in Days
              /\ \/ /\ Accept(r) /\ r.stage = "arrived"
                    /\ \/ new.stage = "stamped" /\ r.host \in registered
                       \/ new.stage = "refused" /\ r.host \notin registered
                    /\ UNCHANGED << rows, statuses, mishaps >>
                 \/ /\ Commit(r) /\ r.stage = "stamped" /\ new.stage = "committed"
                    /\ rows' = Upsert(rows, r) /\ UNCHANGED << statuses, mishaps >>
                 \/ /\ Commit(r) /\ r.stage = "stamped" /\ new.stage = "refused"
                    /\ Fault("record") /\ UNCHANGED << rows, statuses >>
                 \/ /\ UpdateStatuses(r) /\ r.stage = "committed" /\ new.stage = "done"
                    /\ UNCHANGED << rows, mishaps >>
  <1>0. r \in Request /\ now \in 0 .. MaxTime BY DEF TypeOK
  <1>1. CASE Accept(r)
    <2>1. CASE r.host \in registered
      <3> DEFINE new == [r EXCEPT !.stage = "stamped", !.date = Day(now)]
      <3>1. new \in Request /\ new.date \in Days BY <1>0, DaysType DEF Request
      <3>2. new.host = r.host /\ new.cycle = r.cycle /\ new.report = r.report /\ new.stage = "stamped"
        BY <1>0 DEF Request
      <3>3. requests' = (requests \ {r}) \cup {new} BY <1>1, <2>1 DEF Accept
      <3> HIDE DEF new
      <3> QED BY <1>1, <2>1, <3>1, <3>2, <3>3 DEF Accept
    <2>2. CASE r.host \notin registered
      <3> DEFINE new == [r EXCEPT !.stage = "refused"]
      <3>2. /\ new \in Request /\ new.stage = "refused"
            /\ new.host = r.host /\ new.cycle = r.cycle /\ new.report = r.report
        BY <1>0 DEF Request
      <3>3. requests' = (requests \ {r}) \cup {new} BY <1>1, <2>2 DEF Accept, Step
      <3> HIDE DEF new
      <3> QED BY <1>1, <2>2, <3>2, <3>3 DEF Accept
    <2> QED BY <2>1, <2>2
  <1>2. CASE Commit(r)
    <2>0. r.date \in Days BY <1>2 DEF Commit, TypeOK
    <2>1. CASE rows' = Upsert(rows, r) /\ Step(r, "committed") /\ UNCHANGED mishaps
      <3> DEFINE new == [r EXCEPT !.stage = "committed"]
      <3>2. /\ new \in Request /\ new.stage = "committed" /\ new.date = r.date
            /\ new.host = r.host /\ new.cycle = r.cycle /\ new.report = r.report
        BY <1>0 DEF Request
      <3>3. requests' = (requests \ {r}) \cup {new} BY <2>1 DEF Step
      <3> HIDE DEF new
      <3> QED BY <1>2, <2>0, <2>1, <3>2, <3>3 DEF Commit
    <2>2. CASE Fault("record") /\ Step(r, "refused") /\ UNCHANGED rows
      <3> DEFINE new == [r EXCEPT !.stage = "refused"]
      <3>2. /\ new \in Request /\ new.stage = "refused"
            /\ new.host = r.host /\ new.cycle = r.cycle /\ new.report = r.report
        BY <1>0 DEF Request
      <3>3. requests' = (requests \ {r}) \cup {new} BY <2>2 DEF Step
      <3> HIDE DEF new
      <3> QED BY <1>2, <2>2, <3>2, <3>3 DEF Commit
    <2> QED BY <1>2, <2>1, <2>2 DEF Commit
  <1>3. CASE UpdateStatuses(r)
    <2>0. r.date \in Days BY <1>3 DEF UpdateStatuses, TypeOK
    <2> DEFINE new == [r EXCEPT !.stage = "done"]
    <2>2. /\ new \in Request /\ new.stage = "done" /\ new.date = r.date
          /\ new.host = r.host /\ new.cycle = r.cycle /\ new.report = r.report
      BY <1>0 DEF Request
    <2>3. requests' = (requests \ {r}) \cup {new} BY <1>3 DEF Step, UpdateStatuses
    <2> HIDE DEF new
    <2> QED BY <1>3, <2>0, <2>2, <2>3 DEF UpdateStatuses
  <1> QED BY <1>1, <1>2, <1>3

-----------------------------------------------------------------------------
(* Type correctness. *)

LEMMA TypeInit == Init => TypeOK
  <1> SUFFICES ASSUME Init PROVE TypeOK OBVIOUS
  <1>1. now \in 0 .. MaxTime /\ faults \in 0 .. MaxFaults BY ActivityAssumption DEF Init
  <1>2. tracker \in [Hosts -> Report] /\ sent \in [Hosts -> Report] BY FreshType DEF Init
  <1>3. /\ rows \in [Days -> [Hosts -> Usage]] /\ used \in [Hosts -> Usage]
        /\ page \in [day : Days, made : 0 .. 2, time : Usage]
    BY UsageType, DaysType DEF Init, NoPage
  <1>4. DOMAIN statuses = {} BY DEF Init
  <1> QED BY <1>1, <1>2, <1>3, <1>4 DEF Init, TypeOK

(* What a daemon does. *)
LEMMA DaemonType ==
  ASSUME TypeOK, NEW h \in Hosts,
         \/ Start(h) \/ Answered(h) \/ Failed(h) \/ Exit(h)
         \/ \E users \in SUBSET Users : \E active \in SUBSET users :
              \E processes \in [active -> SUBSET Exes] :
                \/ TrustedCycle(h, users, active, processes)
                \/ UntrustedCycle(h, users, active, processes)
  PROVE  TypeOK'
  <1> USE DEF mishaps, daemon, server, back, history
  <1>1. CASE Start(h)
    <2>1. faults' \in 0 .. MaxFaults /\ happened' \subseteq Faults /\ registered' \subseteq Hosts
      BY <1>1, FaultType DEF Start, RegisterClient, Register, TypeOK
    <2> QED BY <1>1, <2>1 DEF Start, TypeOK
  <1>2. CASE Answered(h)
    <2>1. sent' \in [Hosts -> Report] BY <1>2, FreshType DEF Answered, TypeOK
    <2>2. requests' \subseteq requests BY <1>2 DEF Answered
    <2> QED BY <1>2, <2>1, <2>2 DEF Answered, TypeOK
  <1>3. CASE Failed(h)
    <2>1. sent' \in [Hosts -> Report] /\ tracker' \in [Hosts -> Report]
      BY <1>3, FreshType, ReportType DEF Failed, TypeOK
    <2>2. requests' \subseteq requests BY <1>3 DEF Failed
    <2>3. faults' \in 0 .. MaxFaults /\ happened' \subseteq Faults BY <1>3, FaultType DEF Failed, TypeOK
    <2> QED BY <1>3, <2>1, <2>2, <2>3 DEF Failed, TypeOK
  <1>4. CASE Exit(h)
    <2>1. sent' \in [Hosts -> Report] /\ tracker' \in [Hosts -> Report] BY <1>4, FreshType DEF Exit, TypeOK
    <2>2. faults' \in 0 .. MaxFaults /\ happened' \subseteq Faults BY <1>4, FaultType DEF Exit
    <2> QED BY <1>4, <2>1, <2>2 DEF Exit, TypeOK
  <1>5. ASSUME NEW users \in SUBSET Users, NEW active \in SUBSET users, NEW processes,
               \/ TrustedCycle(h, users, active, processes)
               \/ UntrustedCycle(h, users, active, processes)
        PROVE  TypeOK'
    <2>1. tracker[h] \in Report /\ used[h] \in Usage BY DEF TypeOK
    <2>2. TrackerTick(tracker[h], users, active, processes) \in Report BY <2>1, ReportType
    <2>3. used' \in [Hosts -> Usage]
      BY <1>5, <2>1, UsageType DEF TypeOK, Measure, TrustedCycle, UntrustedCycle
    <2>4. cycle' \in [Hosts -> Nat] /\ fired' \in [Hosts -> BOOLEAN]
      <3>1. BeginCycle(h) BY <1>5 DEF TrustedCycle, UntrustedCycle
      <3>2. cycle' \in [Hosts -> Nat] BY <3>1 DEF TypeOK, BeginCycle
      <3>3. fired' \in [Hosts -> BOOLEAN] BY <3>1, Zenon DEF TypeOK, BeginCycle
      <3> QED BY <3>2, <3>3
    <2>5. faults' \in 0 .. MaxFaults /\ happened' \subseteq Faults
      BY <1>5, FaultType DEF TypeOK, TrustedCycle, UntrustedCycle
    <2>6. tracker' \in [Hosts -> Report] /\ sent' \in [Hosts -> Report]
      BY <1>5, <2>2, FreshType DEF TypeOK, TrustedCycle, UntrustedCycle, Flush
    <2>7. pc' \in [Hosts -> {"down", "first", "idle", "wait"}]
      BY <1>5 DEF TypeOK, TrustedCycle, UntrustedCycle
    <2>8. /\ requests' \subseteq Request
          /\ \A r \in requests' : r.stage \in {"stamped", "committed", "done"} => r.date \in Days
      <3> DEFINE request == [host |-> h, cycle |-> cycle[h] + 1,
                             report |-> TrackerTick(tracker[h], users, active, processes),
                             stage |-> "arrived", date |-> NoDate]
      <3>1. requests' \subseteq requests \cup {request} BY <1>5 DEF TrustedCycle, UntrustedCycle
      <3>2. request \in Request /\ request.stage = "arrived" BY <2>2 DEF Request, TypeOK
      <3> HIDE DEF request
      <3> QED BY <3>1, <3>2 DEF TypeOK
    <2>9. UNCHANGED << now, registered, rows, statuses, page, starts >>
      BY <1>5 DEF TrustedCycle, UntrustedCycle
    <2> QED BY <2>3, <2>4, <2>5, <2>6, <2>7, <2>8, <2>9 DEF TypeOK
  <1> QED BY <1>1, <1>2, <1>3, <1>4, <1>5

(* What the server does, and the clock. *)
LEMMA ServerType ==
  ASSUME TypeOK,
         \/ Tick \/ Restart \/ FillPage \/ \E day \in Days : OpenPage(day)
         \/ \E r \in requests : Accept(r) \/ Commit(r) \/ UpdateStatuses(r) \/ Forget(r)
  PROVE  TypeOK'
  <1> USE DEF mishaps, daemon, server, back, history
  <1>1. CASE Tick BY <1>1, ActivityAssumption DEF Tick, TypeOK
  <1>2. CASE Restart
    <2>1. faults' \in 0 .. MaxFaults /\ happened' \subseteq Faults BY <1>2, FaultType DEF Restart
    <2>2. requests' = {} /\ DOMAIN statuses' = {} BY <1>2 DEF Restart
    <2> QED BY <1>2, <2>1, <2>2 DEF Restart, TypeOK
  <1>3. CASE FillPage
    <2>1. page \in [day : Days, made : 0 .. 2, time : Usage] /\ DaySums(page.day) \in Usage
      BY DaySumsType DEF TypeOK
    <2> DEFINE time == [page.time EXCEPT !["screen"] = DaySums(page.day).screen]
    <2>3. time \in Usage BY <2>1 DEF Usage
    <2>4. page' = [page EXCEPT !.made = 2, !.time = time] BY <1>3 DEF FillPage, Queries
    <2>5. page' = [day |-> page.day, made |-> 2, time |-> time] BY <2>1, <2>4
    <2>2. page' \in [day : Days, made : 0 .. 2, time : Usage] BY <2>1, <2>3, <2>5
    <2> QED BY <1>3, <2>2 DEF FillPage, TypeOK
  <1>4. ASSUME NEW day \in Days, OpenPage(day) PROVE TypeOK'
    <2>1. DaySums(day) \in Usage /\ Unused \in Usage BY DaySumsType, UsageType
    <2>2. [Unused EXCEPT !["apps"] = DaySums(day).apps] \in Usage BY <2>1 DEF Usage
    <2>3. page' \in [day : Days, made : 0 .. 2, time : Usage]
      BY <1>4, <2>2 DEF OpenPage, Queries
    <2>4. faults' \in 0 .. MaxFaults BY <1>4, ActivityAssumption DEF OpenPage, TypeOK
    <2> QED BY <1>4, <2>3, <2>4 DEF OpenPage, TypeOK
  <1>5. ASSUME NEW r \in requests, Accept(r) \/ Commit(r) \/ UpdateStatuses(r) PROVE TypeOK'
    <2>0. r \in Request BY DEF TypeOK
    <2>1. UNCHANGED << now, daemon, registered, page, history >> BY <1>5, Handled
    <2>2. PICK new \in Request :
            /\ requests' = (requests \ {r}) \cup {new}
            /\ new.stage \in {"stamped", "committed", "done"} => new.date \in Days
      BY <1>5, Handled
    <2>3. /\ requests' \subseteq Request
          /\ \A q \in requests' : q.stage \in {"stamped", "committed", "done"} => q.date \in Days
      BY <2>2 DEF TypeOK
    <2>4. faults' \in 0 .. MaxFaults /\ happened' \subseteq Faults
      BY <1>5, FaultType DEF TypeOK, Accept, Commit, UpdateStatuses
    <2>5. rows' \in [Days -> [Hosts -> Usage]]
      <3>1. CASE UNCHANGED rows BY <3>1 DEF TypeOK
      <3>2. CASE Commit(r) /\ rows' = Upsert(rows, r)
        <4>1. r.date \in Days /\ r.host \in Hosts /\ r.report.time \in Usage
          BY <2>0, <3>2 DEF Commit, TypeOK, Request, Report
        <4>2. Plus(rows[r.date][r.host], r.report.time) \in Usage BY <4>1, UsageType DEF TypeOK
        <4> QED BY <3>2, <4>1, <4>2 DEF Upsert, TypeOK
      <3> QED BY <1>5, <3>1, <3>2 DEF Accept, Commit, UpdateStatuses
    <2>6. DOMAIN statuses' \subseteq Users /\ \A u \in DOMAIN statuses' : statuses'[u] \in Status
      <3>1. CASE UNCHANGED statuses BY <3>1 DEF TypeOK
      <3>2. CASE UpdateStatuses(r)
        <4>1. PICK known \in SUBSET Users : r.report.sessions \in [known -> Session]
          BY <2>0 DEF Request, Report
        <4> DEFINE set == [u \in DOMAIN r.report.sessions |->
                             [status |-> r.report.sessions[u], host |-> r.host, cycle |-> r.cycle]]
        <4>2. DOMAIN set = known /\ \A u \in known : set[u] \in Status
          BY <2>0, <4>1 DEF Status, Request
        <4>3. statuses' = Update(statuses, set) BY <3>2 DEF UpdateStatuses
        <4> HIDE DEF set
        <4> QED BY <4>1, <4>2, <4>3 DEF Update, TypeOK
      <3> QED BY <1>5, <3>1, <3>2 DEF Accept, Commit
    <2> QED BY <2>1, <2>3, <2>4, <2>5, <2>6 DEF TypeOK
  <1>6. ASSUME NEW r \in requests, Forget(r) PROVE TypeOK'
    <2>1. requests' \subseteq requests BY <1>6 DEF Forget
    <2> QED BY <1>6, <2>1 DEF Forget, TypeOK
  <1> QED BY <1>1, <1>2, <1>3, <1>4, <1>5, <1>6

LEMMA TypeNext == TypeOK /\ [Next]_vars => TypeOK'
  <1>1. ASSUME TypeOK, UNCHANGED vars PROVE TypeOK'
    BY <1>1 DEF TypeOK, vars, mishaps, daemon, server, back, history
  <1> QED BY <1>1, DaemonType, ServerType DEF Next

(***************************************************************************)
(* Trackers, reports, requests, tables and statuses keep their types: what *)
(* the server adds up and shows is of known hosts and users, dated by days.*)
(***************************************************************************)
THEOREM TypeCorrect == Spec => []TypeOK
  BY TypeInit, TypeNext, PTL DEF Spec

-----------------------------------------------------------------------------
(* The requests and the cycles. *)

(* A daemon only ever stops to wait, and requests only ever go. *)
LEMMA Fewer ==
  ASSUME TypeOK, Requested, requests' \subseteq requests, UNCHANGED cycle,
         \A h \in Hosts : pc'[h] = "wait" => pc[h] = "wait" /\ sent'[h] = sent[h]
  PROVE  Requested'
  <1>1. \A r \in requests' : r.host \in Hosts BY DEF TypeOK, Request
  <1>2. IsFiniteSet(requests') BY FS_Subset DEF Requested
  <1> QED BY <1>1, <1>2 DEF Requested

(***************************************************************************)
(* What becomes of what a cycle has measured: it stays in the tracker of a *)
(* daemon that was answered by nobody, there is nothing to report, or it is*)
(* sent, and the request arrives or is lost.                               *)
(***************************************************************************)
Outcome(h, measured) ==
  \/ pc'[h] = "idle" /\ tracker'[h] = measured /\ UNCHANGED << sent, requests >>
  \/ /\ NothingToReport(measured)
     /\ pc'[h] = "idle" /\ UNCHANGED << sent, requests, tracker, mishaps >>
  \/ /\ pc'[h] = "wait" /\ tracker'[h] = FreshTracker /\ sent'[h] = measured
     /\ \/ /\ \E new \in Request :
                /\ requests' = requests \cup {new} /\ new.host = h
                /\ new.cycle = cycle[h] + 1 /\ new.report = sent'[h] /\ new.stage = "arrived"
           /\ UNCHANGED mishaps
        \/ UNCHANGED requests /\ Fault("send")

LEMMA CycleRequests ==
  ASSUME TypeOK, NEW h \in Hosts, NEW users \in SUBSET Users, NEW active \in SUBSET users, NEW processes,
         \/ TrustedCycle(h, users, active, processes)
         \/ UntrustedCycle(h, users, active, processes)
  PROVE  /\ BeginCycle(h) /\ Measure(h, active, processes)
         /\ UNCHANGED << now, rows, statuses, registered, page, starts >>
         /\ \A g \in Hosts : cycle'[g] = IF g = h THEN cycle[h] + 1 ELSE cycle[g]
         /\ \A g \in Hosts \ {h} : pc'[g] = pc[g] /\ sent'[g] = sent[g] /\ tracker'[g] = tracker[g]
         /\ Outcome(h, TrackerTick(tracker[h], users, active, processes))
  <1> DEFINE measured == TrackerTick(tracker[h], users, active, processes)
             new == [host |-> h, cycle |-> cycle[h] + 1, report |-> measured,
                     stage |-> "arrived", date |-> NoDate]
  <1>1. measured \in Report BY ReportType DEF TypeOK
  <1>2. new \in Request /\ new.host = h /\ new.cycle = cycle[h] + 1 /\ new.report = measured /\ new.stage = "arrived"
    BY <1>1 DEF Request, TypeOK
  <1>0. BeginCycle(h) /\ Measure(h, active, processes) BY DEF TrustedCycle, UntrustedCycle
  <1>5. \A g \in Hosts : cycle'[g] = IF g = h THEN cycle[h] + 1 ELSE cycle[g]
    BY <1>0 DEF BeginCycle, TypeOK
  <1>3. CASE UntrustedCycle(h, users, active, processes)
    BY <1>0, <1>3, <1>5 DEF UntrustedCycle, back, server, TypeOK, Outcome
  <1>4. CASE TrustedCycle(h, users, active, processes)
    <2>1. CASE NothingToReport(measured) BY <1>0, <1>4, <1>5, <2>1 DEF TrustedCycle, TypeOK, Outcome
    <2>2. CASE ~ NothingToReport(measured)
      <3>1. /\ BeginCycle(h) /\ Measure(h, active, processes)
            /\ pc' = [pc EXCEPT ![h] = "wait"]
            /\ sent' = [sent EXCEPT ![h] = measured]
            /\ tracker' = [tracker EXCEPT ![h] = FreshTracker]
            /\ \/ requests' = requests \cup {new} /\ UNCHANGED mishaps
               \/ Fault("send") /\ UNCHANGED requests
            /\ UNCHANGED << now, rows, statuses, registered, page, starts >>
        BY <1>4, <2>2 DEF TrustedCycle, Flush
      <3>2. /\ sent'[h] = measured /\ pc'[h] = "wait" /\ tracker'[h] = FreshTracker
            /\ \A g \in Hosts \ {h} : pc'[g] = pc[g] /\ sent'[g] = sent[g] /\ tracker'[g] = tracker[g]
        BY <3>1 DEF TypeOK
      <3> HIDE DEF new, measured
      <3>3. \/ /\ \E q \in Request :
                    /\ requests' = requests \cup {q} /\ q.host = h
                    /\ q.cycle = cycle[h] + 1 /\ q.report = sent'[h] /\ q.stage = "arrived"
               /\ UNCHANGED mishaps
            \/ UNCHANGED requests /\ Fault("send")
        BY <1>2, <3>1, <3>2
      <3> QED BY <1>5, <3>1, <3>2, <3>3 DEF measured, Outcome
    <2> QED BY <2>1, <2>2
  <1> QED BY <1>3, <1>4

LEMMA RequestedNext ==
  ASSUME TypeOK, Requested, Next
  PROVE  Requested'
  <1> USE DEF mishaps, daemon, server, back, history
  <1>1. ASSUME Tick \/ Restart \/ FillPage \/ \E day \in Days : OpenPage(day) PROVE Requested'
    <2>1. requests' \subseteq requests /\ UNCHANGED << cycle, pc, sent >>
      BY <1>1 DEF Tick, Restart, FillPage, OpenPage
    <2> QED BY <2>1, Fewer
  <1>2. ASSUME NEW h \in Hosts, Start(h) \/ Answered(h) \/ Failed(h) \/ Exit(h) PROVE Requested'
    <2>1. /\ requests' \subseteq requests /\ UNCHANGED cycle
          /\ \A g \in Hosts : g # h => pc'[g] = pc[g] /\ sent'[g] = sent[g]
          /\ pc'[h] # "wait"
      BY <1>2 DEF Start, Answered, Failed, Exit, TypeOK
    <2> QED BY <2>1, Fewer
  <1>3. ASSUME NEW r \in requests, Forget(r) PROVE Requested'
    <2>1. requests' \subseteq requests /\ UNCHANGED << cycle, pc, sent >> BY <1>3 DEF Forget
    <2> QED BY <2>1, Fewer
  <1>4. ASSUME NEW r \in requests, Accept(r) \/ Commit(r) \/ UpdateStatuses(r) PROVE Requested'
    <2>1. UNCHANGED << cycle, pc, sent >> BY <1>4, Handled
    <2>2. PICK new \in Request :
            /\ requests' = (requests \ {r}) \cup {new}
            /\ new.host = r.host /\ new.cycle = r.cycle /\ new.report = r.report
      BY <1>4, Handled
    <2>3. IsFiniteSet(requests') BY <2>2, FS_AddElement, FS_RemoveElement DEF Requested
    <2> QED BY <2>1, <2>2, <2>3 DEF Requested
  <1>5. ASSUME NEW h \in Hosts, NEW users \in SUBSET Users, NEW active \in SUBSET users, NEW processes,
               \/ TrustedCycle(h, users, active, processes)
               \/ UntrustedCycle(h, users, active, processes)
        PROVE  Requested'
    <2>0. \A r \in requests : r.host \in Hosts /\ r.cycle \in Nat /\ cycle[r.host] \in Nat BY DEF TypeOK, Request
    <2>2. /\ \A g \in Hosts : cycle'[g] = IF g = h THEN cycle[h] + 1 ELSE cycle[g]
          /\ \A g \in Hosts \ {h} : pc'[g] = pc[g] /\ sent'[g] = sent[g]
      BY <1>5, CycleRequests
    <2>3. CASE UNCHANGED requests
      <3>1. \A r \in requests : r.cycle =< cycle'[r.host] /\ (r.host = h => r.cycle # cycle'[h])
        BY <2>0, <2>2 DEF Requested
      <3> QED BY <2>0, <2>2, <2>3, <3>1 DEF Requested
    <2>4. ASSUME NEW new \in Request, requests' = requests \cup {new}, new.host = h,
                 new.cycle = cycle[h] + 1, new.report = sent'[h]
          PROVE  Requested'
      <3>1. \A r \in requests : r.cycle =< cycle'[r.host] /\ (r.host = h => r.cycle # cycle'[h])
        BY <2>0, <2>2 DEF Requested
      <3>2. IsFiniteSet(requests') BY <2>4, FS_AddElement DEF Requested
      <3>3. \A r \in requests' : r \in requests \/ (r = new /\ r.cycle = cycle'[h])
        BY <2>2, <2>4
      <3>4. \A r, q \in requests' : r.host = q.host /\ r.cycle = q.cycle => r = q
        BY <2>4, <3>1, <3>3 DEF Requested
      <3>5. \A r \in requests' :
              /\ r.cycle =< cycle'[r.host]
              /\ pc'[r.host] = "wait" /\ r.cycle = cycle'[r.host] => r.report = sent'[r.host]
        <4> TAKE r \in requests'
        <4>1. CASE r \in requests BY <2>0, <2>2, <3>1, <4>1 DEF Requested
        <4>2. CASE r = new BY <2>2, <2>4, <4>2 DEF TypeOK, Request
        <4> QED BY <3>3, <4>1, <4>2
      <3> QED BY <3>2, <3>4, <3>5 DEF Requested
    <2>5. \/ UNCHANGED requests
          \/ \E new \in Request : /\ requests' = requests \cup {new} /\ new.host = h
                                  /\ new.cycle = cycle[h] + 1 /\ new.report = sent'[h]
      <3>1. Outcome(h, TrackerTick(tracker[h], users, active, processes)) BY <1>5, CycleRequests
      <3> QED BY <3>1 DEF Outcome
    <2> QED BY <2>3, <2>4, <2>5
  <1> QED BY <1>1, <1>2, <1>3, <1>4, <1>5 DEF Next

(* Time, and how often a daemon has measured it. *)
LEMMA ClockedNext ==
  ASSUME TypeOK, Clocked, Next
  PROVE  Clocked'
  <1> USE DEF mishaps, daemon, server, back, history
  <1>0. now \in Nat /\ \A h \in Hosts : cycle[h] \in Nat /\ starts[h] \in Nat /\ fired[h] \in BOOLEAN
    BY DEF TypeOK
  <1>1. CASE Tick
    <2>1. /\ now' = now + 1 /\ UNCHANGED << pc, cycle, starts, used >>
          /\ \A h \in Hosts : fired'[h] = (pc[h] # "down")
      BY <1>1 DEF Tick
    <2> QED BY <1>0, <2>1 DEF Clocked
  <1>2. ASSUME NEW h \in Hosts, Start(h) PROVE Clocked'
    <2>1. /\ UNCHANGED << now, fired, cycle, used >>
          /\ \A g \in Hosts : /\ pc'[g] = IF g = h THEN "first" ELSE pc[g]
                              /\ starts'[g] = IF g = h THEN starts[h] + 1 ELSE starts[g]
          /\ pc[h] = "down"
      BY <1>2 DEF Start, TypeOK
    <2> QED BY <1>0, <2>1 DEF Clocked
  <1>3. ASSUME NEW h \in Hosts, Answered(h) \/ Failed(h) \/ Exit(h) PROVE Clocked'
    <2>1. /\ UNCHANGED << now, cycle, starts, used >>
          /\ \A g \in Hosts : g # h => pc'[g] = pc[g] /\ fired'[g] = fired[g]
          /\ \/ pc'[h] = "idle" /\ fired'[h] = fired[h] /\ pc[h] = "wait"
             \/ pc'[h] = "down" /\ ~ fired'[h] /\ pc[h] # "down"
      <3>1. CASE Answered(h) BY <3>1 DEF Answered, Awaited, TypeOK
      <3>2. CASE Failed(h) BY <3>2 DEF Failed, TypeOK
      <3>3. CASE Exit(h) BY <3>3 DEF Exit, TypeOK
      <3> QED BY <1>3, <3>1, <3>2, <3>3
    <2> QED BY <1>0, <2>1 DEF Clocked
  <1>4. ASSUME NEW h \in Hosts, NEW users \in SUBSET Users, NEW active \in SUBSET users, NEW processes,
               \/ TrustedCycle(h, users, active, processes)
               \/ UntrustedCycle(h, users, active, processes)
        PROVE  Clocked'
    <2>1. /\ BeginCycle(h) /\ Measure(h, active, processes) /\ UNCHANGED << now, starts >>
          /\ \A g \in Hosts : cycle'[g] = IF g = h THEN cycle[h] + 1 ELSE cycle[g]
          /\ \A g \in Hosts \ {h} : pc'[g] = pc[g]
          /\ pc'[h] \in {"idle", "wait"}
      BY <1>4, CycleRequests DEF Outcome
    <2>2. /\ \A g \in Hosts \ {h} : fired'[g] = fired[g]
          /\ fired'[h] => fired[h] /\ pc[h] = "first"
          /\ pc[h] = "first" \/ (pc[h] = "idle" /\ fired[h])
      BY <2>1 DEF BeginCycle, TypeOK
    <2>3. \A g \in Hosts \ {h} : used'[g] = used[g] BY <2>1 DEF Measure, TypeOK
    <2>4. \A u \in Users : used'[h].screen[u] =< used[h].screen[u] + 1 /\ used'[h].screen[u] \in Nat
                           /\ used[h].screen[u] \in Nat
      <3>1. used[h] \in Usage /\ used'[h] = Plus(used[h], TickTime(active, processes))
        BY <2>1 DEF Measure, TypeOK
      <3> QED BY <3>1 DEF Usage, Plus, TickTime
    <2>5. /\ fired'[h] => pc'[h] # "down"
          /\ cycle'[h] + (IF pc'[h] = "first" THEN 1 ELSE 0) + (IF fired'[h] THEN 1 ELSE 0)
               =< now' + starts'[h]
      BY <1>0, <2>1, <2>2 DEF Clocked
    <2>6. \A u \in Users : used'[h].screen[u] =< cycle'[h] BY <1>0, <2>1, <2>4 DEF Clocked
    <2>7. \A g \in Hosts \ {h} :
            /\ fired'[g] => pc'[g] # "down"
            /\ cycle'[g] + (IF pc'[g] = "first" THEN 1 ELSE 0) + (IF fired'[g] THEN 1 ELSE 0)
                 =< now' + starts'[g]
            /\ \A u \in Users : used'[g].screen[u] =< cycle'[g]
      BY <1>0, <2>1, <2>2, <2>3 DEF Clocked
    <2> QED BY <2>5, <2>6, <2>7 DEF Clocked
  <1>5. ASSUME UNCHANGED << now, pc, fired, cycle, starts, used >> PROVE Clocked'
    BY <1>5 DEF Clocked
  <1>6. ASSUME Restart \/ FillPage \/ \E day \in Days : OpenPage(day)
        PROVE  UNCHANGED << now, pc, fired, cycle, starts, used >>
    BY <1>6 DEF Restart, FillPage, OpenPage
  <1>7. ASSUME NEW r \in requests, Accept(r) \/ Commit(r) \/ UpdateStatuses(r) \/ Forget(r)
        PROVE  UNCHANGED << now, pc, fired, cycle, starts, used >>
    <2>1. CASE Forget(r) BY <2>1 DEF Forget
    <2>2. CASE Accept(r) \/ Commit(r) \/ UpdateStatuses(r) BY <2>2, Handled
    <2> QED BY <1>7, <2>1, <2>2
  <1> QED BY <1>1, <1>2, <1>3, <1>4, <1>5, <1>6, <1>7 DEF Next

-----------------------------------------------------------------------------
(* The books. *)

LEMMA AmountType ==
  ASSUME NEW u \in Users, NEW x \in Apps \cup {Screen}
  PROVE  /\ \A s \in Usage : Amount(s, u, x) \in Nat
         /\ Amount(Unused, u, x) = 0
         /\ \A s, t \in Usage : Amount(Plus(s, t), u, x) = Amount(s, u, x) + Amount(t, u, x)
  BY DEF Amount, Usage, Unused, Plus

(* Merge gives back the time of the applications, and of these only. *)
LEMMA AmountMerged ==
  ASSUME NEW u \in Users, NEW x \in Apps \cup {Screen}, NEW t \in Report, NEW r \in Report
  PROVE  Amount(Merge(t, r).time, u, x) =
           Amount(t.time, u, x) + IF x = Screen THEN 0 ELSE Amount(r.time, u, x)
  <1>1. t.time \in Usage /\ r.time \in Usage BY DEF Report
  <1>2. Merge(t, r).time = [t.time EXCEPT !.apps = Plus(t.time, r.time).apps] BY DEF Merge, Report
  <1>3. /\ Merge(t, r).time.screen = t.time.screen
        /\ Merge(t, r).time.apps = Plus(t.time, r.time).apps
    BY <1>1, <1>2 DEF Usage
  <1>4. CASE x = Screen
    BY <1>1, <1>3, <1>4, AmountType DEF Amount
  <1>5. CASE x # Screen
    <2>1. Plus(t.time, r.time).apps[u][x] = t.time.apps[u][x] + r.time.apps[u][x]
      BY <1>5 DEF Plus
    <2> QED BY <1>3, <1>5, <2>1 DEF Amount
  <1> QED BY <1>4, <1>5

LEMMA TotalType ==
  ASSUME NEW table \in [Days -> [Hosts -> Usage]], NEW h \in Hosts, NEW u \in Users,
         NEW x \in Apps \cup {Screen}
  PROVE  Total(table, h, u, x) \in Nat
  <1> DEFINE f == [d \in Days |-> Amount(table[d][h], u, x)]
  <1>1. \A d \in Days : f[d] \in Nat BY AmountType
  <1> HIDE DEF f
  <1>2. SumFunctionOnSet(f, Days) \in Nat BY <1>1, DaysType, SumMonotone
  <1> QED BY <1>2 DEF Total, f

(* An upsert adds to the total of its host what its report says. *)
LEMMA TotalUpsert ==
  ASSUME NEW table \in [Days -> [Hosts -> Usage]], NEW h \in Hosts, NEW u \in Users,
         NEW x \in Apps \cup {Screen}, NEW r \in Request, r.date \in Days
  PROVE  Total(Upsert(table, r), h, u, x) =
           Total(table, h, u, x) + IF r.host = h THEN Amount(r.report.time, u, x) ELSE 0
  <1> DEFINE after == Upsert(table, r)
             f == [d \in Days |-> Amount(table[d][h], u, x)]
             e == [d \in Days |-> Amount(after[d][h], u, x)]
  <1>0. r.host \in Hosts /\ r.report.time \in Usage BY DEF Request, Report
  <1>1. Plus(table[r.date][r.host], r.report.time) \in Usage BY <1>0, UsageType
  <1>2. after \in [Days -> [Hosts -> Usage]] BY <1>0, <1>1 DEF Upsert
  <1>3. \A d \in Days : (d # r.date \/ h # r.host) => after[d][h] = table[d][h]
    BY <1>0 DEF Upsert
  <1>4. after[r.date][r.host] = Plus(table[r.date][r.host], r.report.time) BY <1>0 DEF Upsert
  <1> HIDE DEF after
  <1>5. \A d \in Days : f[d] \in Nat /\ e[d] \in Nat BY <1>2, AmountType
  <1>6. \A d \in Days \ {r.date} : f[d] = e[d] BY <1>3
  <1>7. e[r.date] = f[r.date] + IF r.host = h THEN Amount(r.report.time, u, x) ELSE 0
    <2>1. CASE r.host = h
      <3>1. table[r.date][h] \in Usage OBVIOUS
      <3>2. Amount(after[r.date][h], u, x) = Amount(table[r.date][h], u, x) + Amount(r.report.time, u, x)
        <4> DEFINE a == table[r.date][h]
                   b == r.report.time
        <4>1. a \in Usage /\ b \in Usage /\ after[r.date][h] = Plus(a, b) BY <1>0, <1>4, <2>1, <3>1
        <4> HIDE DEF a, b
        <4>2. Amount(Plus(a, b), u, x) = Amount(a, u, x) + Amount(b, u, x) BY <4>1, AmountType
        <4> QED BY <4>1, <4>2 DEF a, b
      <3> QED BY <2>1, <3>2
    <2>2. CASE r.host # h BY <1>3, <1>5, <2>2
    <2> QED BY <2>1, <2>2
  <1> DEFINE more == IF r.host = h THEN Amount(r.report.time, u, x) ELSE 0
  <1>8. more \in Nat BY <1>0, AmountType
  <1>11. f[r.date] \in Nat BY <1>5
  <1> HIDE DEF e, f, more
  <1>9. /\ SumFunctionOnSet(f, Days) \in Nat /\ SumFunctionOnSet(e, Days) \in Nat
        /\ SumFunctionOnSet(e, Days) + f[r.date] = SumFunctionOnSet(f, Days) + e[r.date]
    BY <1>5, <1>6, DaysType, SumUpdate
  <1>12. e[r.date] = f[r.date] + more BY <1>7 DEF more
  <1>10. SumFunctionOnSet(e, Days) = SumFunctionOnSet(f, Days) + more
    <2> DEFINE a == SumFunctionOnSet(e, Days)
               b == SumFunctionOnSet(f, Days)
               c == f[r.date]
               d == e[r.date]
    <2>1. a \in Nat /\ b \in Nat /\ c \in Nat /\ a + c = b + d /\ d = c + more BY <1>9, <1>11, <1>12
    <2> HIDE DEF a, b, c, d
    <2>2. a = b + more BY <1>8, <2>1
    <2> QED BY <2>2 DEF a, b
  <1> QED BY <1>10 DEF Total, after, e, f, more

LEMMA PendingType ==
  ASSUME NEW reqs \in SUBSET Request, IsFiniteSet(reqs), NEW h, NEW u \in Users,
         NEW x \in Apps \cup {Screen}
  PROVE  /\ IsFiniteSet(Pending(reqs, h)) /\ Pending(reqs, h) \subseteq reqs
         /\ PendingTime(reqs, h, u, x) \in Nat
         /\ \A r \in Request : /\ [q \in Request |-> Amount(q.report.time, u, x)][r]
                                    = Amount(r.report.time, u, x)
                               /\ Amount(r.report.time, u, x) \in Nat
  <1> DEFINE f == [r \in Request |-> Amount(r.report.time, u, x)]
  <1>1. \A r \in Request : f[r] = Amount(r.report.time, u, x) /\ Amount(r.report.time, u, x) \in Nat
    BY AmountType DEF Request, Report
  <1>2. IsFiniteSet(Pending(reqs, h)) /\ Pending(reqs, h) \subseteq reqs BY FS_Subset DEF Pending
  <1> HIDE DEF f
  <1>3. SumFunctionOnSet(f, Pending(reqs, h)) \in Nat BY <1>1, <1>2, SumMonotone
  <1> QED BY <1>1, <1>2, <1>3 DEF PendingTime, f

(* One request less. *)
LEMMA PendingLess ==
  ASSUME NEW reqs \in SUBSET Request, IsFiniteSet(reqs), NEW h, NEW u \in Users,
         NEW x \in Apps \cup {Screen}, NEW r \in Pending(reqs, h), NEW reqs2,
         Pending(reqs2, h) = Pending(reqs, h) \ {r}
  PROVE  PendingTime(reqs, h, u, x) = Amount(r.report.time, u, x) + PendingTime(reqs2, h, u, x)
  <1> DEFINE f == [q \in Request |-> Amount(q.report.time, u, x)]
  <1>1. /\ IsFiniteSet(Pending(reqs, h)) /\ r \in Request
        /\ \A q \in Pending(reqs, h) : f[q] \in Nat
        /\ f[r] = Amount(r.report.time, u, x)
    BY PendingType
  <1> HIDE DEF f
  <1>2. SumFunctionOnSet(f, Pending(reqs, h)) = f[r] + SumFunctionOnSet(f, Pending(reqs, h) \ {r})
    BY <1>1, SumRemove
  <1> QED BY <1>1, <1>2 DEF PendingTime, f

(* One request more. *)
LEMMA PendingMore ==
  ASSUME NEW reqs \in SUBSET Request, IsFiniteSet(reqs), NEW h, NEW u \in Users,
         NEW x \in Apps \cup {Screen}, NEW r \in Request, r \notin Pending(reqs, h), NEW reqs2,
         Pending(reqs2, h) = Pending(reqs, h) \cup {r}
  PROVE  PendingTime(reqs2, h, u, x) = PendingTime(reqs, h, u, x) + Amount(r.report.time, u, x)
  <1> DEFINE f == [q \in Request |-> Amount(q.report.time, u, x)]
  <1>1. /\ IsFiniteSet(Pending(reqs, h))
        /\ \A q \in Pending(reqs, h) : f[q] \in Nat
        /\ f[r] = Amount(r.report.time, u, x) /\ f[r] \in Nat
    BY PendingType
  <1> HIDE DEF f
  <1>2. SumFunctionOnSet(f, Pending(reqs, h) \cup {r}) = SumFunctionOnSet(f, Pending(reqs, h)) + f[r]
    BY <1>1, SumAdd
  <1> QED BY <1>1, <1>2 DEF PendingTime, f

(* Faults are not forgotten. *)
LEMMA FaultsStay ==
  ASSUME Next PROVE happened \subseteq happened'
  <1> USE DEF mishaps, Fault
  <1>1. ASSUME Tick \/ Restart \/ FillPage \/ \E day \in Days : OpenPage(day)
        PROVE  happened \subseteq happened'
    BY <1>1 DEF Tick, Restart, FillPage, OpenPage
  <1>2. ASSUME NEW r, Accept(r) \/ Commit(r) \/ UpdateStatuses(r) \/ Forget(r)
        PROVE  happened \subseteq happened'
    BY <1>2 DEF Accept, Commit, UpdateStatuses, Forget
  <1>3. ASSUME NEW h, Start(h) \/ Answered(h) \/ Failed(h) \/ Exit(h)
        PROVE  happened \subseteq happened'
    BY <1>3 DEF Start, RegisterClient, Answered, Failed, Exit
  <1>4. ASSUME NEW h, NEW users, NEW active, NEW processes,
               \/ TrustedCycle(h, users, active, processes)
               \/ UntrustedCycle(h, users, active, processes)
        PROVE  happened \subseteq happened'
    BY <1>4 DEF TrustedCycle, UntrustedCycle
  <1> QED BY <1>1, <1>2, <1>3, <1>4 DEF Next

(* The books of a host that nothing happens to. *)
LEMMA Untouched ==
  ASSUME TypeOK, Requested, NEW h \in Hosts, NEW u \in Users, NEW x \in Apps \cup {Screen}, Book(h, u, x),
         happened \subseteq happened',
         Total(rows', h, u, x) = Total(rows, h, u, x),
         tracker'[h] = tracker[h], sent'[h] = sent[h], used'[h] = used[h],
         cycle'[h] = cycle[h], pc'[h] = pc[h],
         \A r : r.host = h => (r \in requests' <=> r \in requests)
  PROVE  Book(h, u, x)'
  <1>1. Pending(requests', h) = Pending(requests, h) BY DEF Pending
  <1>2. PendingTime(requests', h, u, x) = PendingTime(requests, h, u, x) BY <1>1 DEF PendingTime
  <1>3. Awaited(h)' = Awaited(h) BY DEF Awaited
  <1>4. Unrecorded(h)' <=> Unrecorded(h) BY <1>3 DEF Unrecorded
  <1>5. Faultless' => (Faultless /\ (Backed(h)' <=> Backed(h))) BY <1>3 DEF Backed, Faultless
  <1>6. OnePlace(h, u, x)'
    <2>1. CASE Faultless' BY <1>2, <1>5, <2>1 DEF Book, OnePlace, SentTime
    <2>2. CASE ~ Faultless' /\ x = Screen
      <3>1. SentTime(h, u, x)' = 0 BY <2>2 DEF SentTime, Backed
      <3>2. SentTime(h, u, x) \in Nat BY AmountType DEF SentTime, TypeOK, Report
      <3>3. Total(rows, h, u, x) \in Nat /\ Amount(tracker[h].time, u, x) \in Nat
            /\ Amount(used[h], u, x) \in Nat /\ PendingTime(requests, h, u, x) \in Nat
        BY TotalType, PendingType, AmountType DEF TypeOK, Report, Requested
      <3> QED BY <1>2, <2>2, <3>1, <3>2, <3>3 DEF Book, OnePlace
    <2> QED BY <2>1, <2>2 DEF OnePlace
  <1>7. SomePlace(h, u, x)' BY <1>4 DEF Book, SomePlace, OwnTime
  <1> QED BY <1>6, <1>7 DEF Book

LEMMA BookType ==
  ASSUME TypeOK, Requested, NEW h \in Hosts, NEW u \in Users, NEW x \in Apps \cup {Screen}
  PROVE  /\ Total(rows, h, u, x) \in Nat /\ PendingTime(requests, h, u, x) \in Nat
         /\ Amount(tracker[h].time, u, x) \in Nat /\ Amount(sent[h].time, u, x) \in Nat
         /\ Amount(used[h], u, x) \in Nat
         /\ SentTime(h, u, x) \in Nat /\ OwnTime(h, u, x) \in Nat
  BY TotalType, PendingType, AmountType DEF TypeOK, Report, Requested, SentTime, OwnTime

(* A daemon that does not wait has nothing in a report. *)
LEMMA NothingSent ==
  ASSUME NEW h \in Hosts, NEW u, NEW x
  PROVE  /\ pc[h] # "wait" => SentTime(h, u, x) = 0 /\ OwnTime(h, u, x) = 0
         /\ pc'[h] # "wait" => SentTime(h, u, x)' = 0 /\ OwnTime(h, u, x)' = 0
  BY DEF SentTime, OwnTime, Backed, Unrecorded

(* A start, an answer and an exit. *)
LEMMA DaemonBook ==
  ASSUME TypeOK, Requested, NEW h \in Hosts, NEW u \in Users, NEW x \in Apps \cup {Screen}, Book(h, u, x),
         Next, Start(h) \/ Answered(h) \/ Exit(h)
  PROVE  Book(h, u, x)'
  <1> USE DEF mishaps, daemon, server, back, history
  <1>1. happened \subseteq happened' /\ (Faultless' => Faultless) BY FaultsStay DEF Faultless
  <1>2. /\ rows' = rows /\ used' = used /\ pc'[h] # "wait"
        /\ tracker'[h] = tracker[h] \/ (tracker'[h] = FreshTracker /\ "exit" \in happened')
        /\ requests' \subseteq requests
    BY DEF Start, Answered, Exit, Fault, TypeOK
  <1>3. Pending(requests', h) = Pending(requests, h)
    BY DEF Start, Answered, Exit, Pending
  <1>4. PendingTime(requests', h, u, x) = PendingTime(requests, h, u, x) BY <1>3 DEF PendingTime
  <1>5. /\ SentTime(h, u, x)' = 0 /\ OwnTime(h, u, x)' = 0
        /\ "exit" \notin happened' => OwnTime(h, u, x) = 0
    <2>1. CASE Start(h) BY <1>2, <2>1, NothingSent DEF Start
    <2>2. CASE Answered(h)
      <3>1. ~ Unrecorded(h) BY <2>2 DEF Answered, Unrecorded
      <3> QED BY <1>2, <3>1, NothingSent DEF OwnTime
    <2>3. CASE Exit(h) BY <1>2, <2>3, NothingSent DEF Exit, Fault
    <2> QED BY <2>1, <2>2, <2>3
  <1>6. Amount(FreshTracker.time, u, x) = 0 BY AmountType DEF FreshTracker
  <1>7. OnePlace(h, u, x)'
    BY <1>1, <1>2, <1>4, <1>5, <1>6, BookType DEF Book, OnePlace
  <1>8. SomePlace(h, u, x)'
    BY <1>1, <1>2, <1>5, BookType DEF Book, SomePlace
  <1> QED BY <1>7, <1>8 DEF Book

(* A report that comes back to the tracker. *)
LEMMA FailedBook ==
  ASSUME TypeOK, Requested, NEW h \in Hosts, NEW u \in Users, NEW x \in Apps \cup {Screen}, Book(h, u, x),
         Next, Failed(h)
  PROVE  Book(h, u, x)'
  <1> USE DEF mishaps
  <1>1. happened \subseteq happened' /\ (Faultless' => Faultless) BY FaultsStay DEF Faultless
  <1>2. /\ rows' = rows /\ used' = used /\ pc[h] = "wait" /\ pc'[h] = "idle"
        /\ tracker'[h] = Merge(tracker[h], sent[h])
    BY DEF Failed, TypeOK, history
  <1>3. Pending(requests', h) = Pending(requests, h) BY DEF Failed, Pending
  <1>4. PendingTime(requests', h, u, x) = PendingTime(requests, h, u, x) BY <1>3 DEF PendingTime
  <1>5. SentTime(h, u, x)' = 0 /\ OwnTime(h, u, x)' = 0 BY <1>2, NothingSent
  <1>6. tracker[h] \in Report /\ sent[h] \in Report BY DEF TypeOK
  <1>7. Amount(tracker'[h].time, u, x) =
          Amount(tracker[h].time, u, x) + IF x = Screen THEN 0 ELSE Amount(sent[h].time, u, x)
    BY <1>2, <1>6, AmountMerged
  <1>8. Faultless' => Backed(h)
    <2>1. ASSUME Faultless' PROVE \/ \E r \in Awaited(h) : r.stage = "refused"
                                  \/ Awaited(h) = {}
      BY <2>1 DEF Failed, Faultless, Fault
    <2>2. \A r, q \in Awaited(h) : r = q BY DEF Awaited, Requested
    <2> QED BY <1>1, <1>2, <2>1, <2>2 DEF Backed
  <1>9. OnePlace(h, u, x)'
    <2>1. CASE x = Screen BY <1>1, <1>2, <1>4, <1>5, <1>7, <2>1, BookType DEF Book, OnePlace
    <2>2. CASE x # Screen
      <3>1. Faultless' => SentTime(h, u, x) = Amount(sent[h].time, u, x) BY <1>8 DEF SentTime
      <3> QED BY <1>1, <1>2, <1>4, <1>5, <1>7, <2>2, <3>1, BookType DEF Book, OnePlace
    <2> QED BY <2>1, <2>2
  <1>10. SomePlace(h, u, x)'
    <2>1. CASE x # Screen
      <3>1. OwnTime(h, u, x) =< Amount(sent[h].time, u, x) BY BookType DEF OwnTime
      <3> QED BY <1>1, <1>2, <1>5, <1>7, <2>1, <3>1, BookType DEF Book, SomePlace
    <2> QED BY <2>1 DEF SomePlace
  <1> QED BY <1>9, <1>10 DEF Book

(* What a cycle measures, and sends or keeps. *)
LEMMA CycleBook ==
  ASSUME TypeOK, Requested, NEW h \in Hosts, NEW u \in Users, NEW x \in Apps \cup {Screen}, Book(h, u, x),
         Next, NEW users \in SUBSET Users, NEW active \in SUBSET users, NEW processes,
         \/ TrustedCycle(h, users, active, processes)
         \/ UntrustedCycle(h, users, active, processes)
  PROVE  Book(h, u, x)'
  <1> DEFINE measured == TrackerTick(tracker[h], users, active, processes)
             tick == TickTime(active, processes)
  <1>1. happened \subseteq happened' /\ (Faultless' => Faultless) BY FaultsStay DEF Faultless
  <1>2. /\ BeginCycle(h) /\ Measure(h, active, processes) /\ rows' = rows
        /\ cycle'[h] = cycle[h] + 1
        /\ Outcome(h, measured)
    BY CycleRequests
  <1>3. /\ tick \in Usage /\ tracker[h].time \in Usage /\ used[h] \in Usage
        /\ measured.time = Plus(tracker[h].time, tick)
        /\ used'[h] = Plus(used[h], tick)
    BY <1>2, UsageType DEF TrackerTick, Measure, TypeOK, Report
  <1>4. pc[h] # "wait" BY <1>2 DEF BeginCycle
  <1>5. SentTime(h, u, x) = 0 /\ OwnTime(h, u, x) = 0 BY <1>4, NothingSent
  <1> HIDE DEF measured, tick
  <1>6. PICK n \in Nat : /\ n = Amount(tick, u, x)
                         /\ Amount(used'[h], u, x) = Amount(used[h], u, x) + n
                         /\ Amount(measured.time, u, x) = Amount(tracker[h].time, u, x) + n
    BY <1>3, AmountType
  <1>7. Amount(FreshTracker.time, u, x) = 0 BY AmountType DEF FreshTracker
  <1>8. CASE pc'[h] = "idle" /\ tracker'[h] = measured /\ UNCHANGED << sent, requests >>
    <2>1. SentTime(h, u, x)' = 0 /\ OwnTime(h, u, x)' = 0 BY <1>8, NothingSent
    <2>2. OnePlace(h, u, x)' BY <1>1, <1>2, <1>5, <1>6, <1>8, <2>1, BookType DEF Book, OnePlace
    <2>3. SomePlace(h, u, x)' BY <1>1, <1>2, <1>5, <1>6, <1>8, <2>1, BookType DEF Book, SomePlace
    <2> QED BY <2>2, <2>3 DEF Book
  <1>9. CASE /\ NothingToReport(measured)
             /\ pc'[h] = "idle" /\ UNCHANGED << sent, requests, tracker, mishaps >>
    <2>1. SentTime(h, u, x)' = 0 /\ OwnTime(h, u, x)' = 0 BY <1>9, NothingSent
    <2>2. x # Screen => Amount(measured.time, u, x) = 0
      BY <1>9 DEF NothingToReport, Unused, Amount
    <2>3. OnePlace(h, u, x)' BY <1>1, <1>2, <1>5, <1>6, <1>9, <2>1, BookType DEF Book, OnePlace
    <2>4. SomePlace(h, u, x)'
      BY <1>1, <1>2, <1>5, <1>6, <1>9, <2>1, <2>2, BookType DEF Book, SomePlace
    <2> QED BY <2>3, <2>4 DEF Book
  <1>10. ASSUME pc'[h] = "wait", tracker'[h] = FreshTracker, sent'[h] = measured,
                NEW new \in Request,
                requests' = requests \cup {new}, new.host = h,
                new.cycle = cycle[h] + 1, new.report = sent'[h], new.stage = "arrived"
         PROVE  Book(h, u, x)'
    <2>1. \A r \in requests : r.host = h => r.cycle # cycle[h] + 1
      <3>1. cycle[h] \in Nat /\ \A r \in requests : r.cycle \in Nat BY DEF TypeOK, Request
      <3> QED BY <3>1 DEF Requested
    <2>2. new \notin Pending(requests, h) /\ Pending(requests', h) = Pending(requests, h) \cup {new}
      BY <1>10, <2>1 DEF Pending
    <2>3. PendingTime(requests', h, u, x) = PendingTime(requests, h, u, x) + Amount(measured.time, u, x)
      <3>1. requests \in SUBSET Request /\ IsFiniteSet(requests) BY DEF Requested, TypeOK
      <3>2. PendingTime(requests', h, u, x) = PendingTime(requests, h, u, x) + Amount(new.report.time, u, x)
        BY <2>2, <3>1, PendingMore
      <3> QED BY <1>10, <3>2
    <2>4. Awaited(h)' = {new} BY <1>2, <1>10, <2>1 DEF Awaited
    <2>5. ~ Backed(h)' /\ Unrecorded(h)' BY <1>10, <2>4 DEF Backed, Unrecorded
    <2>6. SentTime(h, u, x)' = 0 /\ OwnTime(h, u, x)' = Amount(measured.time, u, x)
      BY <1>10, <2>5 DEF SentTime, OwnTime
    <2>7. OnePlace(h, u, x)'
      BY <1>1, <1>2, <1>5, <1>6, <1>7, <1>10, <2>3, <2>6, BookType DEF Book, OnePlace
    <2>8. SomePlace(h, u, x)'
      BY <1>1, <1>2, <1>5, <1>6, <1>7, <1>10, <2>6, BookType DEF Book, SomePlace
    <2> QED BY <2>7, <2>8 DEF Book
  <1>11. CASE /\ pc'[h] = "wait" /\ tracker'[h] = FreshTracker /\ sent'[h] = measured
              /\ UNCHANGED requests /\ Fault("send")
    <2>1. \A r \in requests : r.host = h => r.cycle # cycle[h] + 1
      <3>1. cycle[h] \in Nat /\ \A r \in requests : r.cycle \in Nat BY DEF TypeOK, Request
      <3> QED BY <3>1 DEF Requested
    <2>2. Awaited(h)' = {} BY <1>2, <1>11, <2>1 DEF Awaited
    <2>3. Unrecorded(h)' BY <1>11, <2>2 DEF Unrecorded
    <2>4. /\ SentTime(h, u, x)' \in {0, Amount(measured.time, u, x)}
          /\ OwnTime(h, u, x)' = Amount(measured.time, u, x)
      BY <1>11, <2>3 DEF SentTime, OwnTime
    <2>5. OnePlace(h, u, x)'
      BY <1>1, <1>2, <1>5, <1>6, <1>7, <1>11, <2>4, BookType DEF Book, OnePlace
    <2>6. SomePlace(h, u, x)'
      BY <1>1, <1>2, <1>5, <1>6, <1>7, <1>11, <2>4, BookType DEF Book, SomePlace
    <2> QED BY <2>5, <2>6 DEF Book
  <1> QED BY <1>2, <1>8, <1>9, <1>10, <1>11 DEF Outcome

(***************************************************************************)
(* A handler of a request of h: an upsert moves its time from the request  *)
(* to the table; a refusal gives it back to the daemon that waits for it,  *)
(* and to nobody when none does.                                           *)
(***************************************************************************)
LEMMA HandlerBook ==
  ASSUME TypeOK, Requested, NEW h \in Hosts, NEW u \in Users, NEW x \in Apps \cup {Screen}, Book(h, u, x),
         Next, NEW r \in requests, r.host = h, Accept(r) \/ Commit(r) \/ UpdateStatuses(r)
  PROVE  Book(h, u, x)'
  <1> USE DEF daemon, history
  <1>1. happened \subseteq happened' /\ (Faultless' => Faultless) BY FaultsStay DEF Faultless
  <1>2. UNCHANGED << pc, tracker, sent, cycle, used >> BY Handled
  <1>3. PICK new \in Request :
          /\ requests' = (requests \ {r}) \cup {new}
          /\ new.host = r.host /\ new.cycle = r.cycle /\ new.report = r.report
          /\ \/ r.stage = "arrived" /\ new.stage = "stamped" /\ UNCHANGED rows
             \/ r.stage = "arrived" /\ new.stage = "refused" /\ UNCHANGED rows
             \/ r.stage = "stamped" /\ new.stage = "committed" /\ rows' = Upsert(rows, r)
             \/ r.stage = "stamped" /\ new.stage = "refused" /\ UNCHANGED rows
             \/ r.stage = "committed" /\ new.stage = "done" /\ UNCHANGED rows
    BY Handled
  <1>4. /\ r \in Request /\ requests \in SUBSET Request /\ IsFiniteSet(requests)
        /\ rows \in [Days -> [Hosts -> Usage]]
        /\ r.stage = "stamped" => r.date \in Days
    BY DEF TypeOK, Requested
  <1>5. new \notin requests BY <1>3 DEF Requested
  <1> DEFINE a == Amount(r.report.time, u, x)
  <1>6. a \in Nat /\ a = Amount(new.report.time, u, x) BY <1>3, <1>4, AmountType DEF Request, Report
  <1> HIDE DEF a
  (* The requests the daemon waits for. *)
  <1>7. Awaited(h)' = IF r \in Awaited(h) THEN (Awaited(h) \ {r}) \cup {new} ELSE Awaited(h)
    BY <1>2, <1>3 DEF Awaited
  <1>8. r \in Awaited(h) => a = Amount(sent[h].time, u, x) BY DEF Awaited, Requested, a
  <1>9. r \in Awaited(h) => Awaited(h) = {r} /\ Awaited(h)' = {new}
    BY <1>7 DEF Awaited, Requested
  (* The table. *)
  <1>10. Total(rows', h, u, x) = Total(rows, h, u, x) + IF new.stage = "committed" THEN a ELSE 0
    <2>1. CASE rows' = Upsert(rows, r) /\ new.stage = "committed" /\ r.stage = "stamped"
      BY <1>4, <2>1, TotalUpsert DEF a
    <2>2. CASE UNCHANGED rows /\ new.stage # "committed" BY <2>2, BookType
    <2> QED BY <1>3, <2>1, <2>2
  (* What may yet be committed. *)
  <1>11. PendingTime(requests', h, u, x) + (IF new.stage \in {"committed", "refused"} THEN a ELSE 0)
           = PendingTime(requests, h, u, x) /\ PendingTime(requests', h, u, x) \in Nat
    <2>0. IsFiniteSet(requests') /\ requests' \in SUBSET Request
      BY <1>3, <1>4, FS_AddElement, FS_RemoveElement
    <2>1. CASE new.stage \in {"committed", "refused"}
      <3>1. r \in Pending(requests, h) /\ Pending(requests', h) = Pending(requests, h) \ {r}
        BY <1>3, <1>5, <2>1 DEF Pending
      <3>2. PendingTime(requests, h, u, x) = a + PendingTime(requests', h, u, x)
        BY <1>4, <3>1, PendingLess DEF a
      <3>3. PendingTime(requests', h, u, x) \in Nat BY <2>0, PendingType
      <3> QED BY <1>6, <2>1, <3>2, <3>3
    <2>2. CASE new.stage = "stamped"
      <3> DEFINE rest == requests \ {r}
      <3>1. IsFiniteSet(rest) /\ rest \in SUBSET Request BY <1>4, FS_RemoveElement
      <3>2. r \in Pending(requests, h) /\ Pending(rest, h) = Pending(requests, h) \ {r}
        BY <1>3, <2>2 DEF Pending
      <3>3. new \notin Pending(rest, h) /\ Pending(requests', h) = Pending(rest, h) \cup {new}
        BY <1>3, <1>5, <2>2 DEF Pending
      <3> HIDE DEF rest
      <3>4. PendingTime(requests, h, u, x) = a + PendingTime(rest, h, u, x)
        BY <1>4, <3>2, PendingLess DEF a
      <3>5. PendingTime(requests', h, u, x) = PendingTime(rest, h, u, x) + a
        BY <1>6, <3>1, <3>3, PendingMore
      <3>6. PendingTime(rest, h, u, x) \in Nat BY <3>1, PendingType
      <3> QED BY <1>6, <2>2, <3>4, <3>5, <3>6
    <2>3. CASE new.stage = "done"
      <3>1. Pending(requests', h) = Pending(requests, h) BY <1>3, <2>3 DEF Pending
      <3> QED BY <2>3, <3>1, BookType DEF PendingTime
    <2> QED BY <1>3, <2>1, <2>2, <2>3
  (* What is the daemon's own. *)
  <1>12. SentTime(h, u, x)' =< SentTime(h, u, x) + IF new.stage = "refused" THEN a ELSE 0
    <2>1. CASE r \in Awaited(h) /\ new.stage = "refused"
      <3>1. SentTime(h, u, x)' =< a BY <1>2, <1>6, <1>8, <2>1 DEF SentTime
      <3>2. SentTime(h, u, x)' \in Nat BY <1>2, <1>6, <1>8, <2>1 DEF SentTime
      <3> QED BY <1>6, <2>1, <3>1, <3>2, BookType
    <2>2. CASE r \in Awaited(h) /\ new.stage # "refused"
      <3>1. SentTime(h, u, x)' = 0 BY <1>9, <2>2 DEF SentTime, Backed
      <3> QED BY <2>2, <3>1, BookType
    <2>3. CASE r \notin Awaited(h)
      <3>1. Backed(h)' => Backed(h) BY <1>1, <1>2, <1>7, <2>3 DEF Backed
      <3>2. SentTime(h, u, x)' =< SentTime(h, u, x) /\ SentTime(h, u, x)' \in Nat
        BY <1>2, <3>1, BookType DEF SentTime
      <3> QED BY <1>6, <3>2, BookType
    <2> QED BY <2>1, <2>2, <2>3
  <1>13. /\ SentTime(h, u, x)' \in Nat /\ OwnTime(h, u, x)' \in Nat
         /\ OwnTime(h, u, x) =< OwnTime(h, u, x)' + IF new.stage = "committed" THEN a ELSE 0
    <2>0. SentTime(h, u, x)' \in Nat /\ OwnTime(h, u, x)' \in Nat
      BY <1>2, BookType DEF SentTime, OwnTime
    <2>1. CASE r \in Awaited(h) /\ new.stage = "committed"
      <3>1. OwnTime(h, u, x) =< a BY <1>6, <1>8, <2>1 DEF OwnTime
      <3> QED BY <1>6, <2>0, <2>1, <3>1, BookType
    <2>2. CASE r \notin Awaited(h) \/ new.stage # "committed"
      <3>1. Unrecorded(h) => Unrecorded(h)'
        BY <1>2, <1>3, <1>7, <1>9, <2>2 DEF Unrecorded
      <3>2. OwnTime(h, u, x) =< OwnTime(h, u, x)' BY <1>2, <3>1, BookType DEF OwnTime
      <3> QED BY <1>6, <2>0, <3>2, BookType
    <2> QED BY <2>0, <2>1, <2>2
  <1>14. new.stage \in {"stamped", "committed", "refused", "done"} BY <1>3
  <1>15. OnePlace(h, u, x)'
    BY <1>1, <1>2, <1>6, <1>10, <1>11, <1>12, <1>13, <1>14, BookType DEF Book, OnePlace
  <1>16. SomePlace(h, u, x)'
    BY <1>1, <1>2, <1>6, <1>10, <1>13, <1>14, BookType DEF Book, SomePlace
  <1> QED BY <1>15, <1>16 DEF Book

(* A handler that returns, and the restart that ends them all. *)
LEMMA EndBook ==
  ASSUME TypeOK, Requested, NEW h \in Hosts, NEW u \in Users, NEW x \in Apps \cup {Screen}, Book(h, u, x),
         Next, Restart \/ \E r \in requests : Forget(r)
  PROVE  Book(h, u, x)'
  <1> USE DEF daemon, history, mishaps
  <1>1. happened \subseteq happened' /\ (Faultless' => Faultless) BY FaultsStay DEF Faultless
  <1>2. UNCHANGED << pc, tracker, sent, cycle, used, rows >> BY DEF Restart, Forget
  <1>3. CASE Restart
    <2>1. Pending(requests', h) = {} /\ ~ Faultless' BY <1>3 DEF Restart, Pending, Fault, Faultless
    <2>2. PendingTime(requests', h, u, x) = 0
      <3> DEFINE f == [q \in Request |-> Amount(q.report.time, u, x)]
      <3> HIDE DEF f
      <3>1. SumFunctionOnSet(f, {}) = 0 BY FS_EmptySet, SumZero
      <3> QED BY <2>1, <3>1 DEF PendingTime, f
    <2>3. SentTime(h, u, x)' = 0 BY <2>1 DEF SentTime, Backed
    <2>4. OwnTime(h, u, x) =< OwnTime(h, u, x)' /\ OwnTime(h, u, x)' \in Nat
      <3>1. Awaited(h)' = {} BY <1>3 DEF Restart, Awaited
      <3>2. Unrecorded(h) => Unrecorded(h)' BY <1>2, <3>1 DEF Unrecorded
      <3> QED BY <1>2, <3>2, BookType DEF OwnTime
    <2>5. OnePlace(h, u, x)' BY <1>1, <1>2, <2>1, <2>2, <2>3, BookType DEF Book, OnePlace
    <2>6. SomePlace(h, u, x)' BY <1>1, <1>2, <2>4, BookType DEF Book, SomePlace
    <2> QED BY <2>5, <2>6 DEF Book
  <1>4. ASSUME NEW r \in requests, Forget(r) PROVE Book(h, u, x)'
    <2>1. Pending(requests', h) = Pending(requests, h) BY <1>4 DEF Forget, Pending
    <2>2. PendingTime(requests', h, u, x) = PendingTime(requests, h, u, x) BY <2>1 DEF PendingTime
    <2>3. Awaited(h)' = Awaited(h) BY <1>2, <1>4 DEF Forget, Awaited
    <2>4. (Faultless' /\ Backed(h)' => Backed(h)) /\ (Unrecorded(h) <=> Unrecorded(h)')
      BY <1>1, <1>2, <2>3 DEF Backed, Unrecorded
    <2>5. SentTime(h, u, x)' =< SentTime(h, u, x) /\ SentTime(h, u, x)' \in Nat
      BY <1>1, <1>2, <2>4, BookType DEF SentTime, Backed
    <2>6. OwnTime(h, u, x)' = OwnTime(h, u, x) BY <1>2, <2>4 DEF OwnTime
    <2>7. OnePlace(h, u, x)' BY <1>1, <1>2, <2>2, <2>5, BookType DEF Book, OnePlace
    <2>8. SomePlace(h, u, x)' BY <1>1, <1>2, <2>6, BookType DEF Book, SomePlace
    <2> QED BY <2>7, <2>8 DEF Book
  <1> QED BY <1>3, <1>4

LEMMA BooksNext ==
  ASSUME TypeOK, Requested, Books, Next
  PROVE  Books'
  <1> SUFFICES ASSUME NEW h \in Hosts, NEW u \in Users, NEW x \in Apps \cup {Screen}
               PROVE  Book(h, u, x)'
    BY DEF Books
  <1> USE DEF mishaps, daemon, server, back, history
  <1>0. Book(h, u, x) /\ happened \subseteq happened' BY FaultsStay DEF Books
  <1>1. ASSUME Tick \/ FillPage \/ \E day \in Days : OpenPage(day) PROVE Book(h, u, x)'
    <2>1. UNCHANGED << rows, tracker, sent, used, cycle, pc, requests >> BY <1>1 DEF Tick, FillPage, OpenPage
    <2> QED BY <1>0, <2>1, Untouched
  <1>2. ASSUME NEW g \in Hosts, Start(g) \/ Answered(g) \/ Failed(g) \/ Exit(g) PROVE Book(h, u, x)'
    <2>1. CASE g = h BY <1>0, <1>2, <2>1, DaemonBook, FailedBook
    <2>2. CASE g # h
      <3>1. /\ UNCHANGED << rows, used, cycle >>
            /\ tracker'[h] = tracker[h] /\ sent'[h] = sent[h] /\ pc'[h] = pc[h]
            /\ \A r : r.host = h => (r \in requests' <=> r \in requests)
        <4>1. CASE Start(g) BY <2>2, <4>1 DEF Start, TypeOK
        <4>2. CASE Answered(g) BY <2>2, <4>2 DEF Answered, Awaited, TypeOK
        <4>3. CASE Failed(g) BY <2>2, <4>3 DEF Failed, Awaited, TypeOK
        <4>4. CASE Exit(g) BY <2>2, <4>4 DEF Exit, TypeOK
        <4> QED BY <1>2, <4>1, <4>2, <4>3, <4>4
      <3> QED BY <1>0, <3>1, Untouched
    <2> QED BY <2>1, <2>2
  <1>3. ASSUME NEW g \in Hosts, NEW users \in SUBSET Users, NEW active \in SUBSET users, NEW processes,
               \/ TrustedCycle(g, users, active, processes)
               \/ UntrustedCycle(g, users, active, processes)
        PROVE  Book(h, u, x)'
    <2>1. CASE g = h BY <1>0, <1>3, <2>1, CycleBook
    <2>2. CASE g # h
      <3>1. /\ Measure(g, active, processes) /\ rows' = rows
            /\ cycle'[h] = cycle[h] /\ pc'[h] = pc[h] /\ sent'[h] = sent[h] /\ tracker'[h] = tracker[h]
            /\ Outcome(g, TrackerTick(tracker[g], users, active, processes))
        BY <1>3, <2>2, CycleRequests
      <3>2. used'[h] = used[h] BY <2>2, <3>1 DEF Measure, TypeOK
      <3>3. \A r : r.host = h => (r \in requests' <=> r \in requests)
        BY <2>2, <3>1 DEF Outcome
      <3> QED BY <1>0, <3>1, <3>2, <3>3, Untouched
    <2> QED BY <2>1, <2>2
  <1>4. ASSUME NEW r \in requests, Accept(r) \/ Commit(r) \/ UpdateStatuses(r) PROVE Book(h, u, x)'
    <2>1. CASE r.host = h BY <1>0, <1>4, <2>1, HandlerBook
    <2>2. CASE r.host # h
      <3>1. UNCHANGED << pc, tracker, sent, cycle, used >> BY <1>4, Handled
      <3>2. PICK new \in Request : requests' = (requests \ {r}) \cup {new} /\ new.host = r.host
        BY <1>4, Handled
      <3>3. rows' = rows \/ (rows' = Upsert(rows, r) /\ r.stage = "stamped")
        BY <1>4 DEF Accept, Commit, UpdateStatuses
      <3>4. Total(rows', h, u, x) = Total(rows, h, u, x)
        <4>1. CASE rows' = Upsert(rows, r) /\ r.stage = "stamped"
          <5>1. rows \in [Days -> [Hosts -> Usage]] /\ r \in Request /\ r.date \in Days
            BY <4>1 DEF TypeOK
          <5>2. Total(Upsert(rows, r), h, u, x) = Total(rows, h, u, x) + 0 BY <2>2, <5>1, TotalUpsert
          <5> QED BY <4>1, <5>2, BookType
        <4> QED BY <3>3, <4>1
      <3>5. \A q : q.host = h => (q \in requests' <=> q \in requests) BY <2>2, <3>2
      <3> QED BY <1>0, <3>1, <3>4, <3>5, Untouched
    <2> QED BY <2>1, <2>2
  <1>5. ASSUME Restart \/ \E r \in requests : Forget(r) PROVE Book(h, u, x)' BY <1>0, <1>5, EndBook
  <1> QED BY <1>1, <1>2, <1>3, <1>4, <1>5 DEF Next

-----------------------------------------------------------------------------
(* Applications and the screen. *)

LEMMA WithinType ==
  /\ Within(Unused)
  /\ \A s, t \in Usage : Within(s) /\ Within(t) => Within(Plus(s, t))
  /\ \A active, processes : Within(TickTime(active, processes))
  BY DEF Within, Unused, Usage, Plus, TickTime

LEMMA SmoothStays ==
  ASSUME Next, Smooth'
  PROVE  Smooth /\ \A kind : Fault(kind) => kind \in {"untrusted", "exit"}
  BY FaultsStay DEF Smooth, Fault

LEMMA ReportsWithinNext ==
  ASSUME TypeOK, Requested, ReportsWithin, Next
  PROVE  ReportsWithin'
  <1> SUFFICES ASSUME Smooth' PROVE ReportsWithin' BY DEF ReportsWithin
  <1> USE DEF mishaps, daemon, server, back, history
  <1>0. /\ \A h \in Hosts : /\ Within(tracker[h].time) /\ Within(sent[h].time)
                            /\ pc[h] # "down" => h \in registered
                            /\ pc[h] = "wait" => Awaited(h) # {}
        /\ \A r \in requests : Within(r.report.time) /\ r.host \in registered /\ r.stage # "refused"
        /\ \A d \in Days, h \in Hosts : Within(rows[d][h])
    BY SmoothStays DEF ReportsWithin
  <1>1. ASSUME Tick \/ FillPage \/ \E day \in Days : OpenPage(day) PROVE ReportsWithin'
    <2>1. UNCHANGED << pc, tracker, sent, registered, requests, rows, cycle >>
      BY <1>1 DEF Tick, FillPage, OpenPage
    <2>2. \A h \in Hosts : Awaited(h)' = Awaited(h) BY <2>1 DEF Awaited
    <2> QED BY <1>0, <2>1, <2>2 DEF ReportsWithin
  <1>2. ASSUME Restart PROVE ReportsWithin'
    BY <1>2, SmoothStays DEF Restart
  <1>3. ASSUME NEW h \in Hosts, Start(h) PROVE ReportsWithin'
    <2>1. /\ pc'[h] = "first" /\ \A g \in Hosts \ {h} : pc'[g] = pc[g]
          /\ UNCHANGED << tracker, sent, requests, rows, cycle >>
          /\ registered' = registered \cup {h}
      BY <1>3, SmoothStays DEF Start, RegisterClient, Register, TypeOK
    <2>2. \A g \in Hosts \ {h} : Awaited(g)' = Awaited(g) BY <2>1 DEF Awaited
    <2> QED BY <1>0, <2>1, <2>2 DEF ReportsWithin
  <1>4. ASSUME NEW h \in Hosts, Answered(h) \/ Exit(h) PROVE ReportsWithin'
    <2>1. /\ pc'[h] # "wait" /\ (pc'[h] # "down" => pc[h] # "down")
          /\ \A g \in Hosts \ {h} : pc'[g] = pc[g] /\ tracker'[g] = tracker[g] /\ sent'[g] = sent[g]
          /\ UNCHANGED << registered, rows, cycle >>
          /\ tracker'[h] \in {tracker[h], FreshTracker} /\ sent'[h] = FreshTracker
          /\ requests' \subseteq requests
          /\ \A r : r.host # h => (r \in requests' <=> r \in requests)
      <3>1. CASE Answered(h) BY <3>1 DEF Answered, Awaited, TypeOK
      <3>2. CASE Exit(h) BY <3>2 DEF Exit, TypeOK
      <3> QED BY <1>4, <3>1, <3>2
    <2>2. \A g \in Hosts \ {h} : Awaited(g)' = Awaited(g) BY <2>1 DEF Awaited
    <2>3. Within(FreshTracker.time) BY WithinType DEF FreshTracker
    <2> QED BY <1>0, <2>1, <2>2, <2>3 DEF ReportsWithin
  <1>5. ASSUME NEW h \in Hosts, Failed(h) PROVE ReportsWithin'
    <2>1. pc[h] = "wait" /\ Awaited(h) # {} /\ \A r \in Awaited(h) : r.stage # "refused"
      BY <1>0, <1>5 DEF Failed, Awaited
    <2> QED BY <1>5, <2>1, SmoothStays DEF Failed
  <1>6. ASSUME NEW h \in Hosts, NEW users \in SUBSET Users, NEW active \in SUBSET users, NEW processes,
               \/ TrustedCycle(h, users, active, processes)
               \/ UntrustedCycle(h, users, active, processes)
        PROVE  ReportsWithin'
    <2> DEFINE measured == TrackerTick(tracker[h], users, active, processes)
    <2>1. /\ UNCHANGED << registered, rows >>
          /\ \A g \in Hosts \ {h} : /\ pc'[g] = pc[g] /\ tracker'[g] = tracker[g] /\ sent'[g] = sent[g]
                                    /\ cycle'[g] = cycle[g]
          /\ BeginCycle(h) /\ cycle'[h] = cycle[h] + 1 /\ Outcome(h, measured)
      BY <1>6, CycleRequests
    <2>2. Within(measured.time)
      <3>1. tracker[h].time \in Usage /\ measured.time = Plus(tracker[h].time, TickTime(active, processes))
        BY DEF TypeOK, Report, TrackerTick
      <3> QED BY <1>0, <3>1, WithinType, UsageType
    <2>3. Within(FreshTracker.time) BY WithinType DEF FreshTracker
    <2>4. h \in registered BY <1>0, <2>1 DEF BeginCycle
    <2> HIDE DEF measured
    <2>5. CASE pc'[h] = "idle" /\ tracker'[h] = measured /\ UNCHANGED << sent, requests >>
      <3>1. \A g \in Hosts \ {h} : Awaited(g)' = Awaited(g) BY <2>1, <2>5 DEF Awaited
      <3> QED BY <1>0, <2>1, <2>2, <2>4, <2>5, <3>1 DEF ReportsWithin
    <2>6. CASE pc'[h] = "idle" /\ UNCHANGED << sent, requests, tracker >>
      <3>1. \A g \in Hosts \ {h} : Awaited(g)' = Awaited(g) BY <2>1, <2>6 DEF Awaited
      <3> QED BY <1>0, <2>1, <2>4, <2>6, <3>1 DEF ReportsWithin
    <2>7. ASSUME pc'[h] = "wait", tracker'[h] = FreshTracker, sent'[h] = measured,
                 NEW new \in Request,
                 requests' = requests \cup {new}, new.host = h,
                 new.cycle = cycle[h] + 1, new.report = sent'[h], new.stage = "arrived"
          PROVE  ReportsWithin'
      <3>1. \A g \in Hosts \ {h} : Awaited(g)' = Awaited(g) BY <2>1, <2>7 DEF Awaited
      <3>2. new \in Awaited(h)' BY <2>1, <2>7 DEF Awaited
      <3>3. /\ \A g \in Hosts : /\ Within(tracker'[g].time) /\ Within(sent'[g].time)
                                /\ pc'[g] # "down" => g \in registered'
                                /\ pc'[g] = "wait" => Awaited(g)' # {}
        BY <1>0, <2>1, <2>2, <2>3, <2>4, <2>7, <3>1, <3>2
      <3>4. \A r \in requests' : Within(r.report.time) /\ r.host \in registered' /\ r.stage # "refused"
        BY <1>0, <2>1, <2>2, <2>4, <2>7
      <3> QED BY <1>0, <2>1, <3>3, <3>4 DEF ReportsWithin
    <2> QED BY <2>1, <2>5, <2>6, <2>7, SmoothStays DEF Outcome
  <1>7. ASSUME NEW r \in requests, Accept(r) \/ Commit(r) \/ UpdateStatuses(r) PROVE ReportsWithin'
    <2>1. UNCHANGED << pc, tracker, sent, cycle, registered >> BY <1>7, Handled
    <2>2. PICK new \in Request :
            /\ requests' = (requests \ {r}) \cup {new}
            /\ new.host = r.host /\ new.cycle = r.cycle /\ new.report = r.report
            /\ new.stage # "refused"
      BY <1>0, <1>7, Handled, SmoothStays
    <2>3. \A d \in Days, h \in Hosts : Within(rows'[d][h])
      <3>1. CASE UNCHANGED rows BY <1>0, <3>1
      <3>2. CASE rows' = Upsert(rows, r) /\ r.stage = "stamped"
        <4>1. r.date \in Days /\ r.host \in Hosts /\ r.report.time \in Usage
          BY <3>2 DEF TypeOK, Request, Report
        <4>2. Within(Plus(rows[r.date][r.host], r.report.time))
          BY <1>0, <4>1, WithinType DEF TypeOK
        <4> QED BY <1>0, <3>2, <4>1, <4>2 DEF Upsert, TypeOK
      <3> QED BY <1>7, <3>1, <3>2 DEF Accept, Commit, UpdateStatuses
    <2>4. \A h \in Hosts : pc'[h] = "wait" => Awaited(h)' # {}
      <3> SUFFICES ASSUME NEW h \in Hosts, pc'[h] = "wait" PROVE Awaited(h)' # {} OBVIOUS
      <3>1. PICK q \in Awaited(h) : TRUE BY <1>0, <2>1
      <3>2. CASE q = r
        <4>1. new \in Awaited(h)' BY <2>1, <2>2, <3>1, <3>2 DEF Awaited
        <4> QED BY <4>1
      <3>3. CASE q # r
        <4>1. q \in Awaited(h)' BY <2>1, <2>2, <3>1, <3>3 DEF Awaited
        <4> QED BY <4>1
      <3> QED BY <3>2, <3>3
    <2> QED BY <1>0, <2>1, <2>2, <2>3, <2>4 DEF ReportsWithin
  <1>8. ASSUME NEW r \in requests, Forget(r) PROVE ReportsWithin'
    <2>1. UNCHANGED << pc, tracker, sent, cycle, registered, rows >> /\ requests' \subseteq requests
      BY <1>8 DEF Forget
    <2>2. \A h \in Hosts : Awaited(h)' = Awaited(h) BY <1>8, <2>1 DEF Forget, Awaited
    <2> QED BY <1>0, <2>1, <2>2 DEF ReportsWithin
  <1> QED BY <1>1, <1>2, <1>3, <1>4, <1>5, <1>6, <1>7, <1>8 DEF Next

(* The sums of a day are over tables that are within, and that only grow. *)
LEMMA DaySumsWithin ==
  ASSUME TypeOK, NEW d \in Days, \A h \in Hosts : Within(rows[d][h])
  PROVE  Within(DaySums(d))
  <1> SUFFICES ASSUME NEW u \in Users, NEW a \in Apps
               PROVE  DaySums(d).apps[u][a] =< DaySums(d).screen[u]
    BY DEF Within
  <1> DEFINE f == [h \in Hosts |-> rows[d][h].apps[u][a]]
             e == [h \in Hosts |-> rows[d][h].screen[u]]
  <1>1. \A h \in Hosts : f[h] \in Nat /\ e[h] \in Nat /\ f[h] =< e[h] BY DEF TypeOK, Usage, Within
  <1>2. DOMAIN f = Hosts /\ DOMAIN e = Hosts OBVIOUS
  <1>3. DaySums(d).apps[u][a] = SumFunction(f) /\ DaySums(d).screen[u] = SumFunction(e) BY DEF DaySums
  <1> HIDE DEF f, e
  <1>4. SumFunctionOnSet(f, Hosts) =< SumFunctionOnSet(e, Hosts) BY <1>1, ActivityAssumption, SumMonotone
  <1> QED BY <1>2, <1>3, <1>4 DEF SumFunction

LEMMA ScreenGrows ==
  ASSUME TypeOK, NEW r \in requests, r.stage = "stamped", rows' = Upsert(rows, r), NEW d \in Days, NEW u \in Users
  PROVE  /\ DaySums(d).screen[u] \in Nat /\ DaySums(d)'.screen[u] \in Nat
         /\ DaySums(d).screen[u] =< DaySums(d)'.screen[u]
  <1> DEFINE f == [h \in Hosts |-> rows[d][h].screen[u]]
             e == [h \in Hosts |-> rows'[d][h].screen[u]]
  <1>0. r.date \in Days /\ r.host \in Hosts /\ r.report.time \in Usage BY DEF TypeOK, Request, Report
  <1>1. \A h \in Hosts : rows'[d][h] = IF d = r.date /\ h = r.host THEN Plus(rows[d][h], r.report.time)
                                                                  ELSE rows[d][h]
    BY <1>0 DEF TypeOK, Upsert
  <1>2. \A h \in Hosts : f[h] \in Nat /\ e[h] \in Nat /\ f[h] =< e[h]
    <2> TAKE h \in Hosts
    <2>1. rows[d][h].screen[u] \in Nat /\ r.report.time.screen[u] \in Nat BY <1>0 DEF TypeOK, Usage
    <2>2. Plus(rows[d][h], r.report.time).screen[u] = rows[d][h].screen[u] + r.report.time.screen[u]
      BY DEF Plus
    <2> QED BY <1>1, <2>1, <2>2
  <1>3. DOMAIN f = Hosts /\ DOMAIN e = Hosts OBVIOUS
  <1>4. DaySums(d).screen[u] = SumFunction(f) /\ DaySums(d)'.screen[u] = SumFunction(e) BY DEF DaySums
  <1> HIDE DEF f, e
  <1>5. /\ SumFunctionOnSet(f, Hosts) \in Nat /\ SumFunctionOnSet(e, Hosts) \in Nat
        /\ SumFunctionOnSet(f, Hosts) =< SumFunctionOnSet(e, Hosts)
    BY <1>2, ActivityAssumption, SumMonotone
  <1> QED BY <1>3, <1>4, <1>5 DEF SumFunction

LEMMA PageWithinNext ==
  ASSUME TypeOK, ReportsWithin, PageWithin, Next
  PROVE  PageWithin'
  <1> SUFFICES ASSUME Smooth' PROVE PageWithin' BY DEF PageWithin
  <1> USE DEF mishaps, daemon, server, back, history
  <1>0. /\ Smooth
        /\ page.made = 1 => \A u \in Users, a \in Apps :
                              page.time.apps[u][a] =< DaySums(page.day).screen[u]
        /\ page.made = 2 => Within(page.time)
        /\ page.day \in Days /\ page.time \in Usage
    BY SmoothStays DEF PageWithin, TypeOK
  <1>1. ASSUME UNCHANGED << rows, page >> PROVE PageWithin'
    BY <1>0, <1>1 DEF PageWithin, DaySums
  <1>2. ASSUME NEW r \in requests, r.stage = "stamped", rows' = Upsert(rows, r), page' = page
        PROVE  PageWithin'
    <2>1. ASSUME page.made = 1, NEW u \in Users, NEW a \in Apps
          PROVE  page.time.apps[u][a] =< DaySums(page.day)'.screen[u]
      <3>1. /\ DaySums(page.day).screen[u] \in Nat /\ DaySums(page.day)'.screen[u] \in Nat
            /\ DaySums(page.day).screen[u] =< DaySums(page.day)'.screen[u]
        <4> DEFINE d == page.day
        <4>1. d \in Days /\ d' = d BY <1>0, <1>2
        <4>2. \A e \in Days : /\ DaySums(e).screen[u] \in Nat /\ DaySums(e)'.screen[u] \in Nat
                              /\ DaySums(e).screen[u] =< DaySums(e)'.screen[u]
          BY <1>2, ScreenGrows
        <4> QED BY <4>1, <4>2 DEF DaySums
      <3>2. page.time.apps[u][a] \in Nat BY <1>0 DEF Usage
      <3> QED BY <1>0, <2>1, <3>1, <3>2
    <2> QED BY <1>0, <1>2, <2>1 DEF PageWithin, Within
  <1>3. ASSUME NEW day \in Days, OpenPage(day) PROVE PageWithin'
    <2>1. Within(DaySums(day)) BY <1>0, DaySumsWithin DEF ReportsWithin
    <2>2. /\ page'.made = 1 /\ page'.day = day /\ rows' = rows
          /\ page'.time.apps = DaySums(day).apps
      BY <1>3 DEF OpenPage, Queries, Unused
    <2>3. DaySums(day)' = DaySums(day) BY <2>2 DEF DaySums
    <2> QED BY <2>1, <2>2, <2>3 DEF PageWithin, Within
  <1>4. ASSUME FillPage PROVE PageWithin'
    <2>1. page' = [page EXCEPT !.made = 2, !.time = [page.time EXCEPT !["screen"] = DaySums(page.day).screen]]
      BY <1>4 DEF FillPage, Queries
    <2>2. page \in [day : Days, made : 0 .. 2, time : Usage] BY DEF TypeOK
    <2>3. page'.made = 2 /\ page'.time = [page.time EXCEPT !["screen"] = DaySums(page.day).screen]
      BY <2>1, <2>2
    <2>4. page'.time.apps = page.time.apps /\ page'.time.screen = DaySums(page.day).screen
      BY <1>0, <2>3 DEF Usage
    <2> QED BY <1>0, <1>4, <2>3, <2>4 DEF FillPage, PageWithin, Within
  <1>5. ASSUME NEW r \in requests, Accept(r) \/ Commit(r) \/ UpdateStatuses(r) \/ Forget(r)
        PROVE  page' = page /\ (rows' = rows \/ (r.stage = "stamped" /\ rows' = Upsert(rows, r)))
    BY <1>5 DEF Accept, Commit, UpdateStatuses, Forget
  <1>6. ASSUME NEW h \in Hosts, Start(h) \/ Answered(h) \/ Failed(h) \/ Exit(h)
        PROVE  UNCHANGED << rows, page >>
    BY <1>6 DEF Start, Answered, Failed, Exit
  <1>7. ASSUME NEW h \in Hosts, NEW users, NEW active, NEW processes,
               \/ TrustedCycle(h, users, active, processes)
               \/ UntrustedCycle(h, users, active, processes)
        PROVE  UNCHANGED << rows, page >>
    BY <1>7 DEF TrustedCycle, UntrustedCycle
  <1>8. ASSUME Tick \/ Restart PROVE UNCHANGED << rows, page >> BY <1>8 DEF Tick, Restart
  <1>9. ASSUME NEW r \in requests, Accept(r) \/ Commit(r) \/ UpdateStatuses(r) \/ Forget(r) PROVE PageWithin'
    BY <1>1, <1>2, <1>5, <1>9
  <1> QED BY <1>1, <1>3, <1>4, <1>6, <1>7, <1>8, <1>9 DEF Next

-----------------------------------------------------------------------------
(* The order of the statuses. *)

LEMMA PatientStays ==
  ASSUME Next, Patient'
  PROVE  Patient /\ ~ Fault("drop") /\ ~ Fault("exit")
  BY FaultsStay DEF Patient, Fault

LEMMA OneAtATimeNext ==
  ASSUME TypeOK, Requested, OneAtATime, Next
  PROVE  OneAtATime'
  <1> SUFFICES ASSUME Patient' PROVE OneAtATime' BY DEF OneAtATime
  <1> DEFINE Active == { r \in requests : r.stage \in {"arrived", "stamped", "committed"} }
  <1> USE DEF mishaps, daemon, server, back, history
  <1>0. /\ \A r \in Active : r \in Awaited(r.host)
        /\ \A u \in DOMAIN statuses : statuses[u].cycle =< cycle[statuses[u].host]
        /\ \A u \in DOMAIN statuses : statuses[u].host \in Hosts /\ statuses[u].cycle \in Nat
        /\ \A h \in Hosts : cycle[h] \in Nat
        /\ \A r \in requests : r.host \in Hosts
    BY PatientStays DEF OneAtATime, TypeOK, Status, Request
  <1>1. ASSUME Tick \/ FillPage \/ \E day \in Days : OpenPage(day) PROVE OneAtATime'
    <2>1. UNCHANGED << pc, requests, cycle, statuses >> BY <1>1 DEF Tick, FillPage, OpenPage
    <2> QED BY <1>0, <2>1 DEF OneAtATime, Awaited
  <1>2. ASSUME Restart PROVE OneAtATime'
    BY <1>2 DEF Restart, OneAtATime
  <1>3. ASSUME NEW h \in Hosts, Start(h) \/ Answered(h) \/ Failed(h) PROVE OneAtATime'
    <2>1. /\ \A g \in Hosts \ {h} : pc'[g] = pc[g]
          /\ UNCHANGED << cycle, statuses >>
          /\ requests' \subseteq requests
      BY <1>3 DEF Start, Answered, Failed, TypeOK
    <2>2. \A r \in Active : r.host # h
      <3> SUFFICES ASSUME NEW r \in Active, r.host = h PROVE FALSE OBVIOUS
      <3>1. r \in Awaited(h) BY <1>0
      <3>2. \A q \in Awaited(h) : q = r BY <3>1 DEF Awaited, Requested
      <3>3. CASE Start(h) BY <3>1, <3>3 DEF Start, Awaited
      <3>4. CASE Answered(h) BY <3>2, <3>4 DEF Answered
      <3>5. CASE Failed(h) BY <3>1, <3>2, <3>5, PatientStays DEF Failed
      <3> QED BY <1>3, <3>3, <3>4, <3>5
    <2> QED BY <1>0, <2>1, <2>2 DEF OneAtATime, Awaited
  <1>4. ASSUME NEW h \in Hosts, Exit(h) PROVE OneAtATime'
    BY <1>4, PatientStays DEF Exit
  <1>5. ASSUME NEW h \in Hosts, NEW users \in SUBSET Users, NEW active \in SUBSET users, NEW processes,
               \/ TrustedCycle(h, users, active, processes)
               \/ UntrustedCycle(h, users, active, processes)
        PROVE  OneAtATime'
    <2> DEFINE measured == TrackerTick(tracker[h], users, active, processes)
    <2>1. /\ \A g \in Hosts \ {h} : pc'[g] = pc[g]
          /\ \A g \in Hosts : cycle'[g] = IF g = h THEN cycle[h] + 1 ELSE cycle[g]
          /\ BeginCycle(h) /\ UNCHANGED statuses /\ Outcome(h, measured)
      BY <1>5, CycleRequests
    <2> HIDE DEF measured
    <2>2. \A r \in Active : r.host # h BY <1>0, <2>1 DEF BeginCycle, Awaited
    <2>3. \A u \in DOMAIN statuses' : statuses'[u].cycle =< cycle'[statuses'[u].host] BY <1>0, <2>1
    <2>4. CASE UNCHANGED requests
      BY <1>0, <2>1, <2>2, <2>3, <2>4 DEF OneAtATime, Awaited
    <2>5. ASSUME NEW new \in Request, requests' = requests \cup {new}, new.host = h,
                 new.cycle = cycle[h] + 1, pc'[h] = "wait"
          PROVE  OneAtATime'
      <3>1. \A r \in Active : r \in Awaited(r.host)'
        BY <1>0, <2>1, <2>2, <2>5 DEF Awaited
      <3>2. new \in Awaited(new.host)' BY <2>1, <2>5 DEF Awaited
      <3> QED BY <2>3, <2>5, <3>1, <3>2 DEF OneAtATime
    <2> QED BY <2>1, <2>4, <2>5 DEF Outcome
  <1>6. ASSUME NEW r \in requests, Accept(r) \/ Commit(r) \/ UpdateStatuses(r) PROVE OneAtATime'
    <2>1. UNCHANGED << pc, cycle >> BY <1>6, Handled
    <2>2. PICK new \in Request :
            /\ requests' = (requests \ {r}) \cup {new}
            /\ new.host = r.host /\ new.cycle = r.cycle
            /\ r.stage \in {"arrived", "stamped", "committed"}
      BY <1>6, Handled
    <2>3. r \in Awaited(r.host) BY <1>0, <2>2
    <2>4. \A q \in requests' : q.stage \in {"arrived", "stamped", "committed"} => q \in Awaited(q.host)'
      BY <1>0, <2>1, <2>2, <2>3 DEF Awaited
    <2>5. \A u \in DOMAIN statuses' : statuses'[u].cycle =< cycle'[statuses'[u].host]
      <3>1. CASE UNCHANGED statuses BY <1>0, <2>1, <3>1
      <3>2. CASE UpdateStatuses(r)
        <4>1. r.cycle = cycle[r.host] /\ cycle[r.host] \in Nat BY <1>0, <2>3 DEF Awaited
        <4> DEFINE set == [u \in DOMAIN r.report.sessions |->
                             [status |-> r.report.sessions[u], host |-> r.host, cycle |-> r.cycle]]
        <4>2. statuses' = Update(statuses, set) BY <3>2 DEF UpdateStatuses
        <4>3. \A u \in DOMAIN set : set[u].cycle = r.cycle /\ set[u].host = r.host OBVIOUS
        <4> HIDE DEF set
        <4> QED BY <1>0, <2>1, <4>1, <4>2, <4>3 DEF Update
      <3> QED BY <1>6, <3>1, <3>2 DEF Accept, Commit
    <2> QED BY <2>4, <2>5 DEF OneAtATime
  <1>7. ASSUME NEW r \in requests, Forget(r) PROVE OneAtATime'
    <2>1. UNCHANGED << pc, cycle, statuses >> /\ requests' \subseteq requests BY <1>7 DEF Forget
    <2> QED BY <1>0, <2>1 DEF OneAtATime, Awaited
  <1> QED BY <1>1, <1>2, <1>3, <1>4, <1>5, <1>6, <1>7 DEF Next

LEMMA StatusStep ==
  ASSUME TypeOK, Requested, OneAtATime, Next, happened' \cap {"drop", "exit"} = {},
         NEW u \in DOMAIN statuses \cap DOMAIN statuses', statuses'[u].host = statuses[u].host
  PROVE  statuses'[u].cycle >= statuses[u].cycle
  <1> USE DEF mishaps, daemon, server, back, history
  <1>0. statuses[u].cycle \in Nat /\ statuses[u].host \in Hosts BY DEF TypeOK, Status
  <1>1. ASSUME UNCHANGED statuses PROVE statuses'[u].cycle >= statuses[u].cycle BY <1>0, <1>1
  <1>2. ASSUME NEW r \in requests, UpdateStatuses(r) PROVE statuses'[u].cycle >= statuses[u].cycle
    <2>1. Patient BY PatientStays DEF Patient
    <2>2. r.cycle = cycle[r.host] BY <1>2, <2>1 DEF OneAtATime, UpdateStatuses, Awaited
    <2>3. statuses[u].cycle =< cycle[statuses[u].host] BY <2>1 DEF OneAtATime
    <2> DEFINE set == [v \in DOMAIN r.report.sessions |->
                         [status |-> r.report.sessions[v], host |-> r.host, cycle |-> r.cycle]]
    <2>4. statuses' = Update(statuses, set) BY <1>2 DEF UpdateStatuses
    <2>5. \A v \in DOMAIN set : set[v].cycle = r.cycle /\ set[v].host = r.host OBVIOUS
    <2> HIDE DEF set
    <2>6. CASE u \in DOMAIN set BY <1>0, <2>2, <2>3, <2>4, <2>5, <2>6 DEF Update
    <2>7. CASE u \notin DOMAIN set BY <1>0, <2>4, <2>7 DEF Update
    <2> QED BY <2>6, <2>7
  <1>3. ASSUME NEW r \in requests, Accept(r) \/ Commit(r) \/ Forget(r) PROVE UNCHANGED statuses
    BY <1>3 DEF Accept, Commit, Forget
  <1>4. ASSUME NEW h \in Hosts, Start(h) \/ Answered(h) \/ Failed(h) \/ Exit(h) PROVE UNCHANGED statuses
    BY <1>4 DEF Start, Answered, Failed, Exit
  <1>5. ASSUME NEW h \in Hosts, NEW users, NEW active, NEW processes,
               \/ TrustedCycle(h, users, active, processes)
               \/ UntrustedCycle(h, users, active, processes)
        PROVE  UNCHANGED statuses
    BY <1>5 DEF TrustedCycle, UntrustedCycle
  <1>6. ASSUME Tick \/ FillPage \/ \E day \in Days : OpenPage(day) PROVE UNCHANGED statuses
    BY <1>6 DEF Tick, FillPage, OpenPage
  <1>7. ASSUME Restart PROVE FALSE
    BY <1>7 DEF Restart
  <1> QED BY <1>1, <1>2, <1>3, <1>4, <1>5, <1>6, <1>7 DEF Next

-----------------------------------------------------------------------------
(* The inductive invariant, and what follows from it. *)

LEMMA InitIInv == Init => IInv
  <1> SUFFICES ASSUME Init PROVE IInv OBVIOUS
  <1>1. TypeOK BY TypeInit
  <1>2. Requested BY FS_EmptySet DEF Init, Requested
  <1>3. Clocked BY DEF Init, Clocked, Unused
  <1>4. Books
    <2> SUFFICES ASSUME NEW h \in Hosts, NEW u \in Users, NEW x \in Apps \cup {Screen}
                 PROVE  Book(h, u, x)
      BY DEF Books
    <2>1. Amount(Unused, u, x) = 0 BY AmountType
    <2>2. Total(rows, h, u, x) = 0
      <3> DEFINE f == [d \in Days |-> Amount(rows[d][h], u, x)]
      <3>1. \A d \in Days : f[d] = 0 BY <2>1 DEF Init
      <3> HIDE DEF f
      <3>2. SumFunctionOnSet(f, Days) = 0 BY <3>1, DaysType, SumZero
      <3> QED BY <3>2 DEF Total, f
    <2>3. PendingTime(requests, h, u, x) = 0
      <3> DEFINE f == [q \in Request |-> Amount(q.report.time, u, x)]
      <3>1. Pending(requests, h) = {} BY DEF Init, Pending
      <3> HIDE DEF f
      <3>2. SumFunctionOnSet(f, {}) = 0 BY FS_EmptySet, SumZero
      <3> QED BY <3>1, <3>2 DEF PendingTime, f
    <2>4. pc[h] # "wait" /\ tracker[h].time = Unused /\ used[h] = Unused BY DEF Init, FreshTracker
    <2> QED BY <2>1, <2>2, <2>3, <2>4, NothingSent DEF Book, OnePlace, SomePlace
  <1>5. ReportsWithin BY WithinType DEF Init, ReportsWithin, FreshTracker
  <1>6. PageWithin BY DEF Init, PageWithin, NoPage
  <1>7. OneAtATime BY DEF Init, OneAtATime
  <1> QED BY <1>1, <1>2, <1>3, <1>4, <1>5, <1>6, <1>7 DEF IInv

LEMMA NextIInv == IInv /\ [Next]_vars => IInv'
  <1>1. ASSUME IInv, Next PROVE IInv'
    BY <1>1, TypeNext, RequestedNext, ClockedNext, BooksNext, ReportsWithinNext, PageWithinNext,
       OneAtATimeNext
    DEF IInv
  <1>2. ASSUME IInv, UNCHANGED vars PROVE IInv'
    <2> USE <1>2 DEF vars, mishaps, daemon, server, back, history
    <2>1. TypeOK' BY TypeNext DEF IInv
    <2>2. \A h : Awaited(h)' = Awaited(h) BY DEF Awaited
    <2>3. Requested' /\ Clocked' BY DEF IInv, Requested, Clocked
    <2>4. ReportsWithin' BY <2>2 DEF IInv, ReportsWithin, Smooth
    <2>5. PageWithin' BY DEF IInv, PageWithin, Smooth, DaySums
    <2>6. OneAtATime' BY <2>2 DEF IInv, OneAtATime, Patient
    <2>7. Books' BY Untouched DEF IInv, Books
    <2> QED BY <2>1, <2>3, <2>4, <2>5, <2>6, <2>7 DEF IInv
  <1> QED BY <1>1, <1>2

LEMMA Invariance == Spec => []IInv
  BY InitIInv, NextIInv, PTL DEF Spec

(* The tables as the properties read them. *)
LEMMA Readings ==
  ASSUME TypeOK, NEW h \in Hosts, NEW u \in Users
  PROVE  /\ Total(rows, h, u, Screen) = ScreenTotal(h, u)
         /\ Amount(tracker[h].time, u, Screen) = tracker[h].time.screen[u]
         /\ Amount(sent[h].time, u, Screen) = sent[h].time.screen[u]
         /\ Amount(used[h], u, Screen) = used[h].screen[u]
         /\ \A a \in Apps : /\ a # Screen
                            /\ Total(rows, h, u, a) = AppTotal(h, u, a)
                            /\ Amount(tracker[h].time, u, a) = tracker[h].time.apps[u][a]
                            /\ Amount(sent[h].time, u, a) = sent[h].time.apps[u][a]
                            /\ Amount(used[h], u, a) = used[h].apps[u][a]
  <1>1. \A a \in Apps : a # Screen BY ActivityAssumption DEF Screen
  <1>2. ScreenTotal(h, u) = SumFunctionOnSet([d \in Days |-> rows[d][h].screen[u]], Days)
    BY DEF ScreenTotal, SumFunction
  <1>3. Total(rows, h, u, Screen) = ScreenTotal(h, u) BY <1>2 DEF Total, Amount
  <1>4. ASSUME NEW a \in Apps PROVE Total(rows, h, u, a) = AppTotal(h, u, a)
    <2>1. AppTotal(h, u, a) = SumFunctionOnSet([d \in Days |-> rows[d][h].apps[u][a]], Days)
      BY DEF AppTotal, SumFunction
    <2> QED BY <1>1, <2>1 DEF Total, Amount
  <1> QED BY <1>1, <1>3, <1>4 DEF Amount

(***************************************************************************)
(* No time of an application is lost as long as its daemon lives: through  *)
(* lost requests and answers, refusals, failing transactions and restarts  *)
(* of the server, sendReport's Merge and Record keep all of it.            *)
(***************************************************************************)
THEOREM AppTimeIsKept == Spec => []AppTimeKept
  <1>1. ASSUME IInv PROVE AppTimeKept
    <2> SUFFICES ASSUME "exit" \notin happened, NEW h \in Hosts, NEW u \in Users, NEW a \in Apps
                 PROVE  used[h].apps[u][a] =< AppTotal(h, u, a) + HeldApp(h, u, a)
      BY DEF AppTimeKept
    <2>1. SomePlace(h, u, a) BY <1>1 DEF IInv, Books, Book
    <2>2. /\ HeldApp(h, u, a) = Amount(tracker[h].time, u, a) + OwnTime(h, u, a)
          /\ a # Screen /\ Total(rows, h, u, a) = AppTotal(h, u, a)
          /\ Amount(used[h], u, a) = used[h].apps[u][a]
      BY <1>1, Readings DEF IInv, HeldApp, OwnTime
    <2>3. /\ Total(rows, h, u, a) \in Nat /\ Amount(tracker[h].time, u, a) \in Nat
          /\ OwnTime(h, u, a) \in Nat
      BY <1>1, BookType DEF IInv
    <2> QED BY <2>1, <2>2, <2>3 DEF SomePlace
  <1> QED BY <1>1, Invariance, PTL

(***************************************************************************)
(* Nothing is counted twice by a tick, a retry or a commit, until an answer*)
(* is lost with the connection or in a restart of the server.              *)
(***************************************************************************)
THEOREM NothingCountedTwice == Spec => []CountedOnce
  <1>1. ASSUME IInv PROVE CountedOnce
    <2> SUFFICES ASSUME Faultless, NEW h \in Hosts, NEW u \in Users
                 PROVE  /\ ScreenTotal(h, u) + HeldScreen(h, u) =< used[h].screen[u]
                        /\ \A a \in Apps : AppTotal(h, u, a) + HeldApp(h, u, a) =< used[h].apps[u][a]
      BY DEF CountedOnce, Faultless
    <2>1. ASSUME NEW x \in Apps \cup {Screen}
          PROVE  Total(rows, h, u, x) + Amount(tracker[h].time, u, x) + OwnTime(h, u, x)
                   =< Amount(used[h], u, x)
      <3>1. OwnTime(h, u, x) =< PendingTime(requests, h, u, x) + SentTime(h, u, x)
        <4>1. CASE Unrecorded(h) /\ \A r \in Awaited(h) : r.stage = "refused"
          <5>1. OwnTime(h, u, x) = SentTime(h, u, x)
            BY <4>1 DEF OwnTime, SentTime, Backed, Unrecorded
          <5> QED BY <1>1, <5>1, BookType DEF IInv
        <4>2. ASSUME Unrecorded(h), NEW r \in Awaited(h), r.stage # "refused"
              PROVE  OwnTime(h, u, x) =< PendingTime(requests, h, u, x) + SentTime(h, u, x)
          <5>1. r \in Request /\ requests \in SUBSET Request /\ IsFiniteSet(requests)
            BY <1>1 DEF IInv, TypeOK, Requested, Awaited
          <5>2. r.stage \in {"arrived", "stamped"} /\ r \in requests /\ r.host = h /\ r.report = sent[h]
            BY <1>1, <4>2, <5>1 DEF IInv, Requested, Awaited, Unrecorded, Request
          <5> DEFINE rest == requests \ {r}
          <5>3. r \in Pending(requests, h) /\ Pending(rest, h) = Pending(requests, h) \ {r}
            BY <5>2 DEF Pending
          <5>5. IsFiniteSet(rest) /\ rest \in SUBSET Request BY <5>1, FS_RemoveElement
          <5> HIDE DEF rest
          <5>4. PendingTime(requests, h, u, x) = Amount(r.report.time, u, x) + PendingTime(rest, h, u, x)
            BY <5>1, <5>3, PendingLess
          <5>6. PendingTime(rest, h, u, x) \in Nat BY <5>5, PendingType
          <5>7. OwnTime(h, u, x) = Amount(r.report.time, u, x) BY <4>2, <5>2 DEF OwnTime
          <5>8. OwnTime(h, u, x) \in Nat /\ SentTime(h, u, x) \in Nat BY <1>1, BookType DEF IInv
          <5> QED BY <5>4, <5>6, <5>7, <5>8
        <4>3. CASE ~ Unrecorded(h) BY <1>1, <4>3, BookType DEF IInv, OwnTime
        <4> QED BY <4>1, <4>2, <4>3
      <3>2. OnePlace(h, u, x) BY <1>1 DEF IInv, Books, Book
      <3> QED BY <1>1, <3>1, <3>2, BookType DEF IInv, OnePlace
    <2>2. /\ HeldScreen(h, u) = Amount(tracker[h].time, u, Screen) + OwnTime(h, u, Screen)
          /\ Total(rows, h, u, Screen) = ScreenTotal(h, u)
          /\ Amount(used[h], u, Screen) = used[h].screen[u]
      BY <1>1, Readings DEF IInv, HeldScreen, OwnTime
    <2>3. \A a \in Apps : /\ HeldApp(h, u, a) = Amount(tracker[h].time, u, a) + OwnTime(h, u, a)
                          /\ Total(rows, h, u, a) = AppTotal(h, u, a)
                          /\ Amount(used[h], u, a) = used[h].apps[u][a]
      BY <1>1, Readings DEF IInv, HeldApp, OwnTime
    <2>4. \A x \in Apps \cup {Screen} :
            /\ Total(rows, h, u, x) \in Nat /\ Amount(tracker[h].time, u, x) \in Nat
            /\ OwnTime(h, u, x) \in Nat /\ Amount(used[h], u, x) \in Nat
      BY <1>1, BookType DEF IInv
    <2>5. ScreenTotal(h, u) + HeldScreen(h, u) =< used[h].screen[u]
      <3>1. Screen \in Apps \cup {Screen} OBVIOUS
      <3> QED BY <2>1, <2>2, <2>4, <3>1
    <2>6. ASSUME NEW a \in Apps PROVE AppTotal(h, u, a) + HeldApp(h, u, a) =< used[h].apps[u][a]
      BY <2>1, <2>3, <2>4
    <2> QED BY <2>5, <2>6
  <1> QED BY <1>1, Invariance, PTL

(***************************************************************************)
(* Through every fault, the screen time recorded of a user on a host is no *)
(* more than the time that has passed, with one interval for each start.   *)
(***************************************************************************)
THEOREM ScreenTimeIsReal == Spec => []ScreenTimeWithinClock
  <1>1. ASSUME IInv PROVE ScreenTimeWithinClock
    <2> SUFFICES ASSUME NEW h \in Hosts, NEW u \in Users
                 PROVE  ScreenTotal(h, u) =< now + starts[h]
      BY DEF ScreenTimeWithinClock
    <2>1. Screen \in Apps \cup {Screen} OBVIOUS
    <2>2. OnePlace(h, u, Screen) BY <1>1, <2>1 DEF IInv, Books, Book
    <2>3. /\ Total(rows, h, u, Screen) \in Nat /\ PendingTime(requests, h, u, Screen) \in Nat
          /\ Amount(tracker[h].time, u, Screen) \in Nat /\ SentTime(h, u, Screen) \in Nat
          /\ Amount(used[h], u, Screen) \in Nat
      BY <1>1, <2>1, BookType DEF IInv
    <2>4. /\ Total(rows, h, u, Screen) = ScreenTotal(h, u)
          /\ Amount(used[h], u, Screen) = used[h].screen[u]
      BY <1>1, Readings DEF IInv
    <2>5. used[h].screen[u] =< cycle[h] BY <1>1 DEF IInv, Clocked
    <2>6. cycle[h] =< now + starts[h] /\ cycle[h] \in Nat /\ now + starts[h] \in Nat
      <3>1. cycle[h] \in Nat /\ now \in Nat /\ starts[h] \in Nat BY <1>1 DEF IInv, TypeOK
      <3> QED BY <1>1, <3>1 DEF IInv, Clocked
    <2> QED BY <2>2, <2>3, <2>4, <2>5, <2>6 DEF OnePlace
  <1> QED BY <1>1, Invariance, PTL

(***************************************************************************)
(* No page shows an application for longer than the screen, although its   *)
(* two queries are no transaction, as long as no report fails.             *)
(***************************************************************************)
THEOREM PagesAreConsistent == Spec => []AppWithinScreen
  <1>1. IInv => AppWithinScreen BY DEF IInv, PageWithin, Smooth, Within, AppWithinScreen
  <1> QED BY <1>1, Invariance, PTL

(* No status is replaced by that of an earlier cycle of the same host. *)
THEOREM StatusesGoForward == Spec => StatusesForward
  <1> DEFINE Forward ==
        happened' \cap {"drop", "exit"} = {} =>
          \A u \in DOMAIN statuses \cap DOMAIN statuses' :
            statuses'[u].host = statuses[u].host => statuses'[u].cycle >= statuses[u].cycle
  <1>1. IInv /\ [Next]_vars => [Forward]_vars BY StatusStep DEF IInv
  <1> QED BY <1>1, Invariance, PTL DEF Spec, StatusesForward
=============================================================================
