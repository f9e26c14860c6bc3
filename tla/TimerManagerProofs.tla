-------------------------- MODULE TimerManagerProofs --------------------------
(***************************************************************************)
(* For any delays and any numbers of timers: the tables agree and no       *)
(* assertion fails, the timerfd is set for the earliest timer, timers run  *)
(* in their order and at most once, and a cancelled one never.             *)
(***************************************************************************)
EXTENDS TimerManager, FiniteSetTheorems, TLAPS

(* The timers whose insertion is queued.                                   *)
Adds(q) == {q[i].timer : i \in {j \in DOMAIN q : q[j].op = "add"}}

AddsOnce(q) ==
    \A i, j \in DOMAIN q :
       q[i].op = "add" /\ q[j].op = "add" /\ q[i].timer = q[j].timer => i = j

KnownCalls == [op : {"add", "cancel"}, timer : Ids]

CallsInv == posted \in Seq(KnownCalls) /\ funcs \in Seq(KnownCalls)

(* The batches are empty where nothing runs them.                          *)
PlaceInv ==
    /\ pc \notin {"expired", "callback"} => expired = <<>>
    /\ pc # "pending" => funcs = <<>>

TablesInv == ~failed /\ m_timers = m_table

(* Timers that have been in the tables, wherever they are now.             *)
Known == m_timers \cup ToSet(expired) \cup ToSet(ran) \cup cancelled

(* Before, a timer is made, queued once and in the batch once.             *)
FreshInv ==
    /\ adding \cap (Adds(posted) \cup Adds(funcs) \cup Known) = {}
    /\ Adds(posted) \cap (Adds(funcs) \cup Known) = {}
    /\ Adds(funcs) \cap Known = {}
    /\ AddsOnce(posted)
    /\ AddsOnce(funcs)

(* A timer that was in the tables is in one place.                         *)
OnceInv ==
    /\ m_timers \cap (ToSet(expired) \cup ToSet(ran) \cup cancelled) = {}
    /\ ToSet(expired) \cap (ToSet(ran) \cup cancelled) = {}
    /\ ToSet(ran) \cap cancelled = {}
    /\ IsInjective(expired)
    /\ IsInjective(ran)

(* What is left of the batch is in order and before what waits; once it    *)
(* runs, or if it is more than one timer, it is due.                       *)
OrderInv ==
    /\ \A i, j \in DOMAIN expired : i < j => Before(expired[i], expired[j])
    /\ \A x \in ToSet(expired), t \in m_timers : Before(x, t)
    /\ Len(expired) > 1 \/ pc = "callback"
          => \A x \in ToSet(expired) : expire[x] <= now

BasicInv == TypeOK /\ CallsInv /\ PlaceInv /\ TablesInv

TimerInv ==
    /\ BasicInv
    /\ FreshInv
    /\ OnceInv
    /\ ClockFollowsTimers
    /\ OrderInv

-----------------------------------------------------------------------------
(* The order of timers whose times are e.                                  *)

LessIn(e, t, u) == e[t] < e[u] \/ (e[t] = e[u] /\ t < u)

Sorted(e, s) == \A i, j \in DOMAIN s : i < j => LessIn(e, s[i], s[j])

LEMMA LessIsTotalOrder ==
    ASSUME NEW e \in Seq(Nat)
    PROVE  /\ \A t \in DOMAIN e : ~LessIn(e, t, t)
           /\ \A t, u \in DOMAIN e : LessIn(e, t, u) => ~LessIn(e, u, t)
           /\ \A t, u \in DOMAIN e : t # u => LessIn(e, t, u) \/ LessIn(e, u, t)
           /\ \A t, u, v \in DOMAIN e :
                 LessIn(e, t, u) /\ LessIn(e, u, v) => LessIn(e, t, v)
<1>1. DOMAIN e = 1 .. Len(e) /\ Len(e) \in Nat /\ \A t \in DOMAIN e : e[t] \in Nat
  OBVIOUS
<1>2. \A t \in DOMAIN e : t \in Nat
  BY <1>1
<1> QED
  BY <1>1, <1>2 DEF LessIn

LEMMA TimersFinite ==
    ASSUME NEW e \in Seq(Nat), NEW S \in SUBSET DOMAIN e
    PROVE  IsFiniteSet(S) /\ Cardinality(S) \in Nat
<1>1. DOMAIN e = 1 .. Len(e) /\ Len(e) \in Nat
  OBVIOUS
<1>2. IsFiniteSet(1 .. Len(e))
  BY <1>1, FS_Interval
<1> QED
  BY <1>1, <1>2, FS_Subset, FS_CardinalityType

(* A sorted list of as many timers as there are has them all.              *)
LEMMA SortedIsOnto ==
    ASSUME NEW e \in Seq(Nat), NEW S \in SUBSET DOMAIN e,
           NEW s \in [1 .. Cardinality(S) -> S], Sorted(e, s)
    PROVE  /\ IsInjective(s)
           /\ \A t \in S : \E i \in DOMAIN s : s[i] = t
<1> DEFINE n == Cardinality(S)
<1>1. n \in Nat /\ IsFiniteSet(S)
  BY TimersFinite
<1>2. ASSUME NEW i \in 1 .. n, NEW j \in 1 .. n, s[i] = s[j], i # j
      PROVE  FALSE
  <2>1. LessIn(e, s[i], s[j]) \/ LessIn(e, s[j], s[i])
    BY <1>1, <1>2 DEF Sorted
  <2> QED
    BY <2>1, <1>2, LessIsTotalOrder
<1>3. IsInjective(s)
  BY <1>2 DEF IsInjective
<1>4. s \in Injection(1 .. n, S)
  BY <1>3 DEF Injection
<1>5. IsFiniteSet(1 .. n) /\ Cardinality(1 .. n) = n
  BY <1>1, FS_Interval
<1>6. s \in Surjection(1 .. n, S)
  BY <1>1, <1>4, <1>5, FS_Injection
<1> QED
  BY <1>3, <1>6 DEF Surjection

(* Any timers can be sorted: a timer's place is one more than the number   *)
(* of those before it.                                                     *)
LEMMA SortedExists ==
    ASSUME NEW e \in Seq(Nat), NEW S \in SUBSET DOMAIN e
    PROVE  \E s \in [1 .. Cardinality(S) -> S] : Sorted(e, s)
<1> DEFINE n == Cardinality(S)
           Earlier(t) == {u \in S : LessIn(e, u, t)}
           rank == [t \in S |-> Cardinality(Earlier(t)) + 1]
<1>1. n \in Nat /\ IsFiniteSet(S)
  BY TimersFinite
<1>2. ASSUME NEW t \in S
      PROVE  /\ IsFiniteSet(Earlier(t))
             /\ Cardinality(Earlier(t)) \in Nat
             /\ Cardinality(Earlier(t)) < n
  <2>1. t \notin Earlier(t)
    BY LessIsTotalOrder
  <2>2. Earlier(t) \in SUBSET S /\ Earlier(t) # S
    BY <2>1
  <2>3. Cardinality(Earlier(t)) \in Nat /\ IsFiniteSet(Earlier(t))
    BY <2>2, <1>1, FS_Subset, FS_CardinalityType
  <2>4. Cardinality(Earlier(t)) <= n /\ Cardinality(Earlier(t)) # n
    BY <2>2, <1>1, FS_Subset
  <2> QED
    BY <2>3, <2>4, <1>1
<1>3. ASSUME NEW t \in S, NEW u \in S, LessIn(e, t, u)
      PROVE  rank[t] < rank[u]
  <2>1. Earlier(t) \in SUBSET Earlier(u)
    BY <1>3, LessIsTotalOrder
  <2>2. t \in Earlier(u) /\ t \notin Earlier(t)
    BY <1>3, LessIsTotalOrder
  <2>3. /\ Cardinality(Earlier(t)) <= Cardinality(Earlier(u))
        /\ Cardinality(Earlier(t)) # Cardinality(Earlier(u))
    BY <2>1, <2>2, <1>2, FS_Subset
  <2>4. Cardinality(Earlier(t)) \in Nat /\ Cardinality(Earlier(u)) \in Nat
    BY <1>2
  <2>5. rank[t] = Cardinality(Earlier(t)) + 1 /\ rank[u] = Cardinality(Earlier(u)) + 1
    OBVIOUS
  <2> HIDE DEF Earlier, rank
  <2> QED
    BY <2>3, <2>4, <2>5
<1>4. rank \in [S -> 1 .. n]
  <2>1. ASSUME NEW t \in S
        PROVE  Cardinality(Earlier(t)) + 1 \in 1 .. n
    <3>1. Cardinality(Earlier(t)) \in Nat /\ Cardinality(Earlier(t)) < n /\ n \in Nat
      BY <1>1, <1>2
    <3> HIDE DEF Earlier, n
    <3> QED
      BY <3>1
  <2> QED
    BY <2>1
<1> HIDE DEF rank
<1>5. rank \in Surjection(S, 1 .. n)
  <2>1. IsInjective(rank)
    <3>1. ASSUME NEW t \in S, NEW u \in S, rank[t] = rank[u], t # u
          PROVE  FALSE
      <4>1. rank[t] < rank[u] \/ rank[u] < rank[t]
        BY <3>1, <1>3, LessIsTotalOrder
      <4>2. rank[t] \in Nat /\ rank[u] \in Nat
        BY <1>1, <1>4
      <4> QED
        BY <4>1, <4>2, <3>1
    <3> QED
      BY <3>1, <1>4 DEF IsInjective
  <2>2. rank \in Injection(S, 1 .. n)
    BY <2>1, <1>4 DEF Injection
  <2>3. IsFiniteSet(1 .. n) /\ Cardinality(1 .. n) = n
    BY <1>1, FS_Interval
  <2> QED
    BY <1>1, <2>2, <2>3, FS_Injection
<1> DEFINE s == [i \in 1 .. n |-> CHOOSE t \in S : rank[t] = i]
<1>6. \A i \in 1 .. n : s[i] \in S /\ rank[s[i]] = i
  BY <1>5 DEF Surjection
<1>7. s \in [1 .. n -> S]
  BY <1>6
<1> HIDE DEF s
<1>8. ASSUME NEW i \in 1 .. n, NEW j \in 1 .. n, i < j
      PROVE  LessIn(e, s[i], s[j])
  <2>1. s[i] # s[j]
    BY <1>1, <1>6, <1>8
  <2>2. ~LessIn(e, s[j], s[i])
    BY <1>1, <1>3, <1>6, <1>8
  <2> QED
    BY <2>1, <2>2, <1>6, LessIsTotalOrder
<1> QED
  BY <1>7, <1>8 DEF Sorted

LEMMA LeastExists ==
    ASSUME NEW e \in Seq(Nat), NEW S \in SUBSET DOMAIN e, S # {}
    PROVE  \E t \in S : \A u \in S \ {t} : LessIn(e, t, u)
<1>1. PICK s \in [1 .. Cardinality(S) -> S] : Sorted(e, s)
  BY SortedExists
<1>2. \A u \in S : \E i \in 1 .. Cardinality(S) : s[i] = u
  BY <1>1, SortedIsOnto
<1>3. Cardinality(S) \in Nat
  BY TimersFinite
<1>4. 1 \in 1 .. Cardinality(S)
  BY <1>2, <1>3
<1>5. \A u \in S \ {s[1]} : LessIn(e, s[1], u)
  BY <1>1, <1>2, <1>3, <1>4 DEF Sorted
<1> QED
  BY <1>4, <1>5

Least(e, S) == CHOOSE t \in S : \A u \in S \ {t} : LessIn(e, t, u)

LEMMA LeastIs ==
    ASSUME NEW e \in Seq(Nat), NEW S \in SUBSET DOMAIN e, S # {}
    PROVE  /\ Least(e, S) \in S
           /\ \A u \in S \ {Least(e, S)} : LessIn(e, Least(e, S), u)
           /\ \A u \in S : e[Least(e, S)] <= e[u]
<1>1. \E t \in S : \A u \in S \ {t} : LessIn(e, t, u)
  BY LeastExists
<1>2. /\ Least(e, S) \in S
      /\ \A u \in S \ {Least(e, S)} : LessIn(e, Least(e, S), u)
  BY <1>1 DEF Least
<1>3. \A u \in S : e[u] \in Nat
  OBVIOUS
<1> QED
  BY <1>2, <1>3 DEF LessIn

(* First(), of the timers and times of a state and of the next.            *)
LEMMA FirstIsLeast ==
    /\ First(m_timers) = Least(expire, m_timers)
    /\ First(m_timers') = Least(expire, m_timers')
    /\ First(m_timers)' = Least(expire', m_timers')
BY DEF First, Least, Before, LessIn

(* ClockFollowsTimers, of timers S with times e, at time n.                *)
ClockOK(e, S, d, k, n) ==
    IF S = {} THEN d = Off /\ ~k
    ELSE k \/ (d # Off /\ \A u \in S : d <= e[u] \/ d <= n)

LEMMA ClockIsOK ==
    ASSUME NEW e \in Seq(Nat), NEW S \in SUBSET DOMAIN e, NEW n \in Nat,
           NEW d \in Nat \cup {Off}, NEW k \in BOOLEAN
    PROVE  ClockOK(e, S, d, k, n) <=>
             IF S = {} THEN d = Off /\ ~k
             ELSE k \/ (d # Off /\ d <= IF e[Least(e, S)] > n
                                         THEN e[Least(e, S)] ELSE n)
<1>1. CASE S = {}
  BY <1>1 DEF ClockOK
<1>2. CASE S # {}
  <2>1. /\ Least(e, S) \in S
        /\ \A u \in S : e[Least(e, S)] <= e[u]
        /\ \A u \in S : e[u] \in Nat
    BY <1>2, LeastIs
  <2>2. CASE k \/ d = Off
    BY <1>2, <2>2 DEF ClockOK
  <2>3. CASE ~k /\ d # Off
    <3>1. d \in Nat
      BY <2>3
    <3>2. (\A u \in S : d <= e[u] \/ d <= n)
             <=> (d <= e[Least(e, S)] \/ d <= n)
      BY <2>1, <3>1
    <3> QED
      BY <1>2, <2>1, <2>3, <3>1, <3>2 DEF ClockOK
  <2> QED
    BY <2>2, <2>3
<1> QED
  BY <1>1, <1>2

LEMMA ModBound == \A x \in Nat, n \in Nat \ {0} : x % n \in Nat /\ x % n <= x
OBVIOUS

LEMMA IdsGrow ==
    ASSUME expire \in Seq(Nat), NEW x \in Nat, expire' = Append(expire, x)
    PROVE  /\ expire' \in Seq(Nat)
           /\ Ids' = Ids \cup {Len(expire) + 1}
           /\ Len(expire) + 1 \notin Ids
           /\ \A t \in Ids : expire'[t] = expire[t] /\ t < Len(expire) + 1
           /\ expire'[Len(expire) + 1] = x
BY DEF Ids

LEMMA SetOfAppend ==
    ASSUME NEW S, NEW s \in Seq(S), NEW x \in S
    PROVE  /\ ToSet(Append(s, x)) = ToSet(s) \cup {x}
           /\ IsInjective(s) /\ x \notin ToSet(s) => IsInjective(Append(s, x))
<1> DEFINE r == Append(s, x)
<1>1. /\ DOMAIN s = 1..Len(s)
      /\ DOMAIN r = 1..(Len(s) + 1)
      /\ \A i \in 1..Len(s) : r[i] = s[i]
      /\ r[Len(s) + 1] = x
      /\ Len(s) \in Nat
  OBVIOUS
<1> HIDE DEF r
<1>2. ToSet(r) \subseteq ToSet(s) \cup {x}
  BY <1>1 DEF ToSet
<1>3. ToSet(s) \subseteq ToSet(r) /\ x \in ToSet(r)
  BY <1>1 DEF ToSet
<1>4. IsInjective(s) /\ x \notin ToSet(s) => IsInjective(r)
  BY <1>1 DEF IsInjective, ToSet
<1> QED
  BY <1>2, <1>3, <1>4 DEF r

LEMMA SetOfTail ==
    ASSUME NEW S, NEW s \in Seq(S), s # <<>>
    PROVE  /\ ToSet(s) = {Head(s)} \cup ToSet(Tail(s))
           /\ IsInjective(s) => IsInjective(Tail(s)) /\ Head(s) \notin ToSet(Tail(s))
<1> DEFINE r == Tail(s)
<1>1. /\ DOMAIN s = 1..Len(s)
      /\ DOMAIN r = 1..(Len(s) - 1)
      /\ \A i \in 1..(Len(s) - 1) : r[i] = s[i + 1]
      /\ Head(s) = s[1]
      /\ Len(s) \in Nat \ {0}
  OBVIOUS
<1> HIDE DEF r
<1>2. ToSet(r) \subseteq ToSet(s) /\ Head(s) \in ToSet(s)
  BY <1>1 DEF ToSet
<1>3. ASSUME NEW i \in DOMAIN s
      PROVE  s[i] \in {Head(s)} \cup ToSet(r)
  <2>1. CASE i = 1
    BY <2>1, <1>1
  <2>2. CASE i # 1
    <3>1. i - 1 \in 1..(Len(s) - 1) /\ (i - 1) + 1 = i
      BY <2>2, <1>1
    <3>2. r[i - 1] = s[i] /\ i - 1 \in DOMAIN r
      BY <3>1, <1>1
    <3> QED
      BY <3>2 DEF ToSet
  <2> QED
    BY <2>1, <2>2
<1>4. ToSet(s) \subseteq {Head(s)} \cup ToSet(r)
  BY <1>3 DEF ToSet
<1>5. ASSUME IsInjective(s)
      PROVE  IsInjective(r) /\ Head(s) \notin ToSet(r)
  <2>1. ASSUME NEW i \in DOMAIN r, NEW j \in DOMAIN s, s[j] = r[i]
        PROVE  j = i + 1
    <3>1. i + 1 \in DOMAIN s /\ r[i] = s[i + 1]
      BY <1>1
    <3> QED
      BY <1>5, <2>1, <3>1 DEF IsInjective
  <2>2. ASSUME NEW i \in DOMAIN r, NEW j \in DOMAIN r, r[i] = r[j]
        PROVE  i = j
    <3>1. j + 1 \in DOMAIN s /\ r[j] = s[j + 1]
      BY <1>1
    <3> QED
      BY <1>1, <2>1, <2>2, <3>1
  <2>3. IsInjective(r)
    BY <2>2 DEF IsInjective
  <2>4. ASSUME NEW i \in DOMAIN r, r[i] = s[1]
        PROVE  FALSE
    <3>1. 1 \in DOMAIN s /\ i + 1 # 1
      BY <1>1
    <3> QED
      BY <2>1, <2>4, <3>1
  <2> QED
    BY <1>1, <2>3, <2>4 DEF ToSet
<1> QED
  BY <1>2, <1>4, <1>5 DEF r

LEMMA AddsOfAppend ==
    ASSUME NEW S, NEW q \in Seq(S), NEW c \in S
    PROVE  /\ c.op = "add" => Adds(Append(q, c)) = Adds(q) \cup {c.timer}
           /\ c.op # "add" => Adds(Append(q, c)) = Adds(q)
           /\ AddsOnce(q) /\ (c.op = "add" => c.timer \notin Adds(q))
                 => AddsOnce(Append(q, c))
<1> DEFINE r == Append(q, c)
<1>1. /\ DOMAIN q = 1..Len(q)
      /\ DOMAIN r = 1..(Len(q) + 1)
      /\ \A i \in 1..Len(q) : r[i] = q[i]
      /\ r[Len(q) + 1] = c
      /\ Len(q) \in Nat
  OBVIOUS
<1> HIDE DEF r
<1>2. c.op = "add" => Adds(r) = Adds(q) \cup {c.timer}
  BY <1>1 DEF Adds
<1>3. c.op # "add" => Adds(r) = Adds(q)
  BY <1>1 DEF Adds
<1>4. AddsOnce(q) /\ (c.op = "add" => c.timer \notin Adds(q)) => AddsOnce(r)
  BY <1>1 DEF Adds, AddsOnce
<1> QED
  BY <1>2, <1>3, <1>4 DEF r

LEMMA AddsOfTail ==
    ASSUME NEW S, NEW q \in Seq(S), q # <<>>
    PROVE  /\ Adds(Tail(q)) \subseteq Adds(q)
           /\ AddsOnce(q) => AddsOnce(Tail(q))
           /\ Head(q).op = "add" => Head(q).timer \in Adds(q)
           /\ AddsOnce(q) /\ Head(q).op = "add" => Head(q).timer \notin Adds(Tail(q))
<1> DEFINE r == Tail(q)
<1>1. /\ DOMAIN q = 1..Len(q)
      /\ DOMAIN r = 1..(Len(q) - 1)
      /\ \A i \in 1..(Len(q) - 1) : r[i] = q[i + 1]
      /\ Head(q) = q[1]
      /\ Len(q) \in Nat \ {0}
  OBVIOUS
<1> HIDE DEF r
<1>2. Adds(r) \subseteq Adds(q)
  BY <1>1 DEF Adds
<1>3. AddsOnce(q) => AddsOnce(r)
  BY <1>1 DEF AddsOnce
<1>4. Head(q).op = "add" => Head(q).timer \in Adds(q)
  BY <1>1 DEF Adds
<1>5. AddsOnce(q) /\ Head(q).op = "add" => Head(q).timer \notin Adds(r)
  BY <1>1 DEF Adds, AddsOnce
<1> QED
  BY <1>2, <1>3, <1>4, <1>5 DEF r

LEMMA SeqMono ==
    ASSUME NEW S, NEW T, S \subseteq T, NEW s \in Seq(S)
    PROVE  s \in Seq(T)
<1>1. s \in [1 .. Len(s) -> T] /\ Len(s) \in Nat
  OBVIOUS
<1> QED
  BY <1>1

(* The order in which a batch is taken.                                    *)
LEMMA InOrderSorted ==
    ASSUME NEW S \in SUBSET Ids, expire \in Seq(Nat)
    PROVE  /\ InOrder(S) \in Seq(S)
           /\ Len(InOrder(S)) = Cardinality(S)
           /\ \A i, j \in DOMAIN InOrder(S) :
                 i < j => Before(InOrder(S)[i], InOrder(S)[j])
           /\ ToSet(InOrder(S)) = S
           /\ IsInjective(InOrder(S))
<1> DEFINE s == InOrder(S)
           n == Cardinality(S)
<1>1. S \in SUBSET DOMAIN expire
  BY DEF Ids
<1>2. n \in Nat
  BY <1>1, TimersFinite
<1>3. \E f \in [1 .. n -> S] : Sorted(expire, f)
  BY <1>1, SortedExists
<1>4. s \in [1 .. n -> S] /\ Sorted(expire, s)
  BY <1>3 DEF InOrder, Sorted, LessIn, Before
<1> HIDE DEF s, n
<1>5. IsInjective(s) /\ \A t \in S : \E i \in DOMAIN s : s[i] = t
  BY <1>1, <1>4, SortedIsOnto DEF n
<1>6. ToSet(s) = S
  BY <1>4, <1>5 DEF ToSet
<1>7. s \in Seq(S) /\ Len(s) = n
  BY <1>2, <1>4
<1>8. \A i, j \in DOMAIN s : i < j => Before(s[i], s[j])
  BY <1>4 DEF Sorted, LessIn, Before
<1> QED
  BY <1>5, <1>6, <1>7, <1>8 DEF s, n

-----------------------------------------------------------------------------
(* What the operations on the tables do.                                   *)

LEMMA Times ==
    ASSUME TypeOK
    PROVE  /\ Ids = DOMAIN expire
           /\ expire \in Seq(Nat)
           /\ m_timers \in SUBSET DOMAIN expire
           /\ \A t \in Ids : t \in Nat \ {0} /\ expire[t] \in Nat
           /\ now \in Nat
<1>1. expire \in Seq(Nat) /\ m_timers \in SUBSET DOMAIN expire /\ now \in Nat
  BY DEF TypeOK, Ids
<1>2. \A t \in DOMAIN expire : t \in Nat \ {0} /\ expire[t] \in Nat
  BY <1>1
<1> QED
  BY <1>1, <1>2 DEF Ids

LEMMA ResetEffect ==
    ASSUME now \in Nat, NEW e \in Nat, ResetTimerfd(e)
    PROVE  /\ deadline' \in Nat
           /\ ticks' = FALSE
           /\ deadline' <= e \/ deadline' <= now
<1>1. CASE e <= now
  BY <1>1 DEF ResetTimerfd
<1>2. CASE ~(e <= now)
  <2>1. e - now \in Nat /\ Second \in Nat \ {0}
    BY <1>2, TimerAssumption
  <2>2. (e - now) % Second \in Nat /\ (e - now) % Second <= e - now
    BY <2>1, ModBound
  <2>3. deadline' = e - ((e - now) % Second) /\ ticks' = FALSE
    BY <1>2 DEF ResetTimerfd
  <2> QED
    BY <2>2, <2>3
<1> QED
  BY <1>1, <1>2

LEMMA FollowsIsOK ==
    ASSUME TypeOK
    PROVE  ClockFollowsTimers <=> ClockOK(expire, m_timers, deadline, ticks, now)
<1>1. /\ expire \in Seq(Nat) /\ m_timers \in SUBSET DOMAIN expire
      /\ now \in Nat /\ deadline \in Nat \cup {Off} /\ ticks \in BOOLEAN
  BY DEF TypeOK, Ids
<1> QED
  BY <1>1, ClockIsOK, FirstIsLeast DEF ClockFollowsTimers

LEMMA FollowsIsOKNext ==
    ASSUME TypeOK'
    PROVE  ClockFollowsTimers'
             <=> ClockOK(expire', m_timers', deadline', ticks', now')
<1>1. /\ expire' \in Seq(Nat) /\ m_timers' \in SUBSET DOMAIN expire'
      /\ now' \in Nat /\ deadline' \in Nat \cup {Off} /\ ticks' \in BOOLEAN
  BY DEF TypeOK, Ids
<1> QED
  BY <1>1, ClockIsOK, FirstIsLeast DEF ClockFollowsTimers

LEMMA AddEffect ==
    ASSUME BasicInv, ClockFollowsTimers, NEW t, NEW e \in Nat,
           AddTimerInloop(t, e)
    PROVE  /\ m_timers' = m_timers \cup {t}
           /\ m_table' = m_table \cup {t}
           /\ UNCHANGED <<cancelled, failed>>
           /\ deadline' \in Nat \cup {Off} /\ ticks' \in BOOLEAN
           /\ \A f : f[t] = e /\ (\A u \in m_timers : f[u] = expire[u])
                 => ClockOK(f, m_timers', deadline', ticks', now)
<1> USE DEF BasicInv
<1>1. /\ m_timers' = m_timers \cup {t}
      /\ m_table' = m_table \cup {t}
      /\ UNCHANGED <<cancelled, failed>>
  BY DEF AddTimerInloop
<1>2. /\ deadline \in Nat \cup {Off} /\ ticks \in BOOLEAN /\ now \in Nat
      /\ \A u \in m_timers : expire[u] \in Nat
      /\ Off \notin Nat
  BY Times, TimerAssumption DEF TypeOK
<1>3. ClockOK(expire, m_timers, deadline, ticks, now)
  BY FollowsIsOK
<1>4. m_timers # {} => /\ First(m_timers) \in m_timers
                       /\ \A u \in m_timers : expire[First(m_timers)] <= expire[u]
  BY Times, LeastIs, FirstIsLeast
<1>5. CASE IsAddHead(e)
  <2>1. ResetTimerfd(e)
    BY <1>5 DEF AddTimerInloop
  <2>2. /\ deadline' \in Nat /\ ticks' = FALSE
        /\ deadline' <= e \/ deadline' <= now
    BY <1>2, <2>1, ResetEffect
  <2>3. \A u \in m_timers : e <= expire[u]
    BY <1>2, <1>4, <1>5 DEF IsAddHead
  <2>4. ASSUME NEW f, f[t] = e, \A u \in m_timers : f[u] = expire[u]
        PROVE  ClockOK(f, m_timers', deadline', ticks', now)
    BY <1>1, <1>2, <2>2, <2>3, <2>4 DEF ClockOK
  <2> QED
    BY <1>1, <2>2, <2>4
<1>6. CASE ~IsAddHead(e)
  <2>1. UNCHANGED <<deadline, ticks>>
    BY <1>6 DEF AddTimerInloop, clockVars
  <2>2. m_timers # {} /\ expire[First(m_timers)] <= e
    BY <1>2, <1>4, <1>6 DEF IsAddHead
  <2>3. ticks \/ (/\ deadline \in Nat
                  /\ \A u \in m_timers : deadline <= expire[u] \/ deadline <= now
                  /\ deadline <= e \/ deadline <= now)
    BY <1>2, <1>3, <1>4, <2>2 DEF ClockOK
  <2>4. ASSUME NEW f, f[t] = e, \A u \in m_timers : f[u] = expire[u]
        PROVE  ClockOK(f, m_timers', deadline', ticks', now)
    BY <1>1, <1>2, <2>1, <2>3, <2>4 DEF ClockOK
  <2> QED
    BY <1>1, <1>2, <2>1, <2>4
<1> QED
  BY <1>5, <1>6

(* The timerfd is set again for the first of the timers that are left.     *)
LEMMA ClockSet ==
    ASSUME BasicInv, m_timers' \subseteq m_timers,
           IF m_timers' = {} THEN CloseClock
                             ELSE ResetTimerfd(expire[First(m_timers')])
    PROVE  /\ deadline' \in Nat \cup {Off} /\ ticks' \in BOOLEAN
           /\ ClockOK(expire, m_timers', deadline', ticks', now)
<1> USE DEF BasicInv
<1>1. CASE m_timers' = {}
  BY <1>1 DEF CloseClock, ClockOK
<1>2. CASE m_timers' # {}
  <2>1. /\ First(m_timers') \in m_timers'
        /\ \A u \in m_timers' : expire[First(m_timers')] <= expire[u]
    BY <1>2, Times, LeastIs, FirstIsLeast
  <2>2. now \in Nat /\ \A u \in m_timers' : expire[u] \in Nat
    BY Times DEF Ids
  <2>3. /\ deadline' \in Nat /\ ticks' = FALSE
        /\ deadline' <= expire[First(m_timers')] \/ deadline' <= now
    BY <1>2, <2>1, <2>2, ResetEffect
  <2>4. \A u \in m_timers' : deadline' <= expire[u] \/ deadline' <= now
    BY <2>1, <2>2, <2>3
  <2>5. deadline' # Off
    BY <2>3, TimerAssumption
  <2> QED
    BY <1>2, <2>3, <2>4, <2>5 DEF ClockOK
<1> QED
  BY <1>1, <1>2

LEMMA CancelEffect ==
    ASSUME BasicInv, ClockFollowsTimers, NEW t, CancelInloop(t)
    PROVE  /\ m_timers' = m_timers \ {t}
           /\ m_table' = m_timers'
           /\ cancelled' = cancelled \cup ({t} \cap m_timers)
           /\ ~failed' /\ failed' \in BOOLEAN
           /\ deadline' \in Nat \cup {Off} /\ ticks' \in BOOLEAN
           /\ ClockOK(expire, m_timers', deadline', ticks', now)
<1> USE DEF BasicInv
<1>1. ClockOK(expire, m_timers, deadline, ticks, now)
  BY FollowsIsOK
<1>2. m_timers = m_table /\ failed = FALSE
  BY DEF TablesInv, TypeOK
<1>3. deadline \in Nat \cup {Off} /\ ticks \in BOOLEAN
  BY DEF TypeOK
<1>4. CASE t \notin m_timers
  <2>1. UNCHANGED <<tableVars, clockVars>>
    BY <1>2, <1>4 DEF CancelInloop
  <2> QED
    BY <1>1, <1>2, <1>3, <1>4, <2>1 DEF tableVars, clockVars
<1>5. CASE t \in m_timers
  <2>1. /\ m_timers' = m_timers \ {t}
        /\ m_table' = m_table \ {t}
        /\ cancelled' = cancelled \cup {t}
        /\ failed' = (t \notin m_timers
                       \/ Cardinality(m_timers') # Cardinality(m_table'))
    BY <1>2, <1>5 DEF CancelInloop, Erased
  <2>2. m_table' = m_timers' /\ failed' = FALSE
    BY <1>2, <1>5, <2>1
  <2>3. CASE t = First(m_timers)
    <3>1. IF m_timers' = {} THEN CloseClock
                            ELSE ResetTimerfd(expire[First(m_timers')])
      BY <1>2, <1>5, <2>3 DEF CancelInloop
    <3> QED
      BY <1>5, <2>1, <2>2, <3>1, ClockSet
  <2>4. CASE t # First(m_timers)
    <3>1. UNCHANGED <<deadline, ticks>>
      BY <1>2, <1>5, <2>4 DEF CancelInloop, clockVars
    <3>2. First(m_timers) \in m_timers
      BY <1>5, Times, LeastIs, FirstIsLeast
    <3>3. m_timers' # {} /\ m_timers # {}
      BY <2>1, <2>4, <3>2
    <3>4. ClockOK(expire, m_timers', deadline', ticks', now)
      BY <1>1, <2>1, <3>1, <3>3 DEF ClockOK
    <3> QED
      BY <1>3, <1>5, <2>1, <2>2, <3>1, <3>4
  <2> QED
    BY <2>3, <2>4
<1> QED
  BY <1>4, <1>5

(* A batch of more than one timer is due, and it is what comes first.      *)
LEMMA TakenIsDue ==
    ASSUME TypeOK, m_timers # {}
    PROVE  /\ Taken \subseteq m_timers
           /\ \A x \in Taken, t \in m_timers \ Taken : Before(x, t)
           /\ Cardinality(Taken) > 1 => \A x \in Taken : expire[x] <= now
<1> DEFINE due == {t \in m_timers : expire[t] <= now}
<1>1. /\ First(m_timers) \in m_timers
      /\ \A u \in m_timers \ {First(m_timers)} : Before(First(m_timers), u)
  BY Times, LeastIs, FirstIsLeast DEF LessIn, Before
<1>2. now \in Nat /\ \A u \in m_timers : expire[u] \in Nat
  BY Times DEF Ids
<1>3. CASE due = {}
  <2>1. Taken = {First(m_timers)}
    BY <1>3 DEF Taken
  <2>2. Cardinality(Taken) = 1
    BY <2>1, FS_Singleton
  <2> QED
    BY <1>1, <2>1, <2>2
<1>4. CASE due # {}
  <2>1. Taken = due
    BY <1>4 DEF Taken
  <2>2. \A x \in due, t \in m_timers \ due : Before(x, t)
    BY <1>2 DEF Before
  <2> QED
    BY <2>1, <2>2
<1> QED
  BY <1>3, <1>4

-----------------------------------------------------------------------------
(* Every step keeps the invariant.                                         *)

contentVars == <<expire, tableVars, expired, adding, posted, funcs, ran>>

Quiet ==
    \/ Tick \/ Expire \/ Enter \/ (\E io \in BOOLEAN : Poll(io))
    \/ HandleReadEmpty \/ EndCallback \/ EndRead \/ EndPending
    \/ UNCHANGED vars

(* The steps that leave the timers where they are.                         *)
LEMMA QuietStep ==
    ASSUME TimerInv, Quiet
    PROVE  TimerInv'
<1>1. UNCHANGED contentVars
  BY DEF Quiet, contentVars, Tick, Expire, Enter, Poll, HandleReadEmpty,
         EndCallback, EndRead, EndPending, vars, tableVars, iterVars
<1>2. /\ pc' \in {"outside", "poll", "events", "expired", "callback",
                  "pending", "undefined"}
      /\ timerReady' \in BOOLEAN /\ ioReady' \in BOOLEAN
      /\ deadline' \in Nat \cup {Off} /\ ticks' \in BOOLEAN
      /\ now' \in Nat /\ now' >= now
  <2>1. TypeOK
    BY DEF TimerInv, BasicInv
  <2>2. CASE Tick
    BY <2>1, <2>2 DEF TypeOK, Tick, clockVars, iterVars
  <2>3. CASE Expire
    BY <2>1, <2>3 DEF TypeOK, Expire, iterVars
  <2>4. CASE \E io \in BOOLEAN : Poll(io)
    BY <2>1, <2>4 DEF TypeOK, Poll, clockVars
  <2>5. CASE Enter \/ HandleReadEmpty \/ EndCallback \/ EndRead \/ EndPending
    BY <2>1, <2>5
       DEF TypeOK, Enter, HandleReadEmpty, EndCallback, EndRead, EndPending,
           clockVars
  <2>6. CASE UNCHANGED vars
    BY <2>1, <2>6 DEF TypeOK, vars
  <2> QED
    BY <2>2, <2>3, <2>4, <2>5, <2>6 DEF Quiet
<1>3. TypeOK'
  BY <1>1, <1>2
     DEF TimerInv, BasicInv, TypeOK, contentVars, tableVars, Ids
<1>4. CallsInv' /\ TablesInv' /\ FreshInv' /\ OnceInv'
  BY <1>1
     DEF TimerInv, BasicInv, CallsInv, KnownCalls, TablesInv, FreshInv, OnceInv,
         Known, contentVars, tableVars, Ids
<1>5. PlaceInv'
  BY DEF TimerInv, BasicInv, PlaceInv, Quiet, Tick, Expire, Enter, Poll,
         HandleReadEmpty, EndCallback, EndRead, EndPending, vars, iterVars
<1>6. ClockFollowsTimers'
  <2>1. ClockOK(expire, m_timers, deadline, ticks, now)
    BY FollowsIsOK DEF TimerInv, BasicInv
  <2>2. \/ deadline' = deadline /\ ticks' = ticks
        \/ deadline # Off /\ ticks' = TRUE
    BY DEF Quiet, Tick, Expire, Enter, Poll, HandleReadEmpty, EndCallback,
           EndRead, EndPending, vars, clockVars
  <2>3. \A u \in m_timers : expire[u] \in Nat
    BY Times DEF TimerInv, BasicInv, Ids
  <2>4. ClockOK(expire, m_timers, deadline', ticks', now')
    BY <1>2, <2>1, <2>2, <2>3, TimerAssumption
       DEF ClockOK, TimerInv, BasicInv, TypeOK
  <2> QED
    BY <1>1, <1>3, <2>4, FollowsIsOKNext DEF contentVars, tableVars
<1>7. OrderInv'
  <2>1. pc' = "callback" => pc = "callback"
    BY DEF Quiet, Tick, Expire, Enter, Poll, HandleReadEmpty, EndCallback,
           EndRead, EndPending, vars, iterVars
  <2>2. \A x \in ToSet(expired) : expire[x] \in Nat
    <3>1. \A x \in ToSet(expired) : x \in Ids
      BY DEF TimerInv, BasicInv, TypeOK, ToSet
    <3> QED
      BY <3>1, Times DEF TimerInv, BasicInv
  <2>3. OrderInv /\ now \in Nat
    BY DEF TimerInv, BasicInv, TypeOK
  <2> QED
    BY <1>1, <1>2, <2>1, <2>2, <2>3 DEF OrderInv, Before, contentVars, tableVars
<1> QED
  BY <1>3, <1>4, <1>5, <1>6, <1>7 DEF TimerInv, BasicInv

(* A timer is made: whatever names timers still does.                      *)
LEMMA MakeEffect ==
    ASSUME TimerInv, NEW d \in Delays, Make(d)
    PROVE  LET t == Len(expire) + 1 IN
           /\ expire' \in Seq(Nat)
           /\ Ids' = Ids \cup {t}
           /\ now + d \in Nat /\ expire'[t] = now + d
           /\ \A u \in Ids : expire'[u] = expire[u] /\ u < t
           /\ expired \in Seq(Ids') /\ ran \in Seq(Ids')
           /\ posted \in Seq(KnownCalls') /\ funcs \in Seq(KnownCalls')
           /\ posted \in Seq(Calls) /\ funcs \in Seq(Calls)
           /\ t \notin adding \cup Known \cup Adds(posted) \cup Adds(funcs)
<1> USE DEF TimerInv, BasicInv
<1> DEFINE t == Len(expire) + 1
<1>1. TypeOK /\ expire \in Seq(Nat) /\ expire' = Append(expire, now + d)
  BY DEF TypeOK, Make
<1>2. now + d \in Nat
  BY <1>1, TimerAssumption DEF TypeOK
<1>3. /\ expire' \in Seq(Nat)
      /\ Ids' = Ids \cup {t}
      /\ t \notin Ids
      /\ \A u \in Ids : expire'[u] = expire[u] /\ u < t
      /\ expire'[t] = now + d
  BY <1>1, <1>2, IdsGrow
<1>4. KnownCalls \subseteq KnownCalls'
  BY <1>3 DEF KnownCalls
<1>5. expired \in Seq(Ids') /\ ran \in Seq(Ids')
  BY <1>1, <1>3, SeqMono DEF TypeOK
<1>6. posted \in Seq(KnownCalls') /\ funcs \in Seq(KnownCalls')
  BY <1>4, SeqMono DEF CallsInv
<1>7. adding \cup Known \subseteq Ids
  <2>1. ToSet(expired) \subseteq Ids /\ ToSet(ran) \subseteq Ids
    BY <1>1 DEF TypeOK, ToSet
  <2> QED
    BY <1>1, <2>1 DEF TypeOK, Known
<1>8. Adds(posted) \cup Adds(funcs) \subseteq Ids
  <2>1. ASSUME NEW q \in Seq(KnownCalls)
        PROVE  Adds(q) \subseteq Ids
    <3>1. \A i \in DOMAIN q : q[i] \in KnownCalls
      OBVIOUS
    <3>2. \A i \in DOMAIN q : q[i].timer \in Ids
      BY <3>1 DEF KnownCalls
    <3> QED
      BY <3>2 DEF Adds
  <2> QED
    BY <2>1 DEF CallsInv
<1>9. posted \in Seq(Calls) /\ funcs \in Seq(Calls)
  BY <1>1 DEF TypeOK
<1> QED
  BY <1>2, <1>3, <1>5, <1>6, <1>7, <1>8, <1>9

LEMMA MakeElsewhereStep ==
    ASSUME TimerInv, NEW d \in Delays, MakeElsewhere(d)
    PROVE  TimerInv'
<1> USE DEF TimerInv, BasicInv
<1> DEFINE t == Len(expire) + 1
<1>1. /\ adding' = adding \cup {t}
      /\ Make(d)
      /\ UNCHANGED <<now, m_timers, m_table, cancelled, failed, deadline, ticks,
                    pc, timerReady, ioReady, expired, funcs, posted, ran>>
  BY DEF MakeElsewhere, tableVars, clockVars, iterVars
<1>2. /\ expire' \in Seq(Nat)
      /\ Ids' = Ids \cup {t}
      /\ \A u \in Ids : expire'[u] = expire[u]
      /\ expired \in Seq(Ids') /\ ran \in Seq(Ids')
      /\ posted \in Seq(KnownCalls') /\ funcs \in Seq(KnownCalls')
      /\ posted \in Seq(Calls) /\ funcs \in Seq(Calls)
      /\ t \notin adding \cup Known \cup Adds(posted) \cup Adds(funcs)
  BY <1>1, MakeEffect
<1> HIDE DEF t
<1>3. TypeOK'
  BY <1>1, <1>2 DEF TypeOK
<1>4. CallsInv' /\ PlaceInv' /\ TablesInv'
  BY <1>1, <1>2 DEF CallsInv, PlaceInv, TablesInv
<1>5. Known' = Known
  BY <1>1 DEF Known
<1>6. FreshInv'
  BY <1>1, <1>2, <1>5 DEF FreshInv
<1>7. OnceInv'
  BY <1>1 DEF OnceInv
<1>8. m_timers \subseteq Ids /\ \A x \in ToSet(expired) : x \in Ids
  BY DEF TypeOK, ToSet
<1>9. ClockFollowsTimers'
  <2>1. ClockOK(expire, m_timers, deadline, ticks, now)
    BY FollowsIsOK
  <2>2. ClockOK(expire', m_timers, deadline, ticks, now)
    BY <1>2, <1>8, <2>1 DEF ClockOK
  <2> QED
    BY <1>1, <1>3, <2>2, FollowsIsOKNext
<1>10. OrderInv'
  <2>1. \A i \in DOMAIN expired : expired[i] \in Ids
    BY DEF TypeOK
  <2>2. \A x, y \in Ids : Before(x, y) => Before(x, y)'
    BY <1>2 DEF Before
  <2>3. \A i, j \in DOMAIN expired' : i < j => Before(expired[i], expired[j])'
    BY <1>1, <2>1, <2>2 DEF OrderInv
  <2>4. \A x \in ToSet(expired'), u \in m_timers' : Before(x, u)'
    BY <1>1, <1>8, <2>2 DEF OrderInv
  <2> QED
    BY <1>1, <1>2, <1>8, <2>3, <2>4 DEF OrderInv
<1> QED
  BY <1>3, <1>4, <1>6, <1>7, <1>9, <1>10

LEMMA QueueAddStep ==
    ASSUME TimerInv, NEW t \in Ids, QueueAdd(t)
    PROVE  TimerInv'
<1> USE DEF TimerInv, BasicInv
<1> DEFINE c == [op |-> "add", timer |-> t]
<1>1. /\ t \in adding
      /\ adding' = adding \ {t}
      /\ posted' = Append(posted, c)
      /\ UNCHANGED <<now, expire, m_timers, m_table, cancelled, failed, deadline,
                    ticks, pc, timerReady, ioReady, expired, funcs, ran>>
  BY DEF QueueAdd, Queue, tableVars, clockVars, iterVars
<1>2. c \in KnownCalls /\ c \in Calls /\ c.op = "add" /\ c.timer = t
  BY Times DEF KnownCalls, Calls
<1> HIDE DEF c
<1>3. posted \in Seq(KnownCalls) /\ posted \in Seq(Calls)
  BY DEF CallsInv, TypeOK
<1>4. posted' \in Seq(KnownCalls) /\ posted' \in Seq(Calls)
  BY <1>1, <1>2, <1>3
<1>5. t \notin Adds(posted) \cup Adds(funcs) \cup Known
  BY <1>1 DEF FreshInv
<1>6. Adds(posted') = Adds(posted) \cup {t} /\ AddsOnce(posted')
  BY <1>1, <1>2, <1>3, <1>5, AddsOfAppend DEF FreshInv
<1>7. Ids' = Ids /\ KnownCalls' = KnownCalls /\ Known' = Known
  BY <1>1 DEF Ids, KnownCalls, Known
<1>8. TypeOK'
  BY <1>1, <1>4, <1>7 DEF TypeOK
<1>9. CallsInv' /\ PlaceInv' /\ TablesInv'
  BY <1>1, <1>4, <1>7 DEF CallsInv, PlaceInv, TablesInv
<1>10. FreshInv'
  BY <1>1, <1>5, <1>6, <1>7 DEF FreshInv
<1>11. OnceInv' /\ ClockFollowsTimers' /\ OrderInv'
  BY <1>1 DEF OnceInv, ClockFollowsTimers, First, OrderInv, Before
<1> QED
  BY <1>8, <1>9, <1>10, <1>11

LEMMA QueueCancelStep ==
    ASSUME TimerInv, NEW t \in Ids, QueueCancel(t)
    PROVE  TimerInv'
<1> USE DEF TimerInv, BasicInv
<1> DEFINE c == [op |-> "cancel", timer |-> t]
<1>1. /\ posted' = Append(posted, c)
      /\ UNCHANGED <<now, expire, m_timers, m_table, cancelled, failed, deadline,
                    ticks, pc, timerReady, ioReady, expired, adding, funcs, ran>>
  BY DEF QueueCancel, Queue, tableVars, clockVars, iterVars
<1>2. c \in KnownCalls /\ c \in Calls /\ c.op # "add"
  BY Times DEF KnownCalls, Calls
<1> HIDE DEF c
<1>3. posted \in Seq(KnownCalls) /\ posted \in Seq(Calls)
  BY DEF CallsInv, TypeOK
<1>4. posted' \in Seq(KnownCalls) /\ posted' \in Seq(Calls)
  BY <1>1, <1>2, <1>3
<1>5. Adds(posted') = Adds(posted) /\ AddsOnce(posted')
  BY <1>1, <1>2, <1>3, AddsOfAppend DEF FreshInv
<1>6. Ids' = Ids /\ KnownCalls' = KnownCalls /\ Known' = Known
  BY <1>1 DEF Ids, KnownCalls, Known
<1>7. TypeOK'
  BY <1>1, <1>4, <1>6 DEF TypeOK
<1>8. CallsInv' /\ PlaceInv' /\ TablesInv'
  BY <1>1, <1>4, <1>6 DEF CallsInv, PlaceInv, TablesInv
<1>9. FreshInv'
  BY <1>1, <1>5, <1>6 DEF FreshInv
<1>10. OnceInv' /\ ClockFollowsTimers' /\ OrderInv'
  BY <1>1 DEF OnceInv, ClockFollowsTimers, First, OrderInv, Before
<1> QED
  BY <1>7, <1>8, <1>9, <1>10

LEMMA EmptyBatch == ToSet(<<>>) = {} /\ Adds(<<>>) = {} /\ AddsOnce(<<>>)
                       /\ IsInjective(<<>>)
BY DEF ToSet, Adds, AddsOnce, IsInjective

(* Callbacks and functors run where nothing of a batch is left that is     *)
(* not due.                                                                *)
LEMMA CallbackPlace ==
    ASSUME TimerInv, InCallback
    PROVE  \A x \in ToSet(expired) : expire[x] <= now
<1>1. CASE pc = "callback"
  BY <1>1 DEF TimerInv, OrderInv
<1>2. CASE pc # "callback"
  <2>1. expired = <<>>
    BY <1>2 DEF InCallback, TimerInv, BasicInv, PlaceInv
  <2> QED
    BY <2>1, EmptyBatch
<1> QED
  BY <1>1, <1>2

LEMMA AddTimerStep ==
    ASSUME TimerInv, NEW d \in Delays, AddTimer(d)
    PROVE  TimerInv'
<1> USE DEF TimerInv, BasicInv
<1> DEFINE t == Len(expire) + 1
<1>1. /\ InCallback
      /\ Make(d)
      /\ AddTimerInloop(t, now + d)
      /\ UNCHANGED <<now, pc, timerReady, ioReady, expired, funcs, adding, posted,
                    ran>>
  BY DEF AddTimer, iterVars
<1>2. /\ expire' \in Seq(Nat)
      /\ Ids' = Ids \cup {t}
      /\ now + d \in Nat /\ expire'[t] = now + d
      /\ \A u \in Ids : expire'[u] = expire[u] /\ u < t
      /\ expired \in Seq(Ids') /\ ran \in Seq(Ids')
      /\ posted \in Seq(KnownCalls') /\ funcs \in Seq(KnownCalls')
      /\ posted \in Seq(Calls) /\ funcs \in Seq(Calls)
      /\ t \notin adding \cup Known \cup Adds(posted) \cup Adds(funcs)
  BY <1>1, MakeEffect
<1> HIDE DEF t
<1>3. /\ m_timers' = m_timers \cup {t}
      /\ m_table' = m_table \cup {t}
      /\ UNCHANGED <<cancelled, failed>>
      /\ deadline' \in Nat \cup {Off} /\ ticks' \in BOOLEAN
      /\ \A f : f[t] = now + d /\ (\A u \in m_timers : f[u] = expire[u])
            => ClockOK(f, m_timers', deadline', ticks', now)
  BY <1>1, <1>2, AddEffect
<1>4. TypeOK'
  BY <1>1, <1>2, <1>3 DEF TypeOK
<1>5. CallsInv' /\ PlaceInv' /\ TablesInv'
  BY <1>1, <1>2, <1>3 DEF CallsInv, PlaceInv, TablesInv
<1>6. Known' = Known \cup {t}
  BY <1>1, <1>3 DEF Known
<1>7. FreshInv'
  BY <1>1, <1>2, <1>3, <1>6 DEF FreshInv
<1>8. t \notin m_timers \cup ToSet(expired) \cup ToSet(ran) \cup cancelled
  BY <1>2 DEF Known
<1>9. OnceInv'
  BY <1>1, <1>3, <1>8 DEF OnceInv
<1>10. m_timers \subseteq Ids /\ \A x \in ToSet(expired) : x \in Ids
  BY DEF TypeOK, ToSet
<1>11. ClockFollowsTimers'
  <2>1. ClockOK(expire', m_timers', deadline', ticks', now)
    BY <1>2, <1>3, <1>10
  <2> QED
    BY <1>1, <1>4, <2>1, FollowsIsOKNext
<1>12. OrderInv'
  <2>1. \A i \in DOMAIN expired : expired[i] \in Ids
    BY DEF TypeOK
  <2>2. \A x, y \in Ids : Before(x, y) => Before(x, y)'
    BY <1>2 DEF Before
  <2>3. \A x \in ToSet(expired) : expire[x] <= now
    BY <1>1, CallbackPlace
  <2>4. \A x \in ToSet(expired) : LessIn(expire', x, t)
    <3>1. \A x \in Ids : expire[x] \in Nat /\ now \in Nat
      BY Times
    <3>2. d \in Nat
      BY TimerAssumption
    <3>3. ASSUME NEW x \in ToSet(expired)
          PROVE  LessIn(expire', x, t)
      <4>1. x < t /\ expire'[x] = expire[x] /\ expire'[t] = now + d
        BY <1>2, <1>10
      <4>2. expire[x] <= now /\ expire[x] \in Nat /\ now \in Nat
        BY <1>10, <2>3, <3>1
      <4> QED
        BY <3>2, <4>1, <4>2 DEF LessIn
    <3> QED
      BY <3>3
  <2>5. \A i, j \in DOMAIN expired' : i < j => Before(expired[i], expired[j])'
    BY <1>1, <2>1, <2>2 DEF OrderInv
  <2>6. \A x \in ToSet(expired'), u \in m_timers' : Before(x, u)'
    <3>1. \A x \in ToSet(expired), u \in m_timers : Before(x, u)'
      BY <1>10, <2>2 DEF OrderInv
    <3>2. \A x \in ToSet(expired), u \in m_timers \cup {t} : LessIn(expire', x, u)
      BY <2>4, <3>1 DEF LessIn, Before
    <3> QED
      BY <1>1, <1>3, <3>2 DEF LessIn, Before
  <2>7. \A x \in ToSet(expired') : expire'[x] <= now'
    BY <1>1, <1>2, <1>10, <2>3
  <2> QED
    BY <2>5, <2>6, <2>7 DEF OrderInv
<1> QED
  BY <1>4, <1>5, <1>7, <1>9, <1>11, <1>12

(* cancelInloop(), whoever calls it.                                       *)
LEMMA CancelKeeps ==
    ASSUME TimerInv, NEW t \in Ids, CancelInloop(t),
           UNCHANGED <<now, expire, pc, timerReady, ioReady, expired, adding,
                       posted, ran>>,
           funcs' \in Seq(KnownCalls), pc # "pending" => funcs' = <<>>,
           Adds(funcs') \subseteq Adds(funcs), AddsOnce(funcs')
    PROVE  TimerInv'
<1> USE DEF TimerInv, BasicInv
<1>1. /\ m_timers' = m_timers \ {t}
      /\ m_table' = m_timers'
      /\ cancelled' = cancelled \cup ({t} \cap m_timers)
      /\ ~failed' /\ failed' \in BOOLEAN
      /\ deadline' \in Nat \cup {Off} /\ ticks' \in BOOLEAN
      /\ ClockOK(expire, m_timers', deadline', ticks', now)
  BY CancelEffect
<1>2. Ids' = Ids /\ KnownCalls' = KnownCalls
  BY DEF Ids, KnownCalls
<1>3. KnownCalls \subseteq Calls
  BY Times DEF KnownCalls, Calls
<1>4. funcs' \in Seq(Calls)
  BY <1>3, SeqMono
<1>5. TypeOK'
  BY <1>1, <1>2, <1>4 DEF TypeOK
<1>6. CallsInv' /\ PlaceInv' /\ TablesInv'
  BY <1>1, <1>2 DEF CallsInv, PlaceInv, TablesInv
<1>7. Known' \subseteq Known
  BY <1>1 DEF Known
<1>8. FreshInv'
  BY <1>7 DEF FreshInv
<1>9. OnceInv'
  BY <1>1 DEF OnceInv
<1>10. ClockFollowsTimers'
  BY <1>1, <1>5, FollowsIsOKNext
<1>11. OrderInv'
  BY <1>1 DEF OrderInv, Before
<1> QED
  BY <1>5, <1>6, <1>8, <1>9, <1>10, <1>11

LEMMA CancelStep ==
    ASSUME TimerInv, NEW t \in Ids, Cancel(t)
    PROVE  TimerInv'
<1>1. /\ CancelInloop(t)
      /\ UNCHANGED <<now, expire, pc, timerReady, ioReady, expired, adding,
                    posted, ran, funcs>>
  BY DEF Cancel, iterVars
<1>2. /\ funcs \in Seq(KnownCalls) /\ AddsOnce(funcs)
      /\ pc # "pending" => funcs = <<>>
  BY DEF TimerInv, BasicInv, CallsInv, FreshInv, PlaceInv
<1> QED
  BY <1>1, <1>2, CancelKeeps

LEMMA RunFunctorStep ==
    ASSUME TimerInv, RunFunctor
    PROVE  TimerInv'
<1> USE DEF TimerInv, BasicInv
<1> DEFINE c == Head(funcs)
           t == c.timer
<1>1. /\ pc = "pending"
      /\ funcs # <<>>
      /\ funcs' = Tail(funcs)
      /\ IF c.op = "add" THEN AddTimerInloop(t, expire[t]) ELSE CancelInloop(t)
      /\ UNCHANGED <<now, expire, pc, timerReady, ioReady, expired, adding,
                    posted, ran>>
  BY DEF RunFunctor
<1>2. funcs \in Seq(KnownCalls)
  BY DEF CallsInv
<1>3. c \in KnownCalls /\ funcs' \in Seq(KnownCalls)
  BY <1>1, <1>2
<1>4. t \in Ids
  BY <1>3 DEF KnownCalls
<1>5. /\ Adds(funcs') \subseteq Adds(funcs)
      /\ AddsOnce(funcs')
      /\ c.op = "add" => t \in Adds(funcs) /\ t \notin Adds(funcs')
  BY <1>1, <1>2, AddsOfTail DEF FreshInv
<1> HIDE DEF c, t
<1>6. CASE c.op # "add"
  BY <1>1, <1>3, <1>4, <1>5, <1>6, CancelKeeps
<1>7. CASE c.op = "add"
  <2>1. expire[t] \in Nat
    BY <1>4, Times
  <2>2. /\ m_timers' = m_timers \cup {t}
        /\ m_table' = m_table \cup {t}
        /\ UNCHANGED <<cancelled, failed>>
        /\ deadline' \in Nat \cup {Off} /\ ticks' \in BOOLEAN
        /\ ClockOK(expire, m_timers', deadline', ticks', now)
    BY <1>1, <1>7, <2>1, AddEffect
  <2>3. Ids' = Ids /\ KnownCalls' = KnownCalls
    BY <1>1 DEF Ids, KnownCalls
  <2>4. KnownCalls \subseteq Calls
    BY Times DEF KnownCalls, Calls
  <2>5. funcs' \in Seq(Calls)
    BY <1>3, <2>4, SeqMono
  <2>6. TypeOK'
    BY <1>1, <1>4, <2>2, <2>3, <2>5 DEF TypeOK
  <2>7. CallsInv' /\ PlaceInv' /\ TablesInv'
    BY <1>1, <1>3, <2>2, <2>3 DEF CallsInv, PlaceInv, TablesInv
  <2>8. Known' = Known \cup {t}
    BY <1>1, <2>2 DEF Known
  <2>9. FreshInv'
    BY <1>1, <1>5, <1>7, <2>8 DEF FreshInv
  <2>10. t \notin m_timers \cup ToSet(expired) \cup ToSet(ran) \cup cancelled
    BY <1>5, <1>7 DEF FreshInv, Known
  <2>11. OnceInv'
    BY <1>1, <2>2, <2>10 DEF OnceInv
  <2>12. ClockFollowsTimers'
    BY <1>1, <2>2, <2>6, FollowsIsOKNext
  <2>13. expired' = <<>>
    BY <1>1 DEF PlaceInv
  <2>14. OrderInv'
    BY <2>13, EmptyBatch DEF OrderInv
  <2> QED
    BY <2>6, <2>7, <2>9, <2>11, <2>12, <2>14
<1> QED
  BY <1>6, <1>7

LEMMA HandleReadStep ==
    ASSUME TimerInv, HandleRead
    PROVE  TimerInv'
<1> USE DEF TimerInv, BasicInv
<1>1. /\ pc = "events" /\ pc' = "expired" /\ timerReady' = FALSE
      /\ m_timers # {}
      /\ FillExpired
      /\ UNCHANGED <<now, expire, cancelled, failed, ioReady, adding, posted,
                    funcs, ran>>
  BY DEF HandleRead
<1>2. /\ m_timers' = m_timers \ Taken
      /\ m_table' = m_table \ Taken
      /\ expired' = InOrder(Taken)
      /\ IF m_timers' = {} THEN CloseClock
                           ELSE ResetTimerfd(expire[First(m_timers')])
  BY <1>1 DEF FillExpired
<1>3. /\ Taken \subseteq m_timers
      /\ \A x \in Taken, t \in m_timers \ Taken : Before(x, t)
      /\ Cardinality(Taken) > 1 => \A x \in Taken : expire[x] <= now
  BY <1>1, TakenIsDue
<1>4. /\ deadline' \in Nat \cup {Off} /\ ticks' \in BOOLEAN
      /\ ClockOK(expire, m_timers', deadline', ticks', now)
  BY <1>2, ClockSet
<1>5. Taken \in SUBSET Ids /\ expire \in Seq(Nat)
  BY <1>3 DEF TypeOK
<1>6. /\ expired' \in Seq(Taken)
      /\ Len(expired') = Cardinality(Taken)
      /\ \A i, j \in DOMAIN expired' : i < j => Before(expired'[i], expired'[j])
      /\ ToSet(expired') = Taken
      /\ IsInjective(expired')
  BY <1>2, <1>5, InOrderSorted
<1>7. Ids' = Ids /\ KnownCalls' = KnownCalls
  BY <1>1 DEF Ids, KnownCalls
<1>8. expired' \in Seq(Ids)
  BY <1>5, <1>6, SeqMono
<1>9. TypeOK'
  BY <1>1, <1>2, <1>4, <1>7, <1>8 DEF TypeOK
<1>10. CallsInv' /\ PlaceInv' /\ TablesInv'
  BY <1>1, <1>2, <1>7 DEF CallsInv, PlaceInv, TablesInv
<1>11. Known' \subseteq Known
  BY <1>1, <1>2, <1>3, <1>6 DEF Known
<1>12. FreshInv'
  BY <1>1, <1>11 DEF FreshInv
<1>13. OnceInv'
  BY <1>1, <1>2, <1>3, <1>6 DEF OnceInv
<1>14. ClockFollowsTimers'
  BY <1>1, <1>4, <1>9, FollowsIsOKNext
<1>15. OrderInv'
  <2>1. \A i, j \in DOMAIN expired' : i < j => Before(expired[i], expired[j])'
    BY <1>1, <1>6 DEF Before
  <2>2. \A x \in ToSet(expired'), t \in m_timers' : Before(x, t)'
    BY <1>1, <1>2, <1>3, <1>6 DEF Before
  <2> QED
    BY <1>1, <1>3, <1>6, <2>1, <2>2 DEF OrderInv
<1> QED
  BY <1>9, <1>10, <1>12, <1>13, <1>14, <1>15

LEMMA RunStep ==
    ASSUME TimerInv, Run
    PROVE  /\ TimerInv'
           /\ Last(ran') = Head(expired)
           /\ \A t \in m_timers' \cup ToSet(expired') : Before(Head(expired), t)
<1> USE DEF TimerInv, BasicInv
<1> DEFINE x == Head(expired)
<1>1. /\ pc = "expired" /\ pc' = "callback"
      /\ expired # <<>>
      /\ expired' = Tail(expired)
      /\ ran' = Append(ran, x)
      /\ UNCHANGED <<now, expire, m_timers, m_table, cancelled, failed, deadline,
                    ticks, timerReady, ioReady, adding, posted, funcs>>
  BY DEF Run, tableVars, clockVars
<1>2. expired \in Seq(Ids) /\ ran \in Seq(Ids)
  BY DEF TypeOK
<1>3. /\ x \in Ids
      /\ expired' \in Seq(Ids) /\ ran' \in Seq(Ids)
      /\ DOMAIN expired' = 1 .. Len(expired) - 1 /\ Len(expired) \in Nat \ {0}
      /\ \A i \in 1 .. Len(expired) - 1 : expired'[i] = expired[i + 1]
      /\ DOMAIN expired = 1 .. Len(expired) /\ x = expired[1]
      /\ Last(ran') = x
  BY <1>1, <1>2 DEF Last
<1>4. /\ ToSet(expired) = {x} \cup ToSet(expired')
      /\ IsInjective(expired') /\ x \notin ToSet(expired')
  BY <1>1, <1>2, SetOfTail DEF OnceInv
<1> HIDE DEF x
<1>5. x \notin ToSet(ran)
  BY <1>4 DEF OnceInv
<1>6. ToSet(ran') = ToSet(ran) \cup {x} /\ IsInjective(ran')
  BY <1>1, <1>2, <1>3, <1>5, SetOfAppend DEF OnceInv
<1>7. Ids' = Ids /\ KnownCalls' = KnownCalls
  BY <1>1 DEF Ids, KnownCalls
<1>8. TypeOK'
  BY <1>1, <1>3, <1>7 DEF TypeOK
<1>9. CallsInv' /\ PlaceInv' /\ TablesInv'
  BY <1>1, <1>7 DEF CallsInv, PlaceInv, TablesInv
<1>10. Known' = Known
  BY <1>1, <1>4, <1>6 DEF Known
<1>11. FreshInv'
  BY <1>1, <1>10 DEF FreshInv
<1>12. OnceInv'
  BY <1>1, <1>4, <1>6 DEF OnceInv
<1>13. ClockFollowsTimers'
  BY <1>1 DEF ClockFollowsTimers, First, Before
<1>14. \A i \in 1 .. Len(expired) - 1 : Before(x, expired'[i])
  <2>1. ASSUME NEW i \in 1 .. Len(expired) - 1
        PROVE  Before(x, expired'[i])
    <3>1. 1 < i + 1 /\ 1 \in DOMAIN expired /\ i + 1 \in DOMAIN expired
      BY <1>3
    <3>2. Before(expired[1], expired[i + 1])
      BY <3>1 DEF OrderInv
    <3> QED
      BY <1>3, <3>2
  <2> QED
    BY <2>1
<1>15. \A t \in m_timers' \cup ToSet(expired') : Before(x, t)
  <2>1. \A t \in m_timers : Before(x, t)
    BY <1>4 DEF OrderInv
  <2>2. \A t \in ToSet(expired') : Before(x, t)
    BY <1>3, <1>14 DEF ToSet
  <2> QED
    BY <1>1, <2>1, <2>2
<1>16. OrderInv'
  <2>1. ASSUME NEW i \in DOMAIN expired', NEW j \in DOMAIN expired', i < j
        PROVE  Before(expired'[i], expired'[j])
    <3>1. /\ i + 1 < j + 1 /\ i + 1 \in DOMAIN expired /\ j + 1 \in DOMAIN expired
          /\ expired'[i] = expired[i + 1] /\ expired'[j] = expired[j + 1]
      BY <1>3, <2>1
    <3>2. Before(expired[i + 1], expired[j + 1])
      BY <3>1 DEF OrderInv
    <3> QED
      BY <3>1, <3>2
  <2>2. \A i, j \in DOMAIN expired' : i < j => Before(expired[i], expired[j])'
    BY <1>1, <2>1 DEF Before
  <2>3. \A y \in ToSet(expired'), t \in m_timers' : Before(y, t)'
    BY <1>1, <1>4 DEF OrderInv, Before
  <2>4. \A y \in ToSet(expired') : expire[y] <= now
    <3>1. CASE Len(expired) > 1
      BY <1>4, <3>1 DEF OrderInv
    <3>2. CASE ~(Len(expired) > 1)
      <4>1. ToSet(expired') = {}
        BY <1>3, <3>2 DEF ToSet
      <4> QED
        BY <4>1
    <3> QED
      BY <3>1, <3>2
  <2> QED
    BY <1>1, <2>2, <2>3, <2>4 DEF OrderInv
<1> QED
  BY <1>3, <1>8, <1>9, <1>11, <1>12, <1>13, <1>15, <1>16 DEF x

LEMMA EndEventsStep ==
    ASSUME TimerInv, EndEvents
    PROVE  TimerInv'
<1> USE DEF TimerInv, BasicInv
<1>1. /\ pc = "events" /\ pc' = "pending" /\ ioReady' = FALSE
      /\ funcs' = posted /\ posted' = <<>>
      /\ UNCHANGED <<now, expire, m_timers, m_table, cancelled, failed, deadline,
                    ticks, timerReady, expired, adding, ran>>
  BY DEF EndEvents, tableVars, clockVars
<1>2. Ids' = Ids /\ KnownCalls' = KnownCalls /\ Known' = Known
  BY <1>1 DEF Ids, KnownCalls, Known
<1>3. /\ posted \in Seq(KnownCalls) /\ posted \in Seq(Calls)
      /\ <<>> \in Seq(KnownCalls) /\ <<>> \in Seq(Calls)
  BY DEF CallsInv, TypeOK
<1>4. TypeOK'
  BY <1>1, <1>2, <1>3 DEF TypeOK
<1>5. CallsInv' /\ PlaceInv' /\ TablesInv'
  BY <1>1, <1>2, <1>3 DEF CallsInv, PlaceInv, TablesInv
<1>6. FreshInv'
  BY <1>1, <1>2, EmptyBatch DEF FreshInv
<1>7. OnceInv' /\ ClockFollowsTimers' /\ OrderInv'
  BY <1>1 DEF OnceInv, ClockFollowsTimers, First, OrderInv, Before
<1> QED
  BY <1>4, <1>5, <1>6, <1>7

LEMMA TimerInvInit == Init => TimerInv
<1> SUFFICES ASSUME Init PROVE TimerInv
  OBVIOUS
<1>1. /\ now = 0 /\ expire = <<>> /\ m_timers = {} /\ m_table = {}
      /\ deadline = Off /\ ticks = FALSE /\ pc = "outside"
      /\ timerReady = FALSE /\ ioReady = FALSE /\ expired = <<>>
      /\ adding = {} /\ posted = <<>> /\ funcs = <<>> /\ cancelled = {}
      /\ ran = <<>> /\ failed = FALSE
  BY DEF Init
<1>2. TypeOK /\ CallsInv
  <2>1. /\ <<>> \in Seq(Nat) /\ <<>> \in Seq(Ids) /\ <<>> \in Seq(Calls)
        /\ <<>> \in Seq(KnownCalls)
    OBVIOUS
  <2> QED
    BY <1>1, <2>1 DEF TypeOK, CallsInv
<1>3. PlaceInv /\ TablesInv /\ ClockFollowsTimers
  BY <1>1 DEF PlaceInv, TablesInv, ClockFollowsTimers
<1>4. FreshInv /\ OnceInv
  BY <1>1, EmptyBatch DEF FreshInv, OnceInv, Known
<1>5. OrderInv
  BY <1>1, EmptyBatch DEF OrderInv
<1> QED
  BY <1>2, <1>3, <1>4, <1>5 DEF TimerInv, BasicInv

LEMMA TimerInvNext == TimerInv /\ [Next]_vars => TimerInv'
<1> SUFFICES ASSUME TimerInv, [Next]_vars
             PROVE  TimerInv'
  OBVIOUS
<1>1. ASSUME NEW d \in Delays, AddTimer(d) \/ MakeElsewhere(d)
      PROVE  TimerInv'
  BY <1>1, AddTimerStep, MakeElsewhereStep
<1>2. ASSUME NEW t \in Ids, Cancel(t) \/ QueueAdd(t) \/ QueueCancel(t)
      PROVE  TimerInv'
  BY <1>2, CancelStep, QueueAddStep, QueueCancelStep
<1>3. CASE Quiet
  BY <1>3, QuietStep
<1>4. CASE HandleRead \/ Run \/ EndEvents \/ RunFunctor
  BY <1>4, HandleReadStep, RunStep, EndEventsStep, RunFunctorStep
<1> QED
  BY <1>1, <1>2, <1>3, <1>4 DEF Next, LoopStep, Quiet

LEMMA TimerInvAlways == Spec => []TimerInv
BY TimerInvInit, TimerInvNext, PTL DEF Spec

-----------------------------------------------------------------------------
(* Timer.cc: the variables keep their types.                               *)
THEOREM TypeCorrect == Spec => []TypeOK
<1>1. TimerInv => TypeOK
  BY DEF TimerInv, BasicInv
<1> QED
  BY <1>1, TimerInvAlways, PTL

(* addTimerInloop, cancelInloop, fillExpired, resetTimerfd: the timerfd is *)
(* never set for later than the earliest timer, whatever the delays.       *)
THEOREM ClockIsSet == Spec => []ClockFollowsTimers
<1>1. TimerInv => ClockFollowsTimers
  BY DEF TimerInv
<1> QED
  BY <1>1, TimerInvAlways, PTL

(* cancelInloop, fillExpired: the tables agree, no assertion fails, no     *)
(* timer runs twice and none that was cancelled.                           *)
THEOREM CancelledStaysOut == Spec => []CancelIsFinal
<1>1. ASSUME TimerInv
      PROVE  CancelIsFinal
  <2>1. \A t \in cancelled : t \notin ToSet(ran)
    BY <1>1 DEF TimerInv, OnceInv
  <2>2. \A t \in cancelled : ~Contains(ran, t)
    BY <2>1 DEF Contains, ToSet
  <2> QED
    BY <1>1, <2>2 DEF TimerInv, BasicInv, TablesInv, OnceInv, CancelIsFinal
<1> QED
  BY <1>1, TimerInvAlways, PTL

(* fillExpired, Comparator: timers run in the order of their times.        *)
THEOREM RunInOrder == Spec => RunsInOrder
<1>1. TimerInv /\ [Next]_vars =>
        [ran' # ran => \A t \in m_timers' \cup ToSet(expired') :
                         Before(Last(ran'), t)]_vars
  <2> SUFFICES ASSUME TimerInv, [Next]_vars, ran' # ran
               PROVE  \A t \in m_timers' \cup ToSet(expired') :
                         Before(Last(ran'), t)
    BY DEF vars
  <2>1. Run
    BY DEF Next, LoopStep, vars, AddTimer, MakeElsewhere, Cancel, QueueAdd,
           QueueCancel, Tick, Expire, Enter, Poll, HandleRead, HandleReadEmpty,
           EndCallback, EndRead, EndEvents, RunFunctor, EndPending
  <2> QED
    BY <2>1, RunStep
<1> QED
  BY <1>1, TimerInvAlways, PTL DEF Spec, RunsInOrder

===============================================================================
