----------------------------- MODULE SchedProofs -----------------------------
(***************************************************************************)
(* Proofs about Sched: its lists, phases and contexts agree in every       *)
(* reachable state, a mutex penalty is undone, and the critical sections   *)
(* implement ThreadLife.                                                   *)
(***************************************************************************)
EXTENDS Sched, ListLemmas

-----------------------------------------------------------------------------
(* The queues.                                                             *)

\* Queues of threads at the levels their priorities name, and who is in them.
Good(q, pri) ==
  /\ q \in [Levels -> Seq(Threads)]
  /\ \A i \in Levels : IsInjective(q[i]) /\ \A x \in ToSet(q[i]) : pri[x] = i

All(q) == {t \in Threads : \E i \in Levels : t \in ToSet(q[i])}

\* The levels are the numbers below MFQ_QUEUES.
LEMMA LevelFacts ==
  /\ Levels \subseteq Nat /\ 0 \in Levels /\ MFQ_QUEUES - 1 \in Levels
  /\ \A i \in Levels : i # 0 => i - 1 \in Levels
  /\ \A i \in Levels : i < MFQ_QUEUES - 1 => i + 1 \in Levels
  /\ \A i \in Levels : i # MFQ_QUEUES - 1 => i < MFQ_QUEUES - 1
  /\ 1 .. MFQ_QUEUES - 1 \subseteq Levels
BY SchedAssumption DEF Levels

\* Only the priorities of the threads that are queued matter.
LEMMA GoodPriorities ==
  ASSUME NEW q, NEW p1, NEW p2, Good(q, p1), \A t \in All(q) : p1[t] = p2[t]
  PROVE  Good(q, p2)
<1>1. ASSUME NEW i \in Levels, NEW x \in ToSet(q[i])
      PROVE  p2[x] = i
  <2>1. x \in All(q) /\ p1[x] = i
    BY ElementsType DEF All, Good
  <2> QED BY <2>1
<1> QED BY <1>1 DEF Good

\* sched_queue_add of a thread that is not queued.
LEMMA AppendGood ==
  ASSUME NEW q, NEW pri \in [Threads -> Levels], Good(q, pri),
         NEW t \in Threads, t \notin All(q)
  PROVE  /\ Good([q EXCEPT ![pri[t]] = Append(@, t)], pri)
         /\ All([q EXCEPT ![pri[t]] = Append(@, t)]) = All(q) \cup {t}
<1> DEFINE r == [q EXCEPT ![pri[t]] = Append(@, t)]
<1>1. PICK l \in Levels : l = pri[t]
  OBVIOUS
<1>2. /\ q[l] \in Seq(Threads) /\ IsInjective(q[l]) /\ t \notin ToSet(q[l])
      /\ q \in [Levels -> Seq(Threads)]
  BY DEF Good, All
<1>3. /\ Append(q[l], t) \in Seq(Threads) /\ IsInjective(Append(q[l], t))
      /\ ToSet(Append(q[l], t)) = ToSet(q[l]) \cup {t}
  BY <1>2, AppendElement
<1>4. /\ r \in [Levels -> Seq(Threads)]
      /\ \A i \in Levels : r[i] = IF i = l THEN Append(q[l], t) ELSE q[i]
  BY <1>1, <1>2, <1>3
<1> HIDE DEF r
<1>5. ASSUME NEW i \in Levels
      PROVE  /\ IsInjective(r[i]) /\ (\A x \in ToSet(r[i]) : pri[x] = i)
             /\ ToSet(r[i]) = IF i = l THEN ToSet(q[i]) \cup {t} ELSE ToSet(q[i])
  <2>1. IsInjective(q[i]) /\ \A x \in ToSet(q[i]) : pri[x] = i
    BY DEF Good
  <2>2. CASE i = l
    BY <1>1, <1>3, <1>4, <2>1, <2>2
  <2>3. CASE i # l
    BY <1>4, <2>1, <2>3
  <2> QED BY <2>2, <2>3
<1>6. All(r) = All(q) \cup {t}
  BY <1>1, <1>5 DEF All
<1> QED BY <1>4, <1>5, <1>6 DEF Good, r

\* sched_queue_select's rlist_pop_front.
LEMMA PopGood ==
  ASSUME NEW q, NEW pri, Good(q, pri), NonEmpty(q) # {}
  PROVE  /\ FirstLevel(q) \in Levels
         /\ Head(q[FirstLevel(q)]) \in All(q)
         /\ Good([q EXCEPT ![FirstLevel(q)] = Tail(@)], pri)
         /\ All([q EXCEPT ![FirstLevel(q)] = Tail(@)]) = All(q) \ {Head(q[FirstLevel(q)])}
<1> DEFINE r == [q EXCEPT ![FirstLevel(q)] = Tail(@)]
<1>1. FirstLevel(q) \in NonEmpty(q)
  <2>1. NonEmpty(q) \in SUBSET Nat
    BY LevelFacts DEF NonEmpty
  <2>2. \E i \in NonEmpty(q) : \A j \in NonEmpty(q) : i <= j
    BY <2>1, LeastNat
  <2> QED BY <2>2 DEF FirstLevel
<1>2. PICK l \in Levels : l = FirstLevel(q) /\ q[l] # <<>>
  BY <1>1 DEF NonEmpty
<1>3. q \in [Levels -> Seq(Threads)] /\ IsInjective(q[l]) /\ q[l] \in Seq(Threads)
  BY DEF Good
<1>4. PICK h : h = Head(q[l])
  OBVIOUS
<1>5. /\ Tail(q[l]) \in Seq(Threads) /\ IsInjective(Tail(q[l]))
      /\ h \in Threads /\ h \in ToSet(q[l]) /\ ToSet(Tail(q[l])) = ToSet(q[l]) \ {h}
  BY <1>2, <1>3, <1>4, TailElements
<1>6. /\ r \in [Levels -> Seq(Threads)]
      /\ \A i \in Levels : r[i] = IF i = l THEN Tail(q[l]) ELSE q[i]
  BY <1>2, <1>3, <1>5
<1> HIDE DEF r
<1>7. ASSUME NEW i \in Levels
      PROVE  /\ IsInjective(r[i]) /\ (\A x \in ToSet(r[i]) : pri[x] = i)
             /\ ToSet(r[i]) = ToSet(q[i]) \ {h}
  <2>1. IsInjective(q[i]) /\ \A x \in ToSet(q[i]) : pri[x] = i
    BY DEF Good
  <2>2. CASE i = l
    BY <1>5, <1>6, <2>1, <2>2
  <2>3. CASE i # l
    <3>1. pri[h] = l
      BY <1>5 DEF Good
    <3>2. h \notin ToSet(q[i])
      BY <2>1, <2>3, <3>1
    <3> QED BY <1>6, <2>1, <2>3, <3>2
  <2> QED BY <2>2, <2>3
<1>8. All(r) = All(q) \ {h} /\ h \in All(q)
  <2>1. h \in All(q)
    BY <1>5 DEF All
  <2>2. \A t \in Threads, i \in Levels : t \in ToSet(r[i]) <=> t \in ToSet(q[i]) /\ t # h
    BY <1>7
  <2>3. \A t \in Threads : t \in All(r) <=> t \in All(q) /\ t # h
    BY <2>2 DEF All
  <2>4. All(r) \subseteq Threads /\ All(q) \subseteq Threads
    BY DEF All
  <2> QED BY <2>1, <2>3, <2>4
<1> QED BY <1>2, <1>4, <1>6, <1>7, <1>8 DEF Good, r

\* sched_boost keeps the queues, and who is in them.
LEMMA BoostGood ==
  ASSUME NEW q, NEW pri \in [Threads -> Levels], Good(q, pri)
  PROVE  /\ Good(Boosted(q), BoostedPriority(q, pri))
         /\ All(Boosted(q)) = All(q)
         /\ BoostedPriority(q, pri) \in [Threads -> Levels]
         /\ \A t \in Threads \ All(q) : BoostedPriority(q, pri)[t] = pri[t]
<1>1. PICK B : B = BoostedLevels(q)
  OBVIOUS
<1> DEFINE A(i) == IF i \in B THEN Tail(q[i]) ELSE q[i]
           C(i) == IF i + 1 \in B THEN <<Head(q[i + 1])>> ELSE <<>>
<1>2. q \in [Levels -> Seq(Threads)] /\ \A i \in Levels : q[i] \in Seq(Threads)
  BY DEF Good
<1>3. \A i \in B : i \in Levels /\ i \in Nat /\ i # 0 /\ i - 1 \in Levels /\ q[i] # <<>>
  <2>1. ASSUME NEW i \in B
        PROVE  i \in Levels /\ i \in Nat /\ i # 0 /\ i - 1 \in Levels /\ q[i] # <<>>
    <3>1. i \in 1 .. MFQ_QUEUES - 1 /\ q[i] # <<>>
      BY <1>1 DEF BoostedLevels
    <3>2. i \in Levels /\ i # 0 /\ i \in Nat
      BY <3>1, LevelFacts
    <3> QED BY <3>1, <3>2, LevelFacts
  <2> QED BY <2>1
<1>4. ASSUME NEW i \in B
      PROVE  /\ Head(q[i]) \in Threads /\ Head(q[i]) \in ToSet(q[i]) /\ pri[Head(q[i])] = i
             /\ Tail(q[i]) \in Seq(Threads) /\ IsInjective(Tail(q[i]))
             /\ ToSet(Tail(q[i])) = ToSet(q[i]) \ {Head(q[i])}
  <2>1. q[i] \in Seq(Threads) /\ q[i] # <<>> /\ IsInjective(q[i]) /\ i \in Levels
    BY <1>2, <1>3 DEF Good
  <2>2. /\ Head(q[i]) \in Threads /\ Head(q[i]) \in ToSet(q[i])
        /\ Tail(q[i]) \in Seq(Threads) /\ IsInjective(Tail(q[i]))
        /\ ToSet(Tail(q[i])) = ToSet(q[i]) \ {Head(q[i])}
    BY <2>1, TailElements
  <2>3. pri[Head(q[i])] = i
    BY <2>1, <2>2 DEF Good
  <2> QED BY <2>2, <2>3
<1>5. PICK p : p = BoostedPriority(q, pri)
  OBVIOUS
<1>6. \A t \in Threads : p[t] = IF \E i \in B : Head(q[i]) = t THEN pri[t] - 1 ELSE pri[t]
  BY <1>1, <1>5 DEF BoostedPriority
<1>7. \A t \in Threads : (\E i \in B : Head(q[i]) = t) => pri[t] \in B /\ Head(q[pri[t]]) = t
  BY <1>4
<1>8. p \in [Threads -> Levels]
  <2>1. ASSUME NEW t \in Threads
        PROVE  p[t] \in Levels
    <3>1. CASE \E i \in B : Head(q[i]) = t
      BY <1>3, <1>6, <1>7, <3>1
    <3>2. CASE ~ \E i \in B : Head(q[i]) = t
      BY <1>6, <3>2
    <3> QED BY <3>1, <3>2
  <2> QED BY <1>5, <2>1 DEF BoostedPriority
<1>9. ASSUME NEW t \in Threads, t \notin All(q)
      PROVE  p[t] = pri[t]
  <2>1. ~ \E i \in B : Head(q[i]) = t
    BY <1>3, <1>4, <1>9 DEF All
  <2> QED BY <1>6, <2>1
<1>10. ASSUME NEW i \in Levels
       PROVE  /\ A(i) \in Seq(Threads) /\ IsInjective(A(i))
              /\ ToSet(A(i)) = {x \in ToSet(q[i]) : i \in B => x # Head(q[i])}
              /\ \A x \in ToSet(A(i)) : pri[x] = i /\ p[x] = i
  <2>1. IsInjective(q[i]) /\ q[i] \in Seq(Threads) /\ \A x \in ToSet(q[i]) : x \in Threads /\ pri[x] = i
    BY <1>2, ElementsType DEF Good
  <2>2. /\ A(i) \in Seq(Threads) /\ IsInjective(A(i))
        /\ ToSet(A(i)) = {x \in ToSet(q[i]) : i \in B => x # Head(q[i])}
    <3>1. CASE i \in B
      BY <1>4, <3>1
    <3>2. CASE i \notin B
      BY <2>1, <3>2
    <3> QED BY <3>1, <3>2
  <2>3. ASSUME NEW x \in ToSet(A(i))
        PROVE  pri[x] = i /\ p[x] = i
    <3>1. x \in Threads /\ pri[x] = i /\ (i \in B => x # Head(q[i]))
      BY <2>1, <2>2
    <3>2. ~ \E j \in B : Head(q[j]) = x
      BY <1>7, <3>1
    <3> QED BY <1>6, <3>1, <3>2
  <2> QED BY <2>2, <2>3
<1>11. ASSUME NEW i \in Levels
       PROVE  /\ C(i) \in Seq(Threads) /\ IsInjective(C(i))
              /\ ToSet(C(i)) = {Head(q[j]) : j \in {k \in B : k = i + 1}}
              /\ \A x \in ToSet(C(i)) : pri[x] = i + 1 /\ p[x] = i
  <2>1. CASE i + 1 \in B
    <3>1. PICK h \in Threads : h = Head(q[i + 1]) /\ pri[h] = i + 1
      BY <1>4, <2>1
    <3>2. C(i) = <<h>>
      BY <2>1, <3>1
    <3>3. <<h>> \in Seq(Threads) /\ IsInjective(<<h>>) /\ ToSet(<<h>>) = {h}
      BY DEF ToSet, IsInjective
    <3>4. {Head(q[j]) : j \in {k \in B : k = i + 1}} = {h}
      BY <2>1, <3>1
    <3>5. p[h] = i
      <4>1. p[h] = (i + 1) - 1 /\ i \in Nat
        BY <1>6, <2>1, <3>1, LevelFacts
      <4> QED BY <4>1
    <3> QED BY <3>1, <3>2, <3>3, <3>4, <3>5
  <2>2. CASE i + 1 \notin B
    <3>1. C(i) = <<>> /\ {Head(q[j]) : j \in {k \in B : k = i + 1}} = {}
      BY <2>2
    <3> QED BY <3>1, EmptyElements
  <2> QED BY <2>1, <2>2
<1> HIDE DEF A, C
<1>12. ASSUME NEW i \in Levels
       PROVE  /\ Boosted(q)[i] \in Seq(Threads) /\ IsInjective(Boosted(q)[i])
              /\ ToSet(Boosted(q)[i]) = ToSet(A(i)) \cup ToSet(C(i))
              /\ \A x \in ToSet(Boosted(q)[i]) : p[x] = i
  <2>1. Boosted(q)[i] = A(i) \o C(i)
    BY <1>1 DEF Boosted, A, C
  <2>2. /\ A(i) \o C(i) \in Seq(Threads)
        /\ ToSet(A(i) \o C(i)) = ToSet(A(i)) \cup ToSet(C(i))
        /\ (IsInjective(A(i)) /\ IsInjective(C(i)) /\ ToSet(A(i)) \cap ToSet(C(i)) = {}
              => IsInjective(A(i) \o C(i)))
    BY <1>10, <1>11, ConcatElements
  <2>3. ToSet(A(i)) \cap ToSet(C(i)) = {}
    <3>1. \A x \in ToSet(A(i)) : pri[x] = i
      BY <1>10
    <3>2. \A x \in ToSet(C(i)) : pri[x] = i + 1
      BY <1>11
    <3>3. i # i + 1
      BY LevelFacts
    <3> QED BY <3>1, <3>2, <3>3
  <2> QED BY <1>10, <1>11, <2>1, <2>2, <2>3
<1>13. Boosted(q) \in [Levels -> Seq(Threads)]
  <2>1. Boosted(q) = [i \in Levels |-> Boosted(q)[i]]
    BY DEF Boosted
  <2> QED BY <1>12, <2>1
<1>14. All(Boosted(q)) = All(q)
  <2>1. ASSUME NEW i \in Levels, NEW x \in ToSet(Boosted(q)[i])
        PROVE  \E j \in Levels : x \in ToSet(q[j])
    <3>1. CASE x \in ToSet(A(i))
      BY <1>10, <3>1
    <3>2. CASE x \in ToSet(C(i))
      <4>1. PICK k \in B : x = Head(q[k])
        BY <1>11, <3>2
      <4> QED BY <1>3, <1>4, <4>1
    <3> QED BY <1>12, <3>1, <3>2
  <2>2. ASSUME NEW i \in Levels, NEW x \in ToSet(q[i])
        PROVE  \E j \in Levels : x \in ToSet(Boosted(q)[j])
    <3>1. CASE i \in B /\ x = Head(q[i])
      <4>1. i - 1 \in Levels /\ (i - 1) + 1 = i
        BY <1>3, <3>1
      <4>2. x \in ToSet(C(i - 1))
        BY <1>11, <3>1, <4>1
      <4> QED BY <1>12, <4>1, <4>2
    <3>2. CASE ~ (i \in B /\ x = Head(q[i]))
      <4>1. x \in ToSet(A(i))
        BY <1>10, <3>2
      <4> QED BY <1>12, <4>1
    <3> QED BY <3>1, <3>2
  <2> QED BY <2>1, <2>2 DEF All
<1> QED BY <1>5, <1>8, <1>9, <1>12, <1>13, <1>14 DEF Good

\* sched_make_ready of several threads: the clean ones are queued.
LEMMA AddGood ==
  ASSUME NEW q, NEW pri \in [Threads -> Levels], Good(q, pri),
         NEW s \in Seq(Threads), IsInjective(s), ToSet(s) \cap All(q) = {}
  PROVE  /\ Good(AddAll(q, pri, s), pri)
         /\ All(AddAll(q, pri, s)) = All(q) \cup {t \in ToSet(s) : phase[t] = "CTX_CLEAN"}
<1> DEFINE Here(i) == {t \in Threads : phase[t] = "CTX_CLEAN" /\ pri[t] = i}
           r == AddAll(q, pri, s)
<1>1. ASSUME NEW i \in Levels
      PROVE  /\ r[i] \in Seq(Threads) /\ IsInjective(r[i])
             /\ ToSet(r[i]) = ToSet(q[i]) \cup (ToSet(s) \cap Here(i))
             /\ \A x \in ToSet(r[i]) : pri[x] = i
  <2>1. PICK k : k = Kept(s, Here(i))
    OBVIOUS
  <2>2. k \in Seq(Threads) /\ IsInjective(k) /\ ToSet(k) = ToSet(s) \cap Here(i)
    BY <2>1, KeptElements
  <2>3. /\ q[i] \in Seq(Threads) /\ IsInjective(q[i])
        /\ (\A x \in ToSet(q[i]) : pri[x] = i)
    BY DEF Good
  <2>4. ToSet(q[i]) \cap ToSet(k) = {}
    <3>1. ToSet(q[i]) \subseteq All(q)
      BY <2>3, ElementsType DEF All
    <3> QED BY <2>2, <3>1
  <2>5. r[i] = q[i] \o k
    BY <2>1 DEF AddAll
  <2>6. /\ q[i] \o k \in Seq(Threads) /\ ToSet(q[i] \o k) = ToSet(q[i]) \cup ToSet(k)
        /\ IsInjective(q[i] \o k)
    BY <2>2, <2>3, <2>4, ConcatElements
  <2> HIDE DEF r
  <2>7. /\ r[i] \in Seq(Threads) /\ IsInjective(r[i])
        /\ ToSet(r[i]) = ToSet(q[i]) \cup (ToSet(s) \cap Here(i))
    BY <2>2, <2>5, <2>6
  <2>8. \A x \in ToSet(r[i]) : pri[x] = i
    BY <2>3, <2>7
  <2> QED BY <2>7, <2>8
<1>2. r \in [Levels -> Seq(Threads)]
  <2>1. r = [i \in Levels |-> r[i]]
    BY DEF AddAll
  <2> HIDE DEF r
  <2> QED BY <1>1, <2>1
<1> HIDE DEF r
<1>3. All(r) = All(q) \cup {t \in ToSet(s) : phase[t] = "CTX_CLEAN"}
  <2>1. ASSUME NEW t \in ToSet(s), phase[t] = "CTX_CLEAN"
        PROVE  t \in All(r)
    <3>1. t \in Threads
      BY ElementsType
    <3>2. pri[t] \in Levels /\ t \in ToSet(s) \cap Here(pri[t])
      BY <2>1, <3>1
    <3> QED BY <1>1, <3>1, <3>2 DEF All
  <2>2. ASSUME NEW t \in Threads, NEW i \in Levels, t \in ToSet(q[i])
        PROVE  t \in ToSet(r[i])
    BY <1>1, <2>2
  <2>3. ASSUME NEW t \in Threads, NEW i \in Levels, t \in ToSet(r[i])
        PROVE  t \in ToSet(q[i]) \/ (t \in ToSet(s) /\ phase[t] = "CTX_CLEAN")
    BY <1>1, <2>3
  <2>4. All(r) \subseteq All(q) \cup {t \in ToSet(s) : phase[t] = "CTX_CLEAN"}
    BY <2>3 DEF All
  <2>5. All(q) \subseteq All(r)
    BY <2>2 DEF All
  <2> QED BY <2>1, <2>4, <2>5
<1> QED BY <1>1, <1>2, <1>3 DEF Good, r

-----------------------------------------------------------------------------
(* TIMEOUT_LIST.                                                           *)

\* Each thread once, in the order of the times.
Sorted(s, w) ==
  \A j, k \in DOMAIN s : j < k => s[j] # s[k] /\ w[s[j]] <= w[s[k]]

\* A list sorted by time repeats nobody.
LEMMA SortedInjective ==
  ASSUME NEW s \in Seq(Threads), NEW w, Sorted(s, w)
  PROVE  IsInjective(s)
<1>1. DOMAIN s = 1 .. Len(s) /\ Len(s) \in Nat
  OBVIOUS
<1>2. ASSUME NEW a \in DOMAIN s, NEW b \in DOMAIN s, s[a] = s[b]
      PROVE  a = b
  <2>1. a \in Nat /\ b \in Nat
    BY <1>1
  <2>2. ~ (a < b) /\ ~ (b < a)
    BY <1>2 DEF Sorted
  <2> QED BY <2>1, <2>2
<1> QED BY <1>2 DEF IsInjective

\* Only the times of the threads in the list matter.
LEMMA SortedTimes ==
  ASSUME NEW s, NEW v, NEW w, Sorted(s, v), \A t \in ToSet(s) : v[t] = w[t]
  PROVE  Sorted(s, w)
<1>1. \A j \in DOMAIN s : v[s[j]] = w[s[j]]
  BY DEF ToSet
<1> QED BY <1>1 DEF Sorted

\* rlist_remove keeps the order.
LEMMA SortedWithout ==
  ASSUME NEW s \in Seq(Threads), NEW w, Sorted(s, w), NEW t \in ToSet(s)
  PROVE  Sorted(Without(s, t), w)
<1>1. /\ Without(s, t) \in Seq(Threads) /\ Len(Without(s, t)) = Len(s) - 1
      /\ \E i \in 1 .. Len(s) :
           \A j \in 1 .. Len(s) - 1 : Without(s, t)[j] = IF j < i THEN s[j] ELSE s[j + 1]
  BY SortedInjective, WithoutElement
<1>2. PICK r, m : r = Without(s, t) /\ m = Len(s) /\ m \in Nat
  OBVIOUS
<1>3. PICK i \in 1 .. m : \A j \in 1 .. m - 1 : r[j] = IF j < i THEN s[j] ELSE s[j + 1]
  BY <1>1, <1>2
<1>4. DOMAIN r = 1 .. m - 1 /\ DOMAIN s = 1 .. m
  BY <1>1, <1>2
<1>5. ASSUME NEW j \in 1 .. m - 1, NEW k \in 1 .. m - 1, j < k
      PROVE  r[j] # r[k] /\ w[r[j]] <= w[r[k]]
  <2> DEFINE up(n) == IF n < i THEN n ELSE n + 1
  <2>1. up(j) \in 1 .. m /\ up(k) \in 1 .. m /\ up(j) < up(k)
    BY <1>2, <1>5
  <2>2. r[j] = s[up(j)] /\ r[k] = s[up(k)]
    BY <1>3
  <2> HIDE DEF up
  <2> QED BY <1>4, <2>1, <2>2 DEF Sorted
<1> QED BY <1>2, <1>4, <1>5 DEF Sorted

\* So does taking threads from the front.
LEMMA SortedRest ==
  ASSUME NEW s \in Seq(Threads), NEW w, Sorted(s, w), NEW c \in 0 .. Len(s)
  PROVE  Sorted(SubSeq(s, c + 1, Len(s)), w)
<1>0. PICK m \in Nat : m = Len(s)
  OBVIOUS
<1>1. PICK r : r = SubSeq(s, c + 1, Len(s))
  OBVIOUS
<1>2. /\ DOMAIN r = 1 .. m - c /\ DOMAIN s = 1 .. m /\ c \in 0 .. m
      /\ \A i \in 1 .. m - c : r[i] = s[c + i]
  BY <1>0, <1>1, Parts
<1>3. ASSUME NEW j \in 1 .. m - c, NEW k \in 1 .. m - c, j < k
      PROVE  r[j] # r[k] /\ w[r[j]] <= w[r[k]]
  <2>1. c + j \in DOMAIN s /\ c + k \in DOMAIN s /\ c + j < c + k
    BY <1>0, <1>2, <1>3
  <2> QED BY <1>2, <2>1 DEF Sorted
<1> QED BY <1>1, <1>2, <1>3 DEF Sorted

\* The threads due by time x are the first of the list.
DueBy(x) == {i \in DOMAIN TIMEOUT_LIST :
               \A j \in 1 .. i : wakeup_time[TIMEOUT_LIST[j]] <= x}

\* sched_wakeup_expired_timeouts: those due are the first of the list.
LEMMA DuePrefix ==
  ASSUME TIMEOUT_LIST \in Seq(Threads), NEW x
  PROVE  /\ Cardinality(DueBy(x)) \in 0 .. Len(TIMEOUT_LIST)
         /\ DueBy(x) = 1 .. Cardinality(DueBy(x))
<1>1. PICK m \in Nat : m = Len(TIMEOUT_LIST)
  OBVIOUS
<1>2. DOMAIN TIMEOUT_LIST = 1 .. m
  BY <1>1
<1>3. DueBy(x) \in SUBSET (1 .. m)
  BY <1>2 DEF DueBy
<1>4. ASSUME NEW i \in DueBy(x), NEW j \in 1 .. i
      PROVE  j \in DueBy(x)
  <2>1. i \in 1 .. m /\ j \in 1 .. m /\ 1 .. j \subseteq 1 .. i
    BY <1>3
  <2> QED BY <1>2, <2>1 DEF DueBy
<1> QED BY <1>1, <1>3, <1>4, Prefix

\* sched_register_timeout keeps the order.
LEMMA SortedInserted ==
  ASSUME TIMEOUT_LIST \in Seq(Threads), wakeup_time \in [Threads -> Int],
         Sorted(TIMEOUT_LIST, wakeup_time),
         NEW t \in Threads, t \notin ToSet(TIMEOUT_LIST), NEW x \in Int
  PROVE  /\ Inserted(t, x) \in Seq(Threads)
         /\ ToSet(Inserted(t, x)) = ToSet(TIMEOUT_LIST) \cup {t}
         /\ Sorted(Inserted(t, x), [wakeup_time EXCEPT ![t] = x])
<1>1. PICK s, c : s = TIMEOUT_LIST /\ c = Cardinality(DueBy(x))
  OBVIOUS
<1>2. PICK m \in Nat : m = Len(s)
  BY <1>1
<1>3. /\ s \in Seq(Threads) /\ IsInjective(s) /\ DOMAIN s = 1 .. m
      /\ c \in 0 .. m /\ c \in 0 .. Len(s) /\ t \notin ToSet(s)
  BY <1>1, <1>2, DuePrefix, SortedInjective
<1>4. PICK r : r = InsertAt(s, c + 1, t)
  OBVIOUS
<1>5. Inserted(t, x) = r
  BY <1>1, <1>4 DEF Inserted, DueBy
<1>6. /\ r \in Seq(Threads) /\ Len(r) = m + 1
      /\ ToSet(r) = ToSet(s) \cup {t}
      /\ \A i \in 1 .. m + 1 : r[i] = IF i <= c THEN s[i]
                                      ELSE IF i = c + 1 THEN t ELSE s[i - 1]
  <2>1. /\ InsertAt(s, c + 1, t) \in Seq(Threads)
        /\ Len(InsertAt(s, c + 1, t)) = Len(s) + 1
        /\ ToSet(InsertAt(s, c + 1, t)) = ToSet(s) \cup {t}
        /\ \A i \in 1 .. Len(s) + 1 :
              InsertAt(s, c + 1, t)[i] = IF i <= c THEN s[i]
                                         ELSE IF i = c + 1 THEN t ELSE s[i - 1]
    BY <1>3, InsertElement
  <2> QED BY <1>2, <1>4, <2>1
<1>7. DOMAIN r = 1 .. m + 1
  BY <1>2, <1>6
<1>8. PICK w : w = [wakeup_time EXCEPT ![t] = x]
  OBVIOUS
<1>9. w[t] = x /\ \A i \in 1 .. m : s[i] # t /\ s[i] \in Threads /\ w[s[i]] = wakeup_time[s[i]]
                                    /\ w[s[i]] \in Int
  BY <1>1, <1>3, <1>8 DEF ToSet
<1>10. \A i \in 1 .. c : w[s[i]] <= x
  <2>1. ASSUME NEW i \in 1 .. c
        PROVE  w[s[i]] <= x
    <3>1. i \in DueBy(x) /\ i \in 1 .. m /\ i \in 1 .. i
      BY <1>1, <1>3, DuePrefix
    <3>2. wakeup_time[s[i]] <= x
      BY <1>1, <3>1 DEF DueBy
    <3> QED BY <1>9, <3>1, <3>2
  <2> QED BY <2>1
<1>11. \A i \in c + 1 .. m : x <= w[s[i]]
  <2>1. ASSUME NEW i \in c + 1 .. m
        PROVE  x <= w[s[i]]
    <3>1. c + 1 \in 1 .. m /\ c + 1 \notin DueBy(x) /\ i \in 1 .. m /\ c \in Nat
      BY <1>1, <1>3, DuePrefix
    <3>2. PICK j \in 1 .. c + 1 : ~ (wakeup_time[s[j]] <= x)
      BY <1>1, <1>3, <3>1 DEF DueBy
    <3>3. j \in 1 .. m /\ ~ (w[s[j]] <= x)
      BY <1>9, <3>1, <3>2
    <3>4. j = i \/ j < i
      BY <3>1
    <3>5. j < i => wakeup_time[s[j]] <= wakeup_time[s[i]]
      BY <1>1, <1>3, <3>1, <3>3 DEF Sorted
    <3> QED BY <1>9, <3>1, <3>3, <3>4, <3>5
  <2> QED BY <2>1
<1>12. ASSUME NEW j \in 1 .. m + 1, NEW k \in 1 .. m + 1, j < k
       PROVE  r[j] # r[k] /\ w[r[j]] <= w[r[k]]
  <2>1. \A a \in 1 .. m, b \in 1 .. m : a < b => s[a] # s[b] /\ w[s[a]] <= w[s[b]]
    <3>1. ASSUME NEW a \in 1 .. m, NEW b \in 1 .. m, a < b
          PROVE  s[a] # s[b] /\ wakeup_time[s[a]] <= wakeup_time[s[b]]
      BY <1>1, <1>3, <3>1 DEF Sorted
    <3>2. \A a \in 1 .. m : w[s[a]] = wakeup_time[s[a]]
      BY <1>9
    <3> QED BY <3>1, <3>2
  <2>2. j = c + 1 \/ (j <= c /\ j \in 1 .. m) \/ (j > c + 1 /\ j - 1 \in c + 1 .. m /\ j - 1 \in 1 .. m)
    BY <1>3
  <2>3. k = c + 1 \/ (k <= c /\ k \in 1 .. m) \/ (k > c + 1 /\ k - 1 \in c + 1 .. m /\ k - 1 \in 1 .. m)
    BY <1>3
  <2>4. r[j] = IF j <= c THEN s[j] ELSE IF j = c + 1 THEN t ELSE s[j - 1]
    BY <1>6
  <2>5. r[k] = IF k <= c THEN s[k] ELSE IF k = c + 1 THEN t ELSE s[k - 1]
    BY <1>6
  <2>6. CASE j = c + 1
    <3>1. k - 1 \in c + 1 .. m /\ k - 1 \in 1 .. m /\ r[k] = s[k - 1] /\ r[j] = t
      BY <1>3, <1>12, <2>3, <2>4, <2>5, <2>6
    <3> QED BY <1>9, <1>11, <3>1
  <2>7. CASE j <= c /\ j \in 1 .. m
    <3>1. r[j] = s[j]
      BY <2>4, <2>7
    <3>2. CASE k = c + 1
      <4>1. r[k] = t /\ j \in 1 .. c
        BY <1>3, <2>5, <2>7, <3>2
      <4> QED BY <1>9, <1>10, <2>7, <3>1, <4>1
    <3>3. CASE k <= c /\ k \in 1 .. m
      BY <1>12, <2>1, <2>5, <2>7, <3>1, <3>3
    <3>4. CASE k > c + 1 /\ k - 1 \in c + 1 .. m /\ k - 1 \in 1 .. m
      <4>1. r[k] = s[k - 1] /\ j < k - 1
        BY <1>3, <2>5, <2>7, <3>4
      <4> QED BY <2>1, <2>7, <3>1, <3>4, <4>1
    <3> QED BY <2>3, <3>2, <3>3, <3>4
  <2>8. CASE j > c + 1 /\ j - 1 \in c + 1 .. m /\ j - 1 \in 1 .. m
    <3>1. r[j] = s[j - 1]
      BY <1>3, <2>4, <2>8
    <3>2. k > c + 1 /\ k - 1 \in 1 .. m /\ r[k] = s[k - 1] /\ j - 1 < k - 1
      BY <1>3, <1>12, <2>3, <2>5, <2>8
    <3> QED BY <2>1, <2>8, <3>1, <3>2
  <2> QED BY <2>2, <2>6, <2>7, <2>8
<1>13. Sorted(r, w)
  BY <1>7, <1>12 DEF Sorted
<1> QED BY <1>1, <1>5, <1>6, <1>8, <1>13

-----------------------------------------------------------------------------
(* The inductive invariant.  Beyond SchedInv and OneContext it says who is *)
(* CTX_DIRTY, what gain finds, and that an idle thread only ever waits.    *)

\* The thread whose stack core c is on.
On(c) == IF pc[c] = "gain" THEN prev[c] ELSE current_thread[c]

QInv ==
  /\ Good(SCHED, priority)
  /\ \A t \in All(SCHED) : /\ state[t] = "READY" /\ phase[t] = "CTX_CLEAN"
                           /\ \A c \in Cores : t \notin OnCore(c)

RInv ==
  \A t \in Threads : state[t] = "READY" =>
    t \in All(SCHED) \/ \E c \in Cores : t \in OnCore(c)

TInv ==
  /\ Sorted(TIMEOUT_LIST, wakeup_time)
  /\ \A t \in Threads : wakeup_time[t] # NO_TIMEOUT <=> t \in ToSet(TIMEOUT_LIST)
  /\ \A t \in ToSet(TIMEOUT_LIST) : state[t] = "STOPPED"

PhaseInv ==
  \A t \in Threads : phase[t] = "CTX_DIRTY" <=> \E c \in Cores : On(c) = t

CoreInv ==
  \A c \in Cores :
    /\ pc[c] = "run" => state[current_thread[c]] = "RUNNING"
    /\ pc[c] = "sleep" => /\ current_thread[c] \in Threads
                          /\ state[current_thread[c]] \in {"READY", "STOPPED", "EXITED"}
    /\ pc[c] = "gain" => /\ state[current_thread[c]] = "READY"
                         /\ state[prev[c]] \in {"READY", "STOPPED", "EXITED"}
    /\ state[c] \in {"READY", "RUNNING"}
    /\ current_thread[c] # c => state[c] = "READY"

FreeInv ==
  /\ \A t \in Threads : state[t] = "FREE" => \A c \in Cores : t \notin OnCore(c)
  /\ active_threads = Cardinality({t \in Threads : state[t] # "FREE"})

IInv == /\ TypeOK /\ QInv /\ RInv /\ TInv
        /\ PhaseInv /\ OneContext /\ CoreInv /\ FreeInv

\* What is on a core is its current thread or the one it leaves.
LEMMA Contexts ==
  ASSUME NEW c \in Cores
  PROVE  /\ current_thread[c] \in OnCore(c) /\ On(c) \in OnCore(c)
         /\ pc[c] = "gain" => prev[c] \in OnCore(c)
         /\ pc[c] # "gain" => OnCore(c) = {current_thread[c]} /\ On(c) = current_thread[c]
         /\ pc[c] = "gain" => OnCore(c) = {current_thread[c], prev[c]} /\ On(c) = prev[c]
BY DEF OnCore, On

\* A step that does not switch.
LEMMA SameContexts ==
  ASSUME UNCHANGED <<prev, current_thread>>,
         \A c \in Cores : pc'[c] = "gain" <=> pc[c] = "gain"
  PROVE  \A c \in Cores : OnCore(c)' = OnCore(c) /\ On(c)' = On(c)
BY DEF OnCore, On

\* Threads and idle threads are TCBs, and no thread is an idle thread.
LEMMA Tcbs ==
  /\ Threads \subseteq TCB /\ Cores \subseteq TCB
  /\ \A t \in TCB : t \in Threads <=> t \notin Cores
BY SchedAssumption DEF TCB

\* The thread in a list is one of Threads.
LEMMA ListTypes ==
  ASSUME TypeOK
  PROVE  /\ ToSet(TIMEOUT_LIST) \subseteq Threads
         /\ All(SCHED) \subseteq Threads
         /\ \A c \in Cores : current_thread[c] \in TCB /\ prev[c] \in TCB
         /\ wakeup_time \in [Threads -> Int]
<1>1. 0 .. MaxClock \cup {NO_TIMEOUT} \subseteq Int
  BY SchedAssumption DEF NO_TIMEOUT
<1>2. wakeup_time \in [Threads -> 0 .. MaxClock \cup {NO_TIMEOUT}]
  BY DEF TypeOK
<1>3. wakeup_time \in [Threads -> Int]
  BY <1>1, <1>2
<1>4. ToSet(TIMEOUT_LIST) \subseteq Threads
  BY ElementsType DEF TypeOK
<1> QED BY <1>3, <1>4 DEF All, TypeOK

\* cpu_core_restart_one sends a halted core back to its idle loop.
LEMMA RestartType ==
  ASSUME idle \in [Cores -> {"yield", "test", "halting", "halted"}], RestartOne
  PROVE  idle' \in [Cores -> {"yield", "test", "halting", "halted"}]
BY DEF RestartOne

\* At boot there is one thread, queued, and each core runs its idle thread.
LEMMA InitInv ==
  ASSUME Init
  PROVE  IInv
<1>1. /\ BootThread \in Threads /\ BootThread \in TCB /\ 0 \in Levels
      /\ \A c \in Cores : c \in TCB /\ c \notin Threads
      /\ \A t \in Threads : t \in TCB /\ t \notin Cores
  BY Tcbs, LevelFacts, SchedAssumption
<1>2. \A c \in Cores : OnCore(c) = {c} /\ On(c) = c
  BY DEF Init, OnCore, On
<1>3. \A i \in Levels : SCHED[i] = IF i = 0 THEN <<BootThread>> ELSE <<>>
  BY DEF Init
<1>4. /\ <<BootThread>> \in Seq(Threads) /\ IsInjective(<<BootThread>>)
      /\ ToSet(<<BootThread>>) = {BootThread}
  BY <1>1 DEF ToSet, IsInjective
<1>5. ASSUME NEW i \in Levels
      PROVE  /\ SCHED[i] \in Seq(Threads) /\ IsInjective(SCHED[i])
             /\ ToSet(SCHED[i]) = IF i = 0 THEN {BootThread} ELSE {}
  BY <1>3, <1>4, EmptyElements
<1>6. SCHED \in [Levels -> Seq(Threads)]
  BY <1>5 DEF Init
<1>7. TypeOK
  <2>1. 0 \in 0 .. MaxClock
    BY SchedAssumption
  <2>2. state \in [TCB -> ThreadState] /\ phase \in [TCB -> {"CTX_CLEAN", "CTX_DIRTY"}]
    BY DEF Init, ThreadState
  <2>3. current_thread \in [Cores -> TCB] /\ prev \in [Cores -> TCB]
    BY <1>1 DEF Init
  <2>4. /\ priority \in [Threads -> Levels] /\ prev_priority \in [Threads -> Levels]
        /\ mutex_contention \in [Threads -> BOOLEAN]
        /\ wakeup_time \in [Threads -> 0 .. MaxClock \cup {NO_TIMEOUT}]
        /\ TIMEOUT_LIST \in Seq(Threads) /\ timeslices \in Nat /\ active_threads \in Nat
        /\ clock \in 0 .. MaxClock
    BY <1>1, <2>1 DEF Init
  <2>5. /\ pc \in [Cores -> {"run", "sleep", "gain", "left"}]
        /\ idle \in [Cores -> {"yield", "test", "halting", "halted"}]
    BY DEF Init
  <2> QED BY <1>6, <2>2, <2>3, <2>4, <2>5 DEF TypeOK
<1>8. All(SCHED) = {BootThread}
  BY <1>1, <1>5 DEF All
<1>9. QInv
  <2>1. \A i \in Levels : IsInjective(SCHED[i]) /\ \A x \in ToSet(SCHED[i]) : priority[x] = i
    BY <1>1, <1>5 DEF Init
  <2>2. state[BootThread] = "READY" /\ phase[BootThread] = "CTX_CLEAN"
    BY <1>1 DEF Init
  <2>3. \A c \in Cores : BootThread \notin OnCore(c)
    BY <1>1, <1>2
  <2> QED BY <1>6, <1>8, <2>1, <2>2, <2>3 DEF QInv, Good
<1>10. RInv
  BY <1>1, <1>8 DEF RInv, Init
<1>11. TInv
  <2>1. ToSet(TIMEOUT_LIST) = {} /\ Sorted(TIMEOUT_LIST, wakeup_time)
    BY DEF Init, ToSet, Sorted
  <2>2. \A t \in Threads : wakeup_time[t] = NO_TIMEOUT
    BY DEF Init
  <2> QED BY <2>1, <2>2 DEF TInv
<1>12. PhaseInv
  BY <1>1, <1>2 DEF PhaseInv, Init
<1>13. OneContext
  BY <1>2 DEF OneContext
<1>14. CoreInv
  BY <1>1 DEF CoreInv, Init
<1>15. FreeInv
  <2>1. {t \in Threads : state[t] # "FREE"} = {BootThread}
    BY <1>1 DEF Init
  <2>2. Cardinality({BootThread}) = 1
    BY FS_Singleton
  <2>3. \A t \in Threads, c \in Cores : t \notin OnCore(c)
    BY <1>1, <1>2
  <2> QED BY <2>1, <2>2, <2>3 DEF FreeInv, Init
<1> QED BY <1>7, <1>9, <1>10, <1>11, <1>12, <1>13, <1>14, <1>15 DEF IInv

-----------------------------------------------------------------------------
(* The steps of one thread.                                                *)

\* spawn_thread takes a free TCB.
LEMMA SpawnInv ==
  ASSUME IInv, NEW c \in Cores, NEW t \in Threads, spawn_thread(c, t)
  PROVE  IInv'
<1>1. /\ TypeOK /\ QInv /\ RInv /\ TInv /\ PhaseInv /\ OneContext /\ CoreInv /\ FreeInv
      /\ t \in TCB /\ t \notin Cores /\ state[t] = "FREE"
  BY Tcbs DEF IInv, spawn_thread
<1>2. /\ state' = [state EXCEPT ![t] = "INIT"]
      /\ phase' = [phase EXCEPT ![t] = "CTX_CLEAN"]
      /\ wakeup_time' = [wakeup_time EXCEPT ![t] = NO_TIMEOUT]
      /\ priority' = [priority EXCEPT ![t] = 0]
      /\ mutex_contention' = [mutex_contention EXCEPT ![t] = FALSE]
      /\ active_threads' = active_threads + 1
      /\ UNCHANGED <<prev_priority, prev, SCHED, TIMEOUT_LIST, timeslices,
                     current_thread, pc, idle, clock>>
  BY DEF spawn_thread
<1>3. \A d \in Cores : OnCore(d)' = OnCore(d) /\ On(d)' = On(d)
  BY <1>2, SameContexts
<1>4. /\ t \notin All(SCHED) /\ t \notin ToSet(TIMEOUT_LIST) /\ wakeup_time[t] = NO_TIMEOUT
      /\ \A d \in Cores : t \notin OnCore(d) /\ On(d) # t
  BY <1>1, Contexts DEF QInv, TInv, FreeInv
<1>5. /\ \A x \in TCB : state'[x] = IF x = t THEN "INIT" ELSE state[x]
      /\ \A x \in TCB : phase'[x] = IF x = t THEN "CTX_CLEAN" ELSE phase[x]
      /\ \A x \in Threads : priority'[x] = IF x = t THEN 0 ELSE priority[x]
      /\ wakeup_time' = wakeup_time
  BY <1>1, <1>2, <1>4 DEF TypeOK
<1>6. TypeOK'
  <2>1. /\ state' \in [TCB -> ThreadState] /\ phase' \in [TCB -> {"CTX_CLEAN", "CTX_DIRTY"}]
        /\ priority' \in [Threads -> Levels] /\ mutex_contention' \in [Threads -> BOOLEAN]
        /\ active_threads' \in Nat
    BY <1>1, <1>2, LevelFacts DEF TypeOK, ThreadState
  <2> QED BY <1>1, <1>2, <1>5, <2>1 DEF TypeOK
<1>7. QInv'
  <2>1. Good(SCHED, priority')
    <3>1. \A x \in All(SCHED) : priority[x] = priority'[x]
      BY <1>1, <1>4, <1>5, ListTypes
    <3> QED BY <1>1, <3>1, GoodPriorities DEF QInv
  <2>2. ASSUME NEW x \in All(SCHED)
        PROVE  /\ state'[x] = "READY" /\ phase'[x] = "CTX_CLEAN"
               /\ \A d \in Cores : x \notin OnCore(d)'
    <3>1. x \in TCB /\ x # t
      BY <1>1, <1>4, ListTypes, Tcbs
    <3> QED BY <1>1, <1>3, <1>5, <3>1 DEF QInv
  <2> QED BY <1>2, <2>1, <2>2 DEF QInv
<1>8. RInv'
  <2>1. ASSUME NEW x \in Threads, state'[x] = "READY"
        PROVE  x \in All(SCHED) \/ \E d \in Cores : x \in OnCore(d)'
    <3>1. state[x] = "READY"
      BY <1>5, <2>1, Tcbs
    <3> QED BY <1>1, <1>3, <3>1 DEF RInv
  <2> QED BY <1>2, <2>1 DEF RInv
<1>9. TInv'
  <2>1. \A x \in ToSet(TIMEOUT_LIST) : state'[x] = "STOPPED"
    BY <1>1, <1>4, <1>5, ListTypes, Tcbs DEF TInv
  <2> QED BY <1>1, <1>2, <1>5, <2>1 DEF TInv
<1>10. PhaseInv'
  <2>1. ASSUME NEW x \in Threads
        PROVE  phase'[x] = "CTX_DIRTY" <=> \E d \in Cores : On(d)' = x
    BY <1>1, <1>3, <1>4, <1>5, Tcbs DEF PhaseInv
  <2> QED BY <2>1 DEF PhaseInv
<1>11. OneContext'
  BY <1>1, <1>3 DEF OneContext
<1>12. CoreInv'
  <2>1. ASSUME NEW d \in Cores
        PROVE  /\ state'[current_thread[d]] = state[current_thread[d]]
               /\ pc[d] = "gain" => state'[prev[d]] = state[prev[d]]
               /\ state'[d] = state[d]
    <3>1. current_thread[d] # t /\ (pc[d] = "gain" => prev[d] # t) /\ d # t
      BY <1>1, <1>4, Contexts
    <3> QED BY <1>1, <1>5, <3>1, ListTypes, Tcbs
  <2> QED BY <1>1, <1>2, <2>1 DEF CoreInv
<1>13. FreeInv'
  <2> DEFINE A == {x \in Threads : state[x] # "FREE"}
             B == {x \in Threads : state'[x] # "FREE"}
  <2>1. B = A \cup {t} /\ t \notin A
    BY <1>1, <1>5, Tcbs
  <2>2. IsFiniteSet(A)
    BY SchedAssumption, FS_Subset
  <2>3. Cardinality(B) = Cardinality(A) + 1
    BY <2>1, <2>2, FS_AddElement
  <2>4. active_threads = Cardinality(A)
    BY <1>1 DEF FreeInv
  <2>5. ASSUME NEW x \in Threads, state'[x] = "FREE"
        PROVE  \A d \in Cores : x \notin OnCore(d)'
    BY <1>1, <1>3, <1>5, <2>5, Tcbs DEF FreeInv
  <2> QED BY <1>2, <2>3, <2>4, <2>5 DEF FreeInv
<1> QED BY <1>6, <1>7, <1>8, <1>9, <1>10, <1>11, <1>12, <1>13 DEF IInv

\* wakeup queues a stopped thread once.
LEMMA WakeupInv ==
  ASSUME IInv, NEW c \in Cores, NEW t \in Threads, wakeup(c, t)
  PROVE  IInv'
<1>1. /\ TypeOK /\ QInv /\ RInv /\ TInv /\ PhaseInv /\ OneContext /\ CoreInv /\ FreeInv
      /\ t \in TCB /\ t \notin Cores /\ state[t] \in {"STOPPED", "INIT"}
  BY Tcbs DEF IInv, wakeup, Wakeable
<1>2. /\ TIMEOUT_LIST' = Unlisted(t)
      /\ wakeup_time' = [wakeup_time EXCEPT ![t] = NO_TIMEOUT]
      /\ state' = [state EXCEPT ![t] = "READY"]
      /\ UNCHANGED <<phase, priority, mutex_contention, prev_priority, prev,
                     timeslices, active_threads, current_thread, pc, clock>>
  BY DEF wakeup
<1>3. \A d \in Cores : OnCore(d)' = OnCore(d) /\ On(d)' = On(d)
  BY <1>2, SameContexts
<1>4. /\ \A x \in TCB : state'[x] = IF x = t THEN "READY" ELSE state[x]
      /\ \A x \in Threads : wakeup_time'[x] = IF x = t THEN NO_TIMEOUT ELSE wakeup_time[x]
  BY <1>1, <1>2 DEF TypeOK
<1>5. t \notin All(SCHED) /\ priority[t] \in Levels /\ priority \in [Threads -> Levels]
  BY <1>1 DEF QInv, TypeOK
<1>6. \/ /\ phase[t] = "CTX_CLEAN" /\ Good(SCHED', priority)
         /\ All(SCHED') = All(SCHED) \cup {t}
      \/ phase[t] = "CTX_DIRTY" /\ SCHED' = SCHED
  <2>1. CASE phase[t] = "CTX_CLEAN"
    <3>1. SCHED' = [SCHED EXCEPT ![priority[t]] = Append(@, t)]
      BY <2>1 DEF wakeup
    <3> QED BY <1>1, <1>5, <2>1, <3>1, AppendGood DEF QInv
  <2>2. CASE phase[t] # "CTX_CLEAN"
    BY <1>1, <2>2 DEF wakeup, TypeOK
  <2> QED BY <2>1, <2>2
<1>7. /\ TIMEOUT_LIST' \in Seq(Threads)
      /\ ToSet(TIMEOUT_LIST') = ToSet(TIMEOUT_LIST) \ {t}
      /\ Sorted(TIMEOUT_LIST', wakeup_time')
  <2>1. TIMEOUT_LIST \in Seq(Threads) /\ Sorted(TIMEOUT_LIST, wakeup_time)
    BY <1>1 DEF TypeOK, TInv
  <2>2. CASE wakeup_time[t] # NO_TIMEOUT
    <3>1. t \in ToSet(TIMEOUT_LIST) /\ TIMEOUT_LIST' = Without(TIMEOUT_LIST, t)
      BY <1>1, <1>2, <2>2 DEF TInv, Unlisted
    <3>2. /\ TIMEOUT_LIST' \in Seq(Threads)
          /\ ToSet(TIMEOUT_LIST') = ToSet(TIMEOUT_LIST) \ {t}
      BY <2>1, <3>1, WithoutElement, SortedInjective
    <3>3. Sorted(TIMEOUT_LIST', wakeup_time)
      BY <2>1, <3>1, SortedWithout
    <3>4. \A x \in ToSet(TIMEOUT_LIST') : wakeup_time[x] = wakeup_time'[x]
      BY <1>1, <1>4, <3>2, ListTypes
    <3> QED BY <3>2, <3>3, <3>4, SortedTimes
  <2>3. CASE wakeup_time[t] = NO_TIMEOUT
    <3>1. t \notin ToSet(TIMEOUT_LIST) /\ TIMEOUT_LIST' = TIMEOUT_LIST
      BY <1>1, <1>2, <2>3 DEF TInv, Unlisted
    <3>2. wakeup_time' = wakeup_time
      BY <1>1, <1>2, <2>3 DEF TypeOK
    <3> QED BY <2>1, <3>1, <3>2
  <2> QED BY <2>2, <2>3
<1>8. idle' \in [Cores -> {"yield", "test", "halting", "halted"}]
  BY <1>1, RestartType DEF wakeup, TypeOK
<1>9. TypeOK'
  <2>1. /\ state' \in [TCB -> ThreadState]
        /\ wakeup_time' \in [Threads -> 0 .. MaxClock \cup {NO_TIMEOUT}]
    BY <1>1, <1>2 DEF TypeOK, ThreadState
  <2>2. SCHED' \in [Levels -> Seq(Threads)]
    BY <1>1, <1>6 DEF TypeOK, Good
  <2> QED BY <1>1, <1>2, <1>7, <1>8, <2>1, <2>2 DEF TypeOK
<1>10. QInv'
  <2>1. Good(SCHED', priority')
    BY <1>1, <1>2, <1>6 DEF QInv
  <2>2. ASSUME NEW x \in All(SCHED')
        PROVE  /\ state'[x] = "READY" /\ phase'[x] = "CTX_CLEAN"
               /\ \A d \in Cores : x \notin OnCore(d)'
    <3>1. CASE x \in All(SCHED)
      <4>1. x \in TCB /\ x # t
        BY <1>1, <1>5, <3>1, ListTypes, Tcbs
      <4> QED BY <1>1, <1>2, <1>3, <1>4, <3>1, <4>1 DEF QInv
    <3>2. CASE x = t /\ phase[t] = "CTX_CLEAN"
      <4>1. ASSUME NEW d \in Cores
            PROVE  t \notin OnCore(d)
        <5>1. On(d) # t
          BY <1>1, <3>2 DEF PhaseInv
        <5>2. pc[d] = "gain" => state[current_thread[d]] = "READY"
          BY <1>1 DEF CoreInv
        <5> QED BY <1>1, <5>1, <5>2, Contexts
      <4> QED BY <1>1, <1>2, <1>3, <1>4, <3>2, <4>1
    <3> QED BY <1>6, <2>2, <3>1, <3>2
  <2> QED BY <2>1, <2>2 DEF QInv
<1>11. RInv'
  <2>1. ASSUME NEW x \in Threads, state'[x] = "READY"
        PROVE  x \in All(SCHED') \/ \E d \in Cores : x \in OnCore(d)'
    <3>1. CASE x = t /\ phase[t] = "CTX_CLEAN"
      BY <1>6, <3>1
    <3>2. CASE x = t /\ phase[t] = "CTX_DIRTY"
      <4>1. PICK d \in Cores : On(d) = t
        BY <1>1, <3>2 DEF PhaseInv
      <4> QED BY <1>3, <3>2, <4>1, Contexts
    <3>3. CASE x # t
      BY <1>1, <1>3, <1>4, <1>6, <2>1, <3>3, Tcbs DEF RInv
    <3> QED BY <1>1, <3>1, <3>2, <3>3 DEF TypeOK
  <2> QED BY <2>1 DEF RInv
<1>12. TInv'
  <2>1. \A x \in Threads : wakeup_time'[x] # NO_TIMEOUT <=> x \in ToSet(TIMEOUT_LIST')
    BY <1>1, <1>4, <1>7 DEF TInv
  <2>2. \A x \in ToSet(TIMEOUT_LIST') : state'[x] = "STOPPED"
    BY <1>1, <1>4, <1>7, ListTypes, Tcbs DEF TInv
  <2> QED BY <1>7, <2>1, <2>2 DEF TInv
<1>13. PhaseInv'
  BY <1>1, <1>2, <1>3 DEF PhaseInv
<1>14. OneContext'
  BY <1>1, <1>3 DEF OneContext
<1>15. CoreInv'
  <2>1. ASSUME NEW d \in Cores
        PROVE  /\ pc[d] = "run" => state'[current_thread[d]] = "RUNNING"
               /\ pc[d] = "sleep" =>
                    /\ current_thread[d] \in Threads
                    /\ state'[current_thread[d]] \in {"READY", "STOPPED", "EXITED"}
               /\ pc[d] = "gain" =>
                    /\ state'[current_thread[d]] = "READY"
                    /\ state'[prev[d]] \in {"READY", "STOPPED", "EXITED"}
               /\ state'[d] = state[d]
    BY <1>1, <1>4, ListTypes, Tcbs DEF CoreInv
  <2> QED BY <1>1, <1>2, <2>1 DEF CoreInv
<1>16. FreeInv'
  <2>1. \A x \in Threads : state'[x] = "FREE" <=> state[x] = "FREE"
    BY <1>1, <1>4, Tcbs
  <2>2. {x \in Threads : state'[x] # "FREE"} = {x \in Threads : state[x] # "FREE"}
    BY <2>1
  <2> QED BY <1>1, <1>2, <1>3, <2>1, <2>2 DEF FreeInv
<1> QED BY <1>9, <1>10, <1>11, <1>12, <1>13, <1>14, <1>15, <1>16 DEF IInv

\* The thread that core c runs leaves the state RUNNING, in sleep_releasing.
LEMMA SleepInv ==
  ASSUME IInv, NEW c \in Cores, Executes(c), current_thread[c] \in Threads,
         NEW st \in {"STOPPED", "EXITED"},
         state' = [state EXCEPT ![current_thread[c]] = st],
         pc' = [pc EXCEPT ![c] = "sleep"],
         UNCHANGED <<phase, priority, mutex_contention, prev_priority, prev, SCHED,
                     timeslices, active_threads, current_thread, idle, clock>>,
         TypeOK', TInv'
  PROVE  IInv'
<1>1. PICK t \in Threads : t = current_thread[c]
  OBVIOUS
<1>2. /\ TypeOK /\ QInv /\ RInv /\ TInv /\ PhaseInv /\ OneContext /\ CoreInv /\ FreeInv
      /\ t \in TCB /\ t \notin Cores /\ pc[c] = "run" /\ state[t] = "RUNNING"
  BY <1>1, Tcbs DEF IInv, Executes, CoreInv
<1>3. \A d \in Cores : OnCore(d)' = OnCore(d) /\ On(d)' = On(d)
  <2>1. \A d \in Cores : pc'[d] = "gain" <=> pc[d] = "gain"
    BY <1>2 DEF TypeOK
  <2> QED BY <2>1, SameContexts
<1>4. /\ \A x \in TCB : state'[x] = IF x = t THEN st ELSE state[x]
      /\ \A d \in Cores : pc'[d] = IF d = c THEN "sleep" ELSE pc[d]
  BY <1>1, <1>2 DEF TypeOK
<1>5. t \notin All(SCHED) /\ t \in OnCore(c) /\ \A d \in Cores : t \in OnCore(d) => d = c
  BY <1>1, <1>2, Contexts DEF QInv, OneContext
<1>6. QInv'
  <2>1. ASSUME NEW x \in All(SCHED)
        PROVE  /\ state'[x] = "READY" /\ phase'[x] = "CTX_CLEAN"
               /\ \A d \in Cores : x \notin OnCore(d)'
    BY <1>2, <1>3, <1>4, <1>5, ListTypes, Tcbs DEF QInv
  <2> QED BY <1>2, <2>1 DEF QInv
<1>7. RInv'
  <2>1. ASSUME NEW x \in Threads, state'[x] = "READY"
        PROVE  x \in All(SCHED) \/ \E d \in Cores : x \in OnCore(d)'
    BY <1>2, <1>3, <1>4, <2>1, Tcbs DEF RInv
  <2> QED BY <2>1 DEF RInv
<1>8. PhaseInv'
  BY <1>2, <1>3 DEF PhaseInv
<1>9. OneContext'
  BY <1>2, <1>3 DEF OneContext
<1>10. CoreInv'
  <2>1. ASSUME NEW d \in Cores, d # c
        PROVE  /\ state'[current_thread[d]] = state[current_thread[d]]
               /\ pc[d] = "gain" => state'[prev[d]] = state[prev[d]]
    <3>1. t \notin OnCore(d)
      BY <1>5, <2>1
    <3>2. current_thread[d] # t /\ (pc[d] = "gain" => prev[d] # t)
      BY <3>1, Contexts
    <3> QED BY <1>2, <1>4, <3>2, ListTypes
  <2>2. \A d \in Cores : state'[d] = state[d]
    BY <1>2, <1>4, Tcbs
  <2>3. pc'[c] = "sleep" /\ state'[current_thread[c]] \in {"READY", "STOPPED", "EXITED"}
    BY <1>1, <1>2, <1>4
  <2>4. ASSUME NEW d \in Cores
        PROVE  /\ pc'[d] = "run" => state'[current_thread[d]] = "RUNNING"
               /\ pc'[d] = "sleep" =>
                    /\ current_thread[d] \in Threads
                    /\ state'[current_thread[d]] \in {"READY", "STOPPED", "EXITED"}
               /\ pc'[d] = "gain" =>
                    /\ state'[current_thread[d]] = "READY"
                    /\ state'[prev[d]] \in {"READY", "STOPPED", "EXITED"}
    <3>1. CASE d = c
      BY <2>3, <3>1
    <3>2. CASE d # c
      BY <1>2, <1>4, <2>1, <3>2 DEF CoreInv
    <3> QED BY <3>1, <3>2
  <2> QED BY <1>2, <2>2, <2>4 DEF CoreInv
<1>11. FreeInv'
  <2>1. \A x \in Threads : state'[x] = "FREE" <=> state[x] = "FREE"
    BY <1>2, <1>4, Tcbs
  <2>2. {x \in Threads : state'[x] # "FREE"} = {x \in Threads : state[x] # "FREE"}
    BY <2>1
  <2> QED BY <1>2, <1>3, <2>1, <2>2 DEF FreeInv
<1> QED BY <1>6, <1>7, <1>8, <1>9, <1>10, <1>11 DEF IInv

\* sleep_releasing marks the current thread STOPPED, with or without a timeout.
LEMMA SleepStoppedInv ==
  ASSUME IInv, NEW c \in Cores, NEW timeout \in Timeouts \cup {NO_TIMEOUT},
         SleepStopped(c, timeout)
  PROVE  IInv'
<1>1. PICK t \in Threads : t = current_thread[c]
  BY DEF SleepStopped
<1>2. PICK w : w = clock + timeout
  OBVIOUS
<1>3. /\ Executes(c)
      /\ state' = [state EXCEPT ![t] = "STOPPED"]
      /\ \/ timeout = NO_TIMEOUT /\ UNCHANGED <<wakeup_time, TIMEOUT_LIST>>
         \/ /\ timeout # NO_TIMEOUT /\ w <= MaxClock
            /\ wakeup_time' = [wakeup_time EXCEPT ![t] = w]
            /\ TIMEOUT_LIST' = Inserted(t, w)
      /\ pc' = [pc EXCEPT ![c] = "sleep"]
      /\ UNCHANGED <<phase, priority, mutex_contention, prev_priority, prev,
                     SCHED, timeslices, active_threads, current_thread, idle, clock>>
  BY <1>1, <1>2 DEF SleepStopped
<1>4. /\ TypeOK /\ TInv /\ t \in TCB /\ state[t] = "RUNNING"
      /\ TIMEOUT_LIST \in Seq(Threads) /\ ToSet(TIMEOUT_LIST) \subseteq Threads
      /\ wakeup_time \in [Threads -> Int]
  BY <1>1, <1>3, Tcbs, ListTypes DEF IInv, TypeOK, Executes, CoreInv
<1>5. t \notin ToSet(TIMEOUT_LIST) /\ wakeup_time[t] = NO_TIMEOUT
  BY <1>4 DEF TInv
<1>6. \A x \in TCB : state'[x] = IF x = t THEN "STOPPED" ELSE state[x]
  BY <1>3, <1>4 DEF TypeOK
<1>7. /\ TIMEOUT_LIST' \in Seq(Threads)
      /\ wakeup_time' \in [Threads -> 0 .. MaxClock \cup {NO_TIMEOUT}]
      /\ TInv'
  <2>1. CASE timeout = NO_TIMEOUT /\ UNCHANGED <<wakeup_time, TIMEOUT_LIST>>
    <3>1. \A x \in ToSet(TIMEOUT_LIST) : state'[x] = "STOPPED"
      BY <1>4, <1>6, Tcbs DEF TInv
    <3> QED BY <1>4, <2>1, <3>1 DEF TInv, TypeOK
  <2>2. CASE /\ timeout # NO_TIMEOUT /\ w <= MaxClock
             /\ wakeup_time' = [wakeup_time EXCEPT ![t] = w]
             /\ TIMEOUT_LIST' = Inserted(t, w)
    <3>1. w \in 0 .. MaxClock /\ w \in Int /\ w # NO_TIMEOUT
      BY <1>2, <1>4, <2>2, SchedAssumption DEF TypeOK, NO_TIMEOUT
    <3>2. /\ TIMEOUT_LIST' \in Seq(Threads)
          /\ ToSet(TIMEOUT_LIST') = ToSet(TIMEOUT_LIST) \cup {t}
          /\ Sorted(TIMEOUT_LIST', wakeup_time')
      BY <1>4, <1>5, <2>2, <3>1, SortedInserted DEF TInv
    <3>3. wakeup_time' \in [Threads -> 0 .. MaxClock \cup {NO_TIMEOUT}]
      BY <1>4, <2>2, <3>1 DEF TypeOK
    <3>4. ASSUME NEW x \in Threads
          PROVE  wakeup_time'[x] # NO_TIMEOUT <=> x \in ToSet(TIMEOUT_LIST')
      BY <1>4, <2>2, <3>1, <3>2 DEF TInv
    <3>5. \A x \in ToSet(TIMEOUT_LIST') : state'[x] = "STOPPED"
      BY <1>4, <1>6, <3>2, Tcbs DEF TInv
    <3> QED BY <3>2, <3>3, <3>4, <3>5 DEF TInv
  <2> QED BY <1>3, <2>1, <2>2
<1>8. TypeOK'
  <2>1. state' \in [TCB -> ThreadState] /\ pc' \in [Cores -> {"run", "sleep", "gain", "left"}]
    BY <1>3, <1>4 DEF TypeOK, ThreadState
  <2> QED BY <1>3, <1>4, <1>7, <2>1 DEF TypeOK
<1> QED BY <1>1, <1>3, <1>7, <1>8, SleepInv

\* sleep_releasing marks the current thread EXITED.
LEMMA SleepExitedInv ==
  ASSUME IInv, NEW c \in Cores, SleepExited(c)
  PROVE  IInv'
<1>1. PICK t \in Threads : t = current_thread[c]
  BY DEF SleepExited
<1>2. /\ Executes(c)
      /\ state' = [state EXCEPT ![t] = "EXITED"]
      /\ pc' = [pc EXCEPT ![c] = "sleep"]
      /\ UNCHANGED <<phase, priority, mutex_contention, prev_priority,
                     wakeup_time, prev, SCHED, TIMEOUT_LIST, timeslices,
                     active_threads, current_thread, idle, clock>>
  BY <1>1 DEF SleepExited
<1>3. TypeOK /\ TInv /\ t \in TCB /\ state[t] = "RUNNING"
  BY <1>1, <1>2, Tcbs DEF IInv, Executes, CoreInv
<1>4. TypeOK'
  <2>1. state' \in [TCB -> ThreadState] /\ pc' \in [Cores -> {"run", "sleep", "gain", "left"}]
    BY <1>2, <1>3 DEF TypeOK, ThreadState
  <2> QED BY <1>2, <1>3, <2>1 DEF TypeOK
<1>5. TInv'
  <2>1. \A x \in ToSet(TIMEOUT_LIST) : state'[x] = "STOPPED"
    BY <1>2, <1>3, ListTypes, Tcbs DEF TInv, TypeOK
  <2> QED BY <1>2, <1>3, <2>1 DEF TInv
<1> QED BY <1>1, <1>2, <1>4, <1>5, SleepInv

\* The idle loop and the clock: no thread, list or context changes.
LEMMA IdleInv ==
  ASSUME IInv, TypeOK',
         UNCHANGED <<tcbVars, prev, SCHED, TIMEOUT_LIST, active_threads, current_thread>>,
         \A c \in Cores : pc'[c] = pc[c] \/ (pc[c] = "run" /\ pc'[c] = "left")
  PROVE  IInv'
<1>1. /\ TypeOK /\ QInv /\ RInv /\ TInv /\ PhaseInv /\ OneContext /\ CoreInv /\ FreeInv
  BY DEF IInv
<1>2. \A d \in Cores : OnCore(d)' = OnCore(d) /\ On(d)' = On(d)
  BY SameContexts
<1>3. QInv' /\ RInv' /\ TInv'
  BY <1>1, <1>2 DEF QInv, RInv, TInv, tcbVars
<1>4. PhaseInv' /\ OneContext' /\ FreeInv'
  BY <1>1, <1>2 DEF PhaseInv, OneContext, FreeInv, tcbVars
<1>5. CoreInv'
  BY <1>1 DEF CoreInv, tcbVars
<1> QED BY <1>3, <1>4, <1>5 DEF IInv

\* gain finishes the switch from p to t.
LEMMA GainInv ==
  ASSUME IInv, NEW c \in Cores, gain(c)
  PROVE  IInv'
<1>1. PICK t, p : t = current_thread[c] /\ p = prev[c]
  OBVIOUS
<1>2. /\ TypeOK /\ QInv /\ RInv /\ TInv /\ PhaseInv /\ OneContext /\ CoreInv /\ FreeInv
      /\ pc[c] = "gain" /\ t \in TCB /\ p \in TCB
      /\ state[t] = "READY" /\ state[p] \in {"READY", "STOPPED", "EXITED"}
      /\ state[c] \in {"READY", "RUNNING"}
  BY <1>1, ListTypes DEF IInv, gain, CoreInv
<1>3. /\ prev' = [prev EXCEPT ![c] = t]
      /\ timeslices' = timeslices + 1
      /\ state' = [state EXCEPT ![t] = "RUNNING",
                                ![p] = IF p = t THEN "RUNNING"
                                       ELSE IF Releases(c) THEN "FREE" ELSE @]
      /\ phase' = [phase EXCEPT ![p] = "CTX_CLEAN", ![t] = "CTX_DIRTY"]
      /\ SCHED' = IF Requeues(c)
                  THEN [SCHED EXCEPT ![priority[p]] = Append(@, p)] ELSE SCHED
      /\ RestartOne \/ idle' = idle
      /\ active_threads' = IF Releases(c) THEN active_threads - 1 ELSE active_threads
      /\ pc' = [pc EXCEPT ![c] = "run"]
      /\ UNCHANGED <<priority, mutex_contention, prev_priority, wakeup_time,
                     TIMEOUT_LIST, current_thread, clock>>
  BY <1>1 DEF gain
<1>4. /\ Releases(c) <=> p # t /\ state[p] = "EXITED"
      /\ Requeues(c) <=> p # t /\ state[p] = "READY" /\ p \in Threads
  BY <1>1 DEF Releases, Requeues, Switched
<1>5. /\ \A x \in TCB : state'[x] = IF x = t THEN "RUNNING"
                                    ELSE IF x = p /\ state[p] = "EXITED" THEN "FREE"
                                    ELSE state[x]
      /\ \A x \in TCB : phase'[x] = IF x = t THEN "CTX_DIRTY"
                                    ELSE IF x = p THEN "CTX_CLEAN" ELSE phase[x]
  BY <1>2, <1>3, <1>4 DEF TypeOK
<1>6. /\ OnCore(c) = {t, p} /\ On(c) = p /\ OnCore(c)' = {t} /\ On(c)' = t
      /\ \A d \in Cores : d # c => OnCore(d)' = OnCore(d) /\ On(d)' = On(d)
  <2>1. pc'[c] = "run" /\ current_thread'[c] = t
    BY <1>1, <1>2, <1>3 DEF TypeOK
  <2>2. ASSUME NEW d \in Cores, d # c
        PROVE  pc'[d] = pc[d] /\ prev'[d] = prev[d] /\ current_thread'[d] = current_thread[d]
    BY <1>2, <1>3, <2>2 DEF TypeOK
  <2>3. OnCore(c) = {t, p} /\ On(c) = p
    BY <1>1, <1>2, Contexts
  <2>4. OnCore(c)' = {t} /\ On(c)' = t
    BY <2>1 DEF OnCore, On
  <2>5. \A d \in Cores : d # c => OnCore(d)' = OnCore(d) /\ On(d)' = On(d)
    BY <2>2 DEF OnCore, On
  <2> QED BY <2>3, <2>4, <2>5
<1>7. /\ \A d \in Cores : d # c => t \notin OnCore(d) /\ p \notin OnCore(d)
      /\ t \in Cores => t = c
      /\ p \in Cores => p = c
      /\ t \notin All(SCHED) /\ p \notin All(SCHED)
  BY <1>2, <1>6 DEF OneContext, QInv
<1>8. p \in Cores => state[p] # "EXITED"
  BY <1>2, <1>7
<1>9. \/ /\ Requeues(c) /\ Good(SCHED', priority) /\ All(SCHED') = All(SCHED) \cup {p}
      \/ ~ Requeues(c) /\ SCHED' = SCHED
  <2>1. CASE Requeues(c)
    <3>1. SCHED' = [SCHED EXCEPT ![priority[p]] = Append(@, p)] /\ p \in Threads
      BY <1>3, <1>4, <2>1
    <3>2. /\ priority \in [Threads -> Levels] /\ Good(SCHED, priority)
          /\ p \in Threads /\ p \notin All(SCHED)
      BY <1>2, <1>7, <3>1 DEF QInv, TypeOK
    <3>3. /\ Good([SCHED EXCEPT ![priority[p]] = Append(@, p)], priority)
          /\ All([SCHED EXCEPT ![priority[p]] = Append(@, p)]) = All(SCHED) \cup {p}
      BY <3>2, AppendGood
    <3> QED BY <2>1, <3>1, <3>3
  <2>2. CASE ~ Requeues(c)
    BY <1>3, <2>2
  <2> QED BY <2>1, <2>2
<1>10. QInv'
  <2>1. Good(SCHED', priority')
    BY <1>2, <1>3, <1>9 DEF QInv
  <2>2. ASSUME NEW x \in All(SCHED')
        PROVE  /\ state'[x] = "READY" /\ phase'[x] = "CTX_CLEAN"
               /\ \A d \in Cores : x \notin OnCore(d)'
    <3>1. CASE x \in All(SCHED)
      <4>1. x \in TCB /\ x # t /\ x # p
        BY <1>2, <1>7, <3>1, ListTypes, Tcbs
      <4>2. \A d \in Cores : x \notin OnCore(d)
        BY <1>2, <3>1 DEF QInv
      <4> QED BY <1>2, <1>5, <1>6, <3>1, <4>1, <4>2 DEF QInv
    <3>2. CASE x = p /\ Requeues(c)
      BY <1>2, <1>4, <1>5, <1>6, <1>7, <3>2
    <3> QED BY <1>9, <2>2, <3>1, <3>2
  <2> QED BY <2>1, <2>2 DEF QInv
<1>11. RInv'
  <2>1. ASSUME NEW x \in Threads, state'[x] = "READY"
        PROVE  x \in All(SCHED') \/ \E d \in Cores : x \in OnCore(d)'
    <3>1. x # t /\ state[x] = "READY"
      BY <1>5, <2>1, Tcbs
    <3>2. CASE x = p
      BY <1>4, <1>9, <3>1, <3>2
    <3>3. CASE x # p
      <4>1. x \in All(SCHED) \/ \E d \in Cores : x \in OnCore(d)
        BY <1>2, <3>1 DEF RInv
      <4> QED BY <1>6, <1>9, <3>1, <3>3, <4>1
    <3> QED BY <3>2, <3>3
  <2> QED BY <2>1 DEF RInv
<1>12. TInv'
  <2>1. \A x \in ToSet(TIMEOUT_LIST) : state'[x] = "STOPPED"
    BY <1>2, <1>5, ListTypes, Tcbs DEF TInv
  <2> QED BY <1>2, <1>3, <2>1 DEF TInv
<1>13. PhaseInv'
  <2>1. ASSUME NEW x \in Threads
        PROVE  phase'[x] = "CTX_DIRTY" <=> \E d \in Cores : On(d)' = x
    <3>1. CASE x = t
      BY <1>5, <1>6, <3>1, Tcbs
    <3>2. CASE x = p /\ x # t
      <4>1. \A d \in Cores : On(d)' # x
        BY <1>6, <1>7, <3>2, Contexts
      <4> QED BY <1>2, <1>5, <3>2, <4>1
    <3>3. CASE x # p /\ x # t
      <4>1. \A d \in Cores : On(d)' = x <=> On(d) = x
        BY <1>6, <3>3
      <4> QED BY <1>2, <1>5, <3>3, <4>1, Tcbs DEF PhaseInv
    <3> QED BY <3>1, <3>2, <3>3
  <2> QED BY <2>1 DEF PhaseInv
<1>14. OneContext'
  <2>1. \A d \in Cores : OnCore(d)' \subseteq OnCore(d)
    BY <1>6
  <2> QED BY <1>2, <2>1 DEF OneContext
<1>15. CoreInv'
  <2>1. ASSUME NEW d \in Cores, d # c
        PROVE  /\ pc'[d] = pc[d] /\ prev'[d] = prev[d]
               /\ state'[current_thread[d]] = state[current_thread[d]]
               /\ pc[d] = "gain" => state'[prev[d]] = state[prev[d]]
    <3>1. /\ current_thread[d] # t /\ current_thread[d] # p
          /\ pc[d] = "gain" => prev[d] # t /\ prev[d] # p
      BY <1>7, <2>1, Contexts
    <3>2. pc'[d] = pc[d] /\ prev'[d] = prev[d]
      BY <1>2, <1>3, <2>1 DEF TypeOK
    <3> QED BY <1>2, <1>5, <3>1, <3>2, ListTypes
  <2>2. pc'[c] = "run" /\ state'[current_thread[c]] = "RUNNING"
    BY <1>1, <1>2, <1>3, <1>5 DEF TypeOK
  <2>3. ASSUME NEW d \in Cores
        PROVE  /\ state'[d] \in {"READY", "RUNNING"}
               /\ current_thread[d] # d => state'[d] = "READY"
    <3>1. d \in TCB /\ state[d] \in {"READY", "RUNNING"}
          /\ (current_thread[d] # d => state[d] = "READY")
      BY <1>2, Tcbs DEF CoreInv
    <3>2. CASE d = t
      BY <1>1, <1>5, <1>7, <3>1, <3>2
    <3>3. CASE d # t
      BY <1>5, <1>8, <3>1, <3>3
    <3> QED BY <3>2, <3>3
  <2>4. ASSUME NEW d \in Cores
        PROVE  /\ pc'[d] = "run" => state'[current_thread[d]] = "RUNNING"
               /\ pc'[d] = "sleep" =>
                    /\ current_thread[d] \in Threads
                    /\ state'[current_thread[d]] \in {"READY", "STOPPED", "EXITED"}
               /\ pc'[d] = "gain" =>
                    /\ state'[current_thread[d]] = "READY"
                    /\ state'[prev'[d]] \in {"READY", "STOPPED", "EXITED"}
    <3>1. CASE d = c
      BY <2>2, <3>1
    <3>2. CASE d # c
      BY <1>2, <2>1, <3>2 DEF CoreInv
    <3> QED BY <3>1, <3>2
  <2>5. current_thread' = current_thread
    BY <1>3
  <2> QED BY <2>3, <2>4, <2>5 DEF CoreInv
<1>16. FreeInv'
  <2> DEFINE A == {x \in Threads : state[x] # "FREE"}
             B == {x \in Threads : state'[x] # "FREE"}
  <2>1. ASSUME NEW x \in Threads, state'[x] = "FREE", NEW d \in Cores
        PROVE  x \notin OnCore(d)'
    <3>1. x # t /\ (x = p \/ state[x] = "FREE")
      BY <1>5, <2>1, Tcbs
    <3>2. state[x] = "FREE" => x \notin OnCore(d)
      BY <1>2 DEF FreeInv
    <3> QED BY <1>6, <1>7, <3>1, <3>2
  <2>2. active_threads = Cardinality(A) /\ IsFiniteSet(A)
    BY <1>2, SchedAssumption, FS_Subset DEF FreeInv
  <2>3. active_threads' = Cardinality(B) /\ active_threads' \in Nat
    <3>1. CASE Releases(c)
      <4>1. p \in A /\ B = A \ {p}
        <5>1. p \in Threads /\ p # t /\ state[p] = "EXITED"
          BY <1>2, <1>4, <1>8, <3>1, Tcbs
        <5> QED BY <1>2, <1>5, <5>1, Tcbs
      <4> HIDE DEF A, B
      <4>2. Cardinality(A \ {p}) = Cardinality(A) - 1 /\ IsFiniteSet(A \ {p})
        BY <2>2, <4>1, FS_RemoveElement
      <4>3. Cardinality(B) = Cardinality(A) - 1 /\ Cardinality(B) \in Nat
        BY <4>1, <4>2, FS_CardinalityType
      <4> QED BY <1>3, <2>2, <3>1, <4>3
    <3>2. CASE ~ Releases(c)
      <4>1. A = B
        BY <1>2, <1>4, <1>5, <3>2, Tcbs
      <4> QED BY <1>2, <1>3, <2>2, <3>2, <4>1 DEF TypeOK
    <3> QED BY <3>1, <3>2
  <2> QED BY <2>1, <2>3 DEF FreeInv
<1>17. TypeOK'
  <2>1. /\ state' \in [TCB -> ThreadState] /\ phase' \in [TCB -> {"CTX_CLEAN", "CTX_DIRTY"}]
    BY <1>2, <1>3 DEF TypeOK, ThreadState
  <2>2. /\ prev' \in [Cores -> TCB] /\ timeslices' \in Nat
        /\ pc' \in [Cores -> {"run", "sleep", "gain", "left"}]
    BY <1>2, <1>3 DEF TypeOK
  <2>3. SCHED' \in [Levels -> Seq(Threads)]
    BY <1>2, <1>9 DEF TypeOK, Good
  <2>4. idle' \in [Cores -> {"yield", "test", "halting", "halted"}]
    BY <1>2, <1>3, RestartType DEF TypeOK
  <2>5. active_threads' \in Nat
    <3>1. active_threads' = Cardinality({x \in Threads : state'[x] # "FREE"})
      BY <1>16 DEF FreeInv
    <3>2. IsFiniteSet({x \in Threads : state'[x] # "FREE"})
      BY SchedAssumption, FS_Subset
    <3> QED BY <3>1, <3>2, FS_CardinalityType
  <2> QED BY <1>2, <1>3, <2>1, <2>2, <2>3, <2>4, <2>5 DEF TypeOK
<1> QED BY <1>10, <1>11, <1>12, <1>13, <1>14, <1>15, <1>16, <1>17 DEF IInv

\* The threads that yield on core c wakes, its list operations, and the thread
\* it switches to.
YieldsTo(c, D, next) ==
  LET t == current_thread[c]
      ready == All(SCHED) \cup {x \in D : phase[x] = "CTX_CLEAN"}
  IN  /\ D \subseteq ToSet(TIMEOUT_LIST)
      /\ state' = [x \in TCB |-> IF x \in D \/ (x = t /\ state[t] = "RUNNING")
                                 THEN "READY" ELSE state[x]]
      /\ wakeup_time' = [x \in Threads |-> IF x \in D THEN NO_TIMEOUT ELSE wakeup_time[x]]
      /\ TIMEOUT_LIST' \in Seq(Threads) /\ Sorted(TIMEOUT_LIST', wakeup_time')
      /\ ToSet(TIMEOUT_LIST') = ToSet(TIMEOUT_LIST) \ D
      /\ priority' \in [Threads -> Levels] /\ Good(SCHED', priority')
      /\ All(SCHED') = ready \ {next}
      /\ \/ next \in ready
         \/ next = t /\ state[t] \in {"RUNNING", "READY"}
         \/ next = c /\ state[t] \notin {"RUNNING", "READY"}
      /\ current_thread' = [current_thread EXCEPT ![c] = next]

\* NewPriority is a level.
LEMMA NewPriorityType ==
  ASSUME TypeOK, NEW t \in Threads, NEW cause
  PROVE  NewPriority(t, cause) \in Levels
<1>1. PICK p \in Levels : p = IF Restores(t, cause) THEN prev_priority[t] ELSE priority[t]
  BY DEF TypeOK
<1>2. p \in Int /\ (p < MFQ_QUEUES - 1 => p + 1 \in Levels) /\ (p > 0 => p - 1 \in Levels)
  BY SchedAssumption DEF Levels
<1>3. NewPriority(t, cause) =
        CASE cause \in {"SCHED_MUTEX", "SCHED_QUANTUM"} ->
               IF p < MFQ_QUEUES - 1 THEN p + 1 ELSE p
          [] cause \in {"SCHED_USER", "SCHED_PIPE", "SCHED_IO"} ->
               IF p > 0 THEN p - 1 ELSE p
          [] OTHER -> p
  BY <1>1 DEF NewPriority
<1>4. NewPriority(t, cause) \in
        {p} \cup (IF p < MFQ_QUEUES - 1 THEN {p + 1} ELSE {})
            \cup (IF p > 0 THEN {p - 1} ELSE {})
  BY <1>3
<1> QED BY <1>2, <1>4

\* What yield leaves in the queues and in the states of the threads.
LEMMA YieldQueues ==
  ASSUME IInv, NEW c \in Cores, NEW cause \in SchedCause, yield(c, cause)
  PROVE  /\ \E D, next : YieldsTo(c, D, next)
         /\ current_thread[c] \in Threads =>
              priority'[current_thread[c]] = NewPriority(current_thread[c], cause)
<1>1. PICK t, pri0 : /\ t = current_thread[c]
                     /\ pri0 = [u \in Threads |->
                          IF u = t THEN NewPriority(t, cause) ELSE priority[u]]
  OBVIOUS
<1>2. PICK q1, pri1 : /\ q1 = IF BoostDue THEN Boosted(SCHED) ELSE SCHED
                      /\ pri1 = IF BoostDue THEN BoostedPriority(SCHED, pri0) ELSE pri0
  OBVIOUS
<1>3. PICK due : due = SubSeq(TIMEOUT_LIST, 1, Due)
  OBVIOUS
<1>4. PICK q2 : q2 = AddAll(q1, pri1, due)
  OBVIOUS
<1>5. PICK next : next = IF NonEmpty(q2) # {} THEN Head(q2[FirstLevel(q2)])
                         ELSE IF state[t] \in {"RUNNING", "READY"} THEN t ELSE c
  OBVIOUS
<1>6. /\ priority' = pri1
      /\ state' = [u \in TCB |-> IF u \in ToSet(due) \/ (u = t /\ state[t] = "RUNNING")
                                 THEN "READY" ELSE state[u]]
      /\ wakeup_time' = [u \in Threads |->
            IF u \in ToSet(due) THEN NO_TIMEOUT ELSE wakeup_time[u]]
      /\ TIMEOUT_LIST' = SubSeq(TIMEOUT_LIST, Due + 1, Len(TIMEOUT_LIST))
      /\ SCHED' = IF NonEmpty(q2) = {} THEN q2
                  ELSE [q2 EXCEPT ![FirstLevel(q2)] = Tail(@)]
      /\ current_thread' = [current_thread EXCEPT ![c] = next]
  BY <1>1, <1>2, <1>3, <1>4, <1>5 DEF yield
<1>7. /\ TypeOK /\ QInv /\ TInv
      /\ Good(SCHED, priority) /\ t \notin All(SCHED)
      /\ All(SCHED) \subseteq Threads /\ ToSet(TIMEOUT_LIST) \subseteq Threads
      /\ TIMEOUT_LIST \in Seq(Threads) /\ priority \in [Threads -> Levels]
      /\ Sorted(TIMEOUT_LIST, wakeup_time)
      /\ \A x \in All(SCHED) : state[x] = "READY"
      /\ \A x \in ToSet(TIMEOUT_LIST) : state[x] = "STOPPED"
  BY <1>1, Contexts, ListTypes DEF IInv, QInv, TInv, TypeOK
<1>8. /\ pri0 \in [Threads -> Levels] /\ Good(SCHED, pri0)
  <2>1. pri0 \in [Threads -> Levels]
    <3>1. \A u \in Threads : u = t => NewPriority(t, cause) \in Levels
      BY <1>7, NewPriorityType
    <3> QED BY <1>1, <1>7, <3>1
  <2>2. \A u \in All(SCHED) : priority[u] = pri0[u]
    BY <1>1, <1>7
  <2> QED BY <1>7, <2>1, <2>2, GoodPriorities
<1>9. /\ pri1 \in [Threads -> Levels] /\ Good(q1, pri1) /\ All(q1) = All(SCHED)
      /\ \A x \in Threads \ All(SCHED) : pri1[x] = pri0[x]
  <2>1. CASE BoostDue
    BY <1>2, <1>8, <2>1, BoostGood
  <2>2. CASE ~ BoostDue
    BY <1>2, <1>8, <2>2
  <2> QED BY <2>1, <2>2
<1>10. /\ due \in Seq(Threads) /\ IsInjective(due) /\ ToSet(due) \subseteq ToSet(TIMEOUT_LIST)
       /\ TIMEOUT_LIST' \in Seq(Threads)
       /\ ToSet(TIMEOUT_LIST') = ToSet(TIMEOUT_LIST) \ ToSet(due)
       /\ Sorted(TIMEOUT_LIST', wakeup_time)
  <2>1. PICK k : k = Due
    OBVIOUS
  <2>2. k \in 0 .. Len(TIMEOUT_LIST)
    BY <1>7, <2>1, DuePrefix DEF Due, DueBy
  <2>3. IsInjective(TIMEOUT_LIST)
    BY <1>7, SortedInjective
  <2>4. /\ SubSeq(TIMEOUT_LIST, 1, k) \in Seq(Threads)
        /\ SubSeq(TIMEOUT_LIST, k + 1, Len(TIMEOUT_LIST)) \in Seq(Threads)
    BY <1>7, <2>2, Parts
  <2>5. /\ IsInjective(SubSeq(TIMEOUT_LIST, 1, k))
        /\ ToSet(SubSeq(TIMEOUT_LIST, 1, k)) = {TIMEOUT_LIST[i] : i \in 1 .. k}
        /\ ToSet(SubSeq(TIMEOUT_LIST, k + 1, Len(TIMEOUT_LIST)))
             = ToSet(TIMEOUT_LIST) \ ToSet(SubSeq(TIMEOUT_LIST, 1, k))
    BY <1>7, <2>2, <2>3, PartsElements
  <2>6. Sorted(SubSeq(TIMEOUT_LIST, k + 1, Len(TIMEOUT_LIST)), wakeup_time)
    BY <1>7, <2>2, SortedRest
  <2>7. {TIMEOUT_LIST[i] : i \in 1 .. k} \subseteq ToSet(TIMEOUT_LIST)
    <3>1. 1 .. k \subseteq DOMAIN TIMEOUT_LIST
      BY <1>7, <2>2
    <3> QED BY <3>1 DEF ToSet
  <2> QED BY <1>3, <1>6, <2>1, <2>4, <2>5, <2>6, <2>7
<1>11. Sorted(TIMEOUT_LIST', wakeup_time')
  <2>1. \A x \in ToSet(TIMEOUT_LIST') : wakeup_time[x] = wakeup_time'[x]
    BY <1>6, <1>7, <1>10
  <2> QED BY <1>10, <2>1, SortedTimes
<1>12. /\ Good(q2, pri1)
       /\ All(q2) = All(SCHED) \cup {x \in ToSet(due) : phase[x] = "CTX_CLEAN"}
  <2>1. ToSet(due) \cap All(q1) = {}
    BY <1>7, <1>9, <1>10
  <2> QED BY <1>4, <1>9, <1>10, <2>1, AddGood
<1>13. /\ Good(SCHED', pri1) /\ All(SCHED') = All(q2) \ {next}
       /\ \/ next \in All(q2)
          \/ next = t /\ state[t] \in {"RUNNING", "READY"}
          \/ next = c /\ state[t] \notin {"RUNNING", "READY"}
  <2>1. CASE NonEmpty(q2) # {}
    <3>1. /\ Head(q2[FirstLevel(q2)]) \in All(q2)
          /\ Good([q2 EXCEPT ![FirstLevel(q2)] = Tail(@)], pri1)
          /\ All([q2 EXCEPT ![FirstLevel(q2)] = Tail(@)]) = All(q2) \ {Head(q2[FirstLevel(q2)])}
      BY <1>12, <2>1, PopGood
    <3> QED BY <1>5, <1>6, <2>1, <3>1
  <2>2. CASE NonEmpty(q2) = {}
    <3>1. \A i \in Levels : ToSet(q2[i]) = {}
      BY <2>2, EmptyElements DEF NonEmpty
    <3>2. All(q2) = {}
      BY <3>1 DEF All
    <3> QED BY <1>5, <1>6, <1>12, <2>2, <3>2
  <2> QED BY <2>1, <2>2
<1>14. YieldsTo(c, ToSet(due), next)
  BY <1>1, <1>6, <1>9, <1>10, <1>11, <1>12, <1>13 DEF YieldsTo
<1>15. t \in Threads => priority'[t] = NewPriority(t, cause)
  BY <1>1, <1>6, <1>7, <1>9
<1> QED BY <1>1, <1>14, <1>15

\* yield leaves its thread for gain to deal with, and gives the core a thread
\* that was queued, or none other than its own.
LEMMA YieldInv ==
  ASSUME IInv, NEW c \in Cores, NEW cause \in SchedCause, yield(c, cause)
  PROVE  IInv'
<1>1. PICK t, D, next : t = current_thread[c] /\ YieldsTo(c, D, next)
  BY YieldQueues
<1> DEFINE clean == {x \in D : phase[x] = "CTX_CLEAN"}
           ready == All(SCHED) \cup clean
<1>2. /\ TypeOK /\ QInv /\ RInv /\ TInv /\ PhaseInv /\ OneContext /\ CoreInv /\ FreeInv
      /\ t \in TCB /\ pc[c] \in {"run", "sleep"}
      /\ state[c] \in {"READY", "RUNNING"} /\ (t # c => state[c] = "READY")
      /\ state[t] \in {"RUNNING", "READY", "STOPPED", "EXITED"}
      /\ (t \in Cores => state[t] = "RUNNING")
  <2>1. IInv /\ pc[c] \in {"run", "sleep"} /\ t \in TCB
    BY <1>1, ListTypes DEF IInv, yield, MayYield, Executes
  <2>2. CoreInv
    BY DEF IInv
  <2> QED BY <1>1, <2>1, <2>2, SchedAssumption DEF IInv, CoreInv
<1>3. /\ D \subseteq ToSet(TIMEOUT_LIST) /\ D \subseteq Threads
      /\ \A x \in TCB : state'[x] = IF x \in D \/ (x = t /\ state[t] = "RUNNING")
                                    THEN "READY" ELSE state[x]
      /\ state' \in [TCB -> ThreadState]
      /\ wakeup_time' = [x \in Threads |-> IF x \in D THEN NO_TIMEOUT ELSE wakeup_time[x]]
      /\ TIMEOUT_LIST' \in Seq(Threads) /\ Sorted(TIMEOUT_LIST', wakeup_time')
      /\ ToSet(TIMEOUT_LIST') = ToSet(TIMEOUT_LIST) \ D
      /\ priority' \in [Threads -> Levels] /\ Good(SCHED', priority')
      /\ All(SCHED') = ready \ {next}
      /\ \A x \in D : state[x] = "STOPPED"
  BY <1>1, <1>2, ListTypes DEF YieldsTo, TInv, TypeOK, ThreadState
<1>4. /\ \/ next \in ready
         \/ next = t /\ state[t] \in {"RUNNING", "READY"}
         \/ next = c /\ state[t] \notin {"RUNNING", "READY"}
      /\ current_thread' = [current_thread EXCEPT ![c] = next]
  BY <1>1 DEF YieldsTo
<1>5. /\ phase' = phase /\ active_threads' = active_threads /\ clock' = clock
      /\ prev' = [prev EXCEPT ![c] = t] /\ pc' = [pc EXCEPT ![c] = "gain"]
      /\ timeslices' \in {0, timeslices}
  BY <1>1 DEF yield
<1>6. ASSUME NEW x \in ready
      PROVE  /\ x \in Threads /\ x \in TCB /\ x # t /\ state'[x] = "READY"
             /\ phase[x] = "CTX_CLEAN" /\ \A d \in Cores : x \notin OnCore(d)
  <2>1. x \in Threads /\ x \in TCB /\ phase[x] = "CTX_CLEAN" /\ state[x] \in {"READY", "STOPPED"}
    BY <1>2, <1>3, <1>6, ListTypes, Tcbs DEF QInv
  <2>2. state'[x] = "READY"
    BY <1>2, <1>3, <1>6, <2>1 DEF QInv
  <2>3. \A d \in Cores : x \notin OnCore(d)
    <3>1. CASE x \in All(SCHED)
      BY <1>2, <3>1 DEF QInv
    <3>2. CASE x \in D
      <4>1. state[x] = "STOPPED"
        BY <1>3, <3>2
      <4>2. ASSUME NEW d \in Cores, x \in OnCore(d)
            PROVE  FALSE
        <5>1. On(d) # x
          BY <1>2, <2>1 DEF PhaseInv
        <5>2. pc[d] = "gain" /\ current_thread[d] = x
          BY <4>2, <5>1, Contexts
        <5> QED BY <1>2, <4>1, <5>2 DEF CoreInv
      <4> QED BY <4>2
    <3> QED BY <1>6, <3>1, <3>2
  <2>4. x # t
    BY <1>1, <2>3, Contexts
  <2> QED BY <2>1, <2>2, <2>3, <2>4
<1> HIDE DEF ready
<1>7. /\ state'[t] \in {"READY", "STOPPED", "EXITED"}
      /\ state[t] \in {"RUNNING", "READY"} => state'[t] = "READY"
      /\ \A x \in TCB : x # t => \/ state'[x] = state[x]
                                 \/ x \in D /\ state[x] = "STOPPED" /\ state'[x] = "READY"
      /\ \A x \in Cores : x # t => state'[x] = state[x]
      /\ \A x \in Cores : x = t => state'[x] = "READY"
  <2>1. \A x \in Cores : x \in TCB /\ x \notin D
    BY <1>3, Tcbs
  <2> QED BY <1>2, <1>3, <2>1
<1>8. /\ next \in TCB /\ state'[next] = "READY" /\ (next \in Cores => next = c)
      /\ \A d \in Cores : d # c => next \notin OnCore(d)
  <2>1. CASE next \in ready
    BY <1>6, <2>1, Tcbs
  <2>2. CASE next = t /\ state[t] \in {"RUNNING", "READY"}
    <3>1. t \in OnCore(c)
      BY <1>1, Contexts
    <3> QED BY <1>2, <1>7, <2>2, <3>1 DEF OneContext
  <2>3. CASE next = c /\ state[t] \notin {"RUNNING", "READY"}
    <3>1. t # c
      BY <1>2, <2>3
    <3>2. \A d \in Cores : d # c => c \notin OnCore(d)
      BY <1>2 DEF OneContext
    <3> QED BY <1>2, <1>7, <2>3, <3>1, <3>2, Tcbs
  <2> QED BY <1>4, <2>1, <2>2, <2>3
<1>9. /\ OnCore(c) = {t} /\ On(c) = t /\ OnCore(c)' = {next, t} /\ On(c)' = t
      /\ \A d \in Cores : d # c => OnCore(d)' = OnCore(d) /\ On(d)' = On(d)
      /\ \A d \in Cores : d # c => /\ pc'[d] = pc[d] /\ prev'[d] = prev[d]
                                   /\ current_thread'[d] = current_thread[d]
      /\ pc'[c] = "gain" /\ prev'[c] = t /\ current_thread'[c] = next
  <2>1. pc'[c] = "gain" /\ prev'[c] = t /\ current_thread'[c] = next
    BY <1>2, <1>4, <1>5 DEF TypeOK
  <2>2. ASSUME NEW d \in Cores, d # c
        PROVE  /\ pc'[d] = pc[d] /\ prev'[d] = prev[d]
               /\ current_thread'[d] = current_thread[d]
    BY <1>2, <1>4, <1>5, <2>2 DEF TypeOK
  <2>3. OnCore(c) = {t} /\ On(c) = t
    BY <1>1, <1>2, Contexts
  <2>4. OnCore(c)' = {next, t} /\ On(c)' = t
    BY <2>1 DEF OnCore, On
  <2>5. \A d \in Cores : d # c => OnCore(d)' = OnCore(d) /\ On(d)' = On(d)
    BY <2>2 DEF OnCore, On
  <2> QED BY <2>1, <2>2, <2>3, <2>4, <2>5
<1>10. /\ t \in Cores => t = c
       /\ \A d \in Cores : d # c => t \notin OnCore(d)
       /\ \A d \in Cores : On(d)' = On(d) /\ OnCore(d) \subseteq OnCore(d)'
  BY <1>2, <1>9 DEF OneContext
<1>11. QInv'
  <2>1. ASSUME NEW x \in All(SCHED')
        PROVE  /\ state'[x] = "READY" /\ phase'[x] = "CTX_CLEAN"
               /\ \A d \in Cores : x \notin OnCore(d)'
    <3>1. x \in ready /\ x # next
      BY <1>3, <2>1
    <3> QED BY <1>5, <1>6, <1>9, <3>1
  <2> QED BY <1>3, <2>1 DEF QInv
<1>12. RInv'
  <2>1. ASSUME NEW x \in Threads, state'[x] = "READY"
        PROVE  x \in All(SCHED') \/ \E d \in Cores : x \in OnCore(d)'
    <3>1. CASE x \in ready
      BY <1>3, <1>9, <3>1
    <3>2. CASE x \notin ready /\ x \in D
      <4>1. phase[x] = "CTX_DIRTY"
        BY <1>2, <3>2 DEF ready, TypeOK, TCB
      <4>2. PICK d \in Cores : On(d) = x
        BY <1>2, <4>1 DEF PhaseInv
      <4> QED BY <1>10, <4>2, Contexts
    <3>3. CASE x = t
      BY <1>9, <3>3
    <3>4. CASE x \notin ready /\ x \notin D /\ x # t
      <4>1. state[x] = "READY" /\ x \notin All(SCHED)
        BY <1>3, <2>1, <3>4, Tcbs DEF ready
      <4>2. PICK d \in Cores : x \in OnCore(d)
        BY <1>2, <4>1 DEF RInv
      <4> QED BY <1>10, <4>2
    <3> QED BY <3>1, <3>2, <3>3, <3>4
  <2> QED BY <2>1 DEF RInv
<1>13. TInv'
  <2>1. ASSUME NEW x \in Threads
        PROVE  wakeup_time'[x] # NO_TIMEOUT <=> x \in ToSet(TIMEOUT_LIST')
    BY <1>2, <1>3 DEF TInv
  <2>2. ASSUME NEW x \in ToSet(TIMEOUT_LIST')
        PROVE  state'[x] = "STOPPED"
    <3>1. x \in TCB /\ x \notin D /\ state[x] = "STOPPED"
      BY <1>2, <1>3, <2>2, ListTypes, Tcbs DEF TInv
    <3> QED BY <1>3, <3>1
  <2> QED BY <1>3, <2>1, <2>2 DEF TInv
<1>14. PhaseInv'
  BY <1>2, <1>5, <1>10 DEF PhaseInv
<1>15. OneContext'
  <2>1. ASSUME NEW d \in Cores, NEW e \in Cores, d # e
        PROVE  OnCore(d)' \cap OnCore(e)' = {}
    <3>1. OnCore(d) \cap OnCore(e) = {}
      BY <1>2, <2>1 DEF OneContext
    <3>2. CASE d # c /\ e # c
      BY <1>9, <3>1, <3>2
    <3>3. CASE d = c \/ e = c
      BY <1>8, <1>9, <1>10, <2>1, <3>3
    <3> QED BY <3>2, <3>3
  <2>2. ASSUME NEW d \in Cores
        PROVE  OnCore(d)' \cap Cores \subseteq {d}
    BY <1>2, <1>8, <1>9, <1>10 DEF OneContext
  <2> QED BY <2>1, <2>2 DEF OneContext
<1>16. CoreInv'
  <2>1. ASSUME NEW d \in Cores
        PROVE  /\ pc'[d] = "run" => state'[current_thread'[d]] = "RUNNING"
               /\ pc'[d] = "sleep" =>
                    /\ current_thread'[d] \in Threads
                    /\ state'[current_thread'[d]] \in {"READY", "STOPPED", "EXITED"}
               /\ pc'[d] = "gain" =>
                    /\ state'[current_thread'[d]] = "READY"
                    /\ state'[prev'[d]] \in {"READY", "STOPPED", "EXITED"}
    <3>1. CASE d = c
      BY <1>7, <1>8, <1>9, <3>1
    <3>2. CASE d # c
      <4>1. /\ current_thread[d] \in TCB /\ current_thread[d] # t
            /\ prev[d] \in TCB /\ (pc[d] = "gain" => prev[d] # t)
        BY <1>2, <1>10, <3>2, Contexts, ListTypes
      <4>2. /\ pc[d] = "run" => state'[current_thread[d]] = "RUNNING"
            /\ pc[d] = "sleep" =>
                 /\ current_thread[d] \in Threads
                 /\ state'[current_thread[d]] \in {"READY", "STOPPED", "EXITED"}
            /\ pc[d] = "gain" => state'[current_thread[d]] = "READY"
        BY <1>2, <1>7, <4>1 DEF CoreInv
      <4>3. pc[d] = "gain" => state'[prev[d]] \in {"READY", "STOPPED", "EXITED"}
        BY <1>2, <1>7, <4>1 DEF CoreInv
      <4> QED BY <1>9, <3>2, <4>2, <4>3
    <3> QED BY <3>1, <3>2
  <2>2. ASSUME NEW d \in Cores
        PROVE  /\ state'[d] \in {"READY", "RUNNING"}
               /\ current_thread'[d] # d => state'[d] = "READY"
    <3>1. CASE d = t
      BY <1>7, <3>1
    <3>2. CASE d # t
      <4>1. state'[d] = state[d] /\ state[d] \in {"READY", "RUNNING"}
        BY <1>2, <1>7, <3>2 DEF CoreInv
      <4>2. current_thread'[d] # d => state[d] = "READY"
        BY <1>2, <1>9, <3>2 DEF CoreInv
      <4> QED BY <4>1, <4>2
    <3> QED BY <3>1, <3>2
  <2> QED BY <2>1, <2>2 DEF CoreInv
<1>17. FreeInv'
  <2>1. \A x \in Threads : state'[x] = "FREE" <=> state[x] = "FREE"
    BY <1>2, <1>3, Tcbs
  <2>2. {x \in Threads : state'[x] # "FREE"} = {x \in Threads : state[x] # "FREE"}
    BY <2>1
  <2>3. ASSUME NEW x \in Threads, state'[x] = "FREE", NEW d \in Cores
        PROVE  x \notin OnCore(d)'
    <3>1. x # next /\ x # t
      BY <1>7, <1>8, <2>3
    <3>2. x \notin OnCore(d)
      BY <1>2, <2>1, <2>3 DEF FreeInv
    <3> QED BY <1>9, <3>1, <3>2
  <2> QED BY <1>2, <1>5, <2>2, <2>3 DEF FreeInv
<1>18. TypeOK'
  <2>1. wakeup_time' \in [Threads -> 0 .. MaxClock \cup {NO_TIMEOUT}]
    BY <1>2, <1>3 DEF TypeOK
  <2>2. SCHED' \in [Levels -> Seq(Threads)]
    BY <1>3 DEF Good
  <2>3. mutex_contention' \in [Threads -> BOOLEAN]
    <3>1. mutex_contention' = [u \in Threads |->
            IF u = t THEN cause = "SCHED_MUTEX" ELSE mutex_contention[u]]
      BY <1>1 DEF yield
    <3>2. (cause = "SCHED_MUTEX") \in BOOLEAN
      OBVIOUS
    <3> QED BY <1>2, <3>1, <3>2, Zenon DEF TypeOK
  <2>4. prev_priority' \in [Threads -> Levels]
    <3>1. prev_priority' = [u \in Threads |->
            CASE u = t /\ Restores(t, cause) -> 0
              [] u = t /\ cause = "SCHED_MUTEX" /\ ~ mutex_contention[t] -> priority[t]
              [] OTHER -> prev_priority[u]]
      BY <1>1 DEF yield
    <3>2. Restores(t, cause) => cause # "SCHED_MUTEX"
      BY DEF Restores
    <3>3. ASSUME NEW u \in Threads
          PROVE  prev_priority'[u] \in Levels
      BY <1>2, <3>1, <3>2, LevelFacts DEF TypeOK
    <3> QED BY <3>1, <3>3
  <2>5. idle' \in [Cores -> {"yield", "test", "halting", "halted"}]
    <3>1. PICK back : back = IF t = c /\ cause = "SCHED_IDLE"
                             THEN [idle EXCEPT ![c] = "test"] ELSE idle
      OBVIOUS
    <3>2. \E up \in SUBSET {d \in Cores : back[d] = "halted"} :
            idle' = [d \in Cores |-> IF d \in up THEN "yield" ELSE back[d]]
      BY <1>1, <3>1, Zenon DEF yield
    <3>3. back \in [Cores -> {"yield", "test", "halting", "halted"}]
      BY <1>2, <3>1 DEF TypeOK
    <3> QED BY <3>2, <3>3
  <2>6. /\ prev' \in [Cores -> TCB] /\ pc' \in [Cores -> {"run", "sleep", "gain", "left"}]
        /\ current_thread' \in [Cores -> TCB] /\ timeslices' \in Nat
    BY <1>2, <1>4, <1>5, <1>8 DEF TypeOK
  <2> QED BY <1>2, <1>3, <1>5, <2>1, <2>2, <2>3, <2>4, <2>5, <2>6 DEF TypeOK
<1> QED BY <1>11, <1>12, <1>13, <1>14, <1>15, <1>16, <1>17, <1>18 DEF IInv

-----------------------------------------------------------------------------
(* The theorems.                                                           *)

\* Every critical section preserves the inductive invariant.
LEMMA NextInv ==
  ASSUME IInv, [Next]_vars
  PROVE  IInv'
<1>1. CASE Tick
  <2>1. TypeOK'
    BY <1>1, SchedAssumption DEF Tick, IInv, TypeOK, tcbVars
  <2> QED BY <1>1, <2>1, IdleInv DEF Tick
<1>2. ASSUME NEW c \in Cores, CoreStep(c)
      PROVE  IInv'
  <2>1. ASSUME NEW t \in Threads, spawn_thread(c, t)
        PROVE  IInv'
    BY <2>1, SpawnInv
  <2>2. ASSUME NEW t \in Threads, wakeup(c, t)
        PROVE  IInv'
    BY <2>2, WakeupInv
  <2>3. ASSUME NEW timeout \in Timeouts \cup {NO_TIMEOUT}, SleepStopped(c, timeout)
        PROVE  IInv'
    BY <2>3, SleepStoppedInv
  <2>4. CASE SleepExited(c)
    BY <2>4, SleepExitedInv
  <2>5. ASSUME NEW cause \in SchedCause, yield(c, cause)
        PROVE  IInv'
    BY <2>5, YieldInv
  <2>6. CASE gain(c)
    BY <2>6, GainInv
  <2>7. CASE IdleTest(c)
    <3>1. pc' \in {pc, [pc EXCEPT ![c] = "left"]} /\ pc[c] = "run"
      BY <2>7 DEF IdleTest, Executes
    <3>2. \/ idle' = [idle EXCEPT ![c] = "halting"]
          \/ idle' = [d \in Cores |-> IF idle[d] = "halted" THEN "yield" ELSE idle[d]]
      BY <2>7 DEF IdleTest
    <3>3. UNCHANGED <<tcbVars, prev, SCHED, TIMEOUT_LIST, timeslices, active_threads,
                      current_thread, clock>>
      BY <2>7 DEF IdleTest
    <3>4. TypeOK'
      BY <3>1, <3>2, <3>3 DEF IInv, TypeOK, tcbVars
    <3>5. \A d \in Cores : pc'[d] = pc[d] \/ (pc[d] = "run" /\ pc'[d] = "left")
      BY <3>1 DEF IInv, TypeOK
    <3> QED BY <3>3, <3>4, <3>5, IdleInv
  <2>8. CASE cpu_core_halt(c)
    <3>1. TypeOK'
      BY <2>8 DEF cpu_core_halt, IInv, TypeOK, tcbVars
    <3> QED BY <2>8, <3>1, IdleInv DEF cpu_core_halt
  <2>9. CASE Interrupt(c)
    <3>1. TypeOK'
      BY <2>9 DEF Interrupt, IInv, TypeOK, tcbVars
    <3> QED BY <2>9, <3>1, IdleInv DEF Interrupt
  <2> QED BY <1>2, <2>1, <2>2, <2>3, <2>4, <2>5, <2>6, <2>7, <2>8, <2>9 DEF CoreStep
<1>3. CASE UNCHANGED vars
  <2>1. TypeOK'
    BY <1>3 DEF IInv, TypeOK, vars, tcbVars
  <2> QED BY <1>3, <2>1, IdleInv DEF vars
<1> QED BY <1>1, <1>2, <1>3 DEF Next

\* The inductive invariant: the lists, the phases, the states and the contexts
\* agree after every critical section, on any number of cores.
THEOREM Invariant == Spec => []IInv
<1>1. Init => IInv
  BY InitInv
<1>2. IInv /\ [Next]_vars => IInv'
  BY NextInv
<1> QED BY <1>1, <1>2, PTL DEF Spec

\* The parts of the inductive invariant say what SchedInv says.
LEMMA InvImplies ==
  ASSUME IInv
  PROVE  SchedInv
<1>1. /\ TypeOK /\ QInv /\ RInv /\ TInv /\ PhaseInv /\ OneContext /\ CoreInv /\ FreeInv
  BY DEF IInv
<1>2. \A x \in Threads : Queued(x) <=> x \in All(SCHED)
  BY DEF Queued, All
<1>3. QueueInv
  <2>1. ASSUME NEW i \in Levels, NEW k \in DOMAIN SCHED[i]
        PROVE  LET t == SCHED[i][k]
               IN  /\ state[t] = "READY" /\ phase[t] = "CTX_CLEAN" /\ priority[t] = i
                   /\ \A j \in DOMAIN SCHED[i] : SCHED[i][j] = t => j = k
                   /\ \A c \in Cores : t \notin OnCore(c)
    <3>1. PICK t : t = SCHED[i][k]
      OBVIOUS
    <3>2. t \in ToSet(SCHED[i]) /\ SCHED[i] \in Seq(Threads)
      BY <1>1, <3>1 DEF ToSet, TypeOK
    <3>3. t \in All(SCHED)
      BY <3>2, ElementsType DEF All
    <3>4. priority[t] = i /\ IsInjective(SCHED[i])
      BY <1>1, <3>2 DEF QInv, Good
    <3>5. \A j \in DOMAIN SCHED[i] : SCHED[i][j] = t => j = k
      BY <3>1, <3>4 DEF IsInjective
    <3> QED BY <1>1, <3>1, <3>3, <3>4, <3>5 DEF QInv
  <2> QED BY <2>1 DEF QueueInv
<1>4. ReadyInv
  BY <1>1, <1>2 DEF ReadyInv, RInv
<1>5. TimeoutInv
  BY <1>1 DEF TimeoutInv, TInv, Sorted
<1>6. CodeAsserts
  <2>1. \A x \in Threads : wakeup_time[x] # NO_TIMEOUT =>
          state[x] = "STOPPED" /\ x \in ToSet(TIMEOUT_LIST) /\ ~ Queued(x)
    BY <1>1, <1>2 DEF TInv, QInv
  <2>2. \A x \in ToSet(TIMEOUT_LIST) : state[x] = "STOPPED"
    BY <1>1 DEF TInv
  <2> QED BY <1>1, <2>1, <2>2 DEF CodeAsserts, CoreInv
<1>7. ReleaseInv
  <2>1. \A x \in Threads : state[x] = "FREE" => ~ Queued(x) /\ x \notin ToSet(TIMEOUT_LIST)
    BY <1>1, <1>2 DEF TInv, QInv
  <2> QED BY <1>1, <2>1 DEF ReleaseInv, FreeInv
<1> QED BY <1>1, <1>3, <1>4, <1>5, <1>6, <1>7 DEF SchedInv

\* No thread is lost, queued twice or at the wrong level, woken before its time
\* list says, or used after it is released.
THEOREM NothingLost == Spec => []SchedInv
BY Invariant, InvImplies, PTL

\* No thread runs on two cores, not even for the moment between yield, which
\* may have requeued nothing yet, and gain.
THEOREM OneCoreEach == Spec => []OneContext
<1>1. IInv => OneContext
  BY DEF IInv
<1> QED BY <1>1, Invariant, PTL

\* What one yield does to the base priority of its thread.
LEMMA YieldPenalty ==
  ASSUME IInv, NEW c \in Cores, NEW t \in Threads, t = current_thread[c],
         NEW cause \in SchedCause, yield(c, cause)
  PROVE  LET d == BasePriority(t)' - BasePriority(t)
         IN  CASE cause = "SCHED_MUTEX" -> d = 0
               [] cause = "SCHED_QUANTUM" -> d \in {0, 1}
               [] OTHER -> d \in {-1, 0}
<1>1. PICK b : b = BasePriority(t)
  OBVIOUS
<1>2. b \in Int /\ b = IF mutex_contention[t] THEN prev_priority[t] ELSE priority[t]
  BY <1>1, LevelFacts DEF BasePriority, IInv, TypeOK
<1>3. priority'[t] = NewPriority(t, cause)
  BY YieldQueues
<1>4. /\ mutex_contention'[t] <=> cause = "SCHED_MUTEX"
      /\ prev_priority'[t] = CASE Restores(t, cause) -> 0
                               [] cause = "SCHED_MUTEX" /\ ~ mutex_contention[t] -> priority[t]
                               [] OTHER -> prev_priority[t]
  BY DEF yield
<1>5. CASE cause = "SCHED_MUTEX"
  <2>1. ~ Restores(t, cause)
    BY <1>5 DEF Restores
  <2>2. BasePriority(t)' = b
    BY <1>2, <1>4, <1>5, <2>1 DEF BasePriority
  <2> QED BY <1>1, <1>2, <1>5, <2>2
<1>6. CASE cause # "SCHED_MUTEX"
  <2>1. Restores(t, cause) <=> mutex_contention[t]
    BY <1>6 DEF Restores
  <2>2. BasePriority(t)' = NewPriority(t, cause)
    BY <1>3, <1>4, <1>6 DEF BasePriority
  <2>3. NewPriority(t, cause) =
          CASE cause = "SCHED_QUANTUM" -> IF b < MFQ_QUEUES - 1 THEN b + 1 ELSE b
            [] cause \in {"SCHED_USER", "SCHED_PIPE", "SCHED_IO"} ->
                 IF b > 0 THEN b - 1 ELSE b
            [] OTHER -> b
    BY <1>2, <1>6, <2>1 DEF NewPriority
  <2> QED BY <1>1, <1>2, <1>6, <2>2, <2>3
<1> QED BY <1>5, <1>6

\* However often a thread spins on a mutex, the penalty is undone when it yields
\* for another reason, on any number of levels.
THEOREM PenaltyUndone == Spec => MutexPenaltyUndone
<1>1. IInv => \A c \in Cores, t \in Threads : t = current_thread[c] /\ pc'[c] = "gain" =>
       \A cause \in SchedCause : yield(c, cause) =>
         LET d == BasePriority(t)' - BasePriority(t)
         IN  CASE cause = "SCHED_MUTEX" -> d = 0
               [] cause = "SCHED_QUANTUM" -> d \in {0, 1}
               [] OTHER -> d \in {-1, 0}
  BY YieldPenalty
<1> QED BY <1>1, Invariant, PTL DEF MutexPenaltyUndone

-----------------------------------------------------------------------------
(* The refinement of ThreadLife.                                           *)

LifeMap == [t \in Threads |-> LifeOf(state[t])]
OnMap == [c \in Cores |-> IF pc[c] = "gain" THEN prev[c] ELSE current_thread[c]]

\* The states of ThreadLife for those of kernel_sched.c.
LEMMA LifeFacts ==
  /\ LifeOf("FREE") = "absent" /\ LifeOf("EXITED") = "exited"
  /\ LifeOf("INIT") = "blocked" /\ LifeOf("STOPPED") = "blocked"
  /\ LifeOf("READY") = "runnable" /\ LifeOf("RUNNING") = "runnable"
BY DEF LifeOf

\* A critical section in which ThreadLife sees nothing.
LEMMA LifeStutters ==
  ASSUME \A x \in Threads : LifeOf(state'[x]) = LifeOf(state[x]),
         \A d \in Cores : On(d)' = On(d)
  PROVE  UNCHANGED Life!vars
<1>1. LifeMap' = LifeMap
  BY DEF LifeMap
<1>2. OnMap' = OnMap
  BY DEF OnMap, On
<1> QED BY <1>1, <1>2 DEF Life!vars, LifeMap, OnMap

\* spawn_thread creates a blocked thread.
LEMMA SpawnLife ==
  ASSUME IInv, NEW c \in Cores, NEW t \in Threads, spawn_thread(c, t)
  PROVE  Life!Create(t)
<1>1. /\ state \in [TCB -> ThreadState] /\ state[t] = "FREE" /\ t \in TCB
      /\ state' = [state EXCEPT ![t] = "INIT"]
      /\ UNCHANGED <<prev, current_thread, pc>>
  BY Tcbs DEF IInv, TypeOK, spawn_thread
<1>2. LifeMap[t] = "absent" /\ LifeMap' = [LifeMap EXCEPT ![t] = "blocked"]
  BY <1>1, LifeFacts, Tcbs DEF LifeMap
<1>3. OnMap' = OnMap
  BY <1>1 DEF OnMap
<1> QED BY <1>2, <1>3 DEF Life!Create, LifeMap, OnMap

\* wakeup of one thread, or the timeouts of several.
LEMMA WakeLife ==
  ASSUME NEW D \in SUBSET Threads, D # {}, \A x \in D : state[x] \in {"STOPPED", "INIT"},
         \A x \in Threads : LifeOf(state'[x]) = IF x \in D THEN "runnable"
                                                ELSE LifeOf(state[x]),
         \A d \in Cores : On(d)' = On(d)
  PROVE  Life!Wake(D)
<1>1. \A x \in D : LifeMap[x] = "blocked"
  BY LifeFacts DEF LifeMap
<1>2. LifeMap' = [x \in Threads |-> IF x \in D THEN "runnable" ELSE LifeMap[x]]
  BY DEF LifeMap
<1>3. OnMap' = OnMap
  BY DEF OnMap, On
<1> QED BY <1>1, <1>2, <1>3 DEF Life!Wake, LifeMap, OnMap

\* Both halves of sleep_releasing's mark: blocked, or exited.
LEMMA StopLife ==
  ASSUME IInv, NEW c \in Cores, Executes(c), current_thread[c] \in Threads,
         NEW st \in {"STOPPED", "EXITED"},
         state' = [state EXCEPT ![current_thread[c]] = st],
         pc' = [pc EXCEPT ![c] = "sleep"], UNCHANGED <<prev, current_thread>>
  PROVE  Life!Stop(c, LifeOf(st))
<1>1. PICK t \in Threads : t = current_thread[c]
  OBVIOUS
<1>2. /\ state \in [TCB -> ThreadState] /\ t \in TCB /\ pc[c] = "run"
      /\ state[t] = "RUNNING" /\ pc \in [Cores -> {"run", "sleep", "gain", "left"}]
  BY <1>1, Tcbs DEF IInv, CoreInv, TypeOK, Executes
<1>3. OnMap[c] = t /\ LifeMap[t] = "runnable"
  BY <1>1, <1>2, LifeFacts DEF OnMap, LifeMap
<1>4. LifeMap' = [LifeMap EXCEPT ![t] = LifeOf(st)]
  BY <1>1, <1>2, Tcbs DEF LifeMap
<1>5. OnMap' = OnMap
  BY <1>2 DEF OnMap
<1>6. /\ OnMap[c] \in Threads /\ LifeMap[OnMap[c]] = "runnable"
      /\ LifeMap' = [LifeMap EXCEPT ![OnMap[c]] = LifeOf(st)]
  BY <1>3, <1>4
<1> QED BY <1>5, <1>6 DEF Life!Stop, LifeMap, OnMap

\* gain completes the switch.
LEMMA GainLife ==
  ASSUME IInv, NEW c \in Cores, gain(c), current_thread[c] # prev[c]
  PROVE  \E u \in Threads \cup {c} : Life!Switch(c, u)
<1>1. PICK t, p : t = current_thread[c] /\ p = prev[c]
  OBVIOUS
<1>2. /\ TypeOK /\ OneContext /\ pc[c] = "gain" /\ t \in TCB /\ p \in TCB /\ t # p
      /\ state[t] = "READY" /\ state[p] \in {"READY", "STOPPED", "EXITED"}
  BY <1>1, ListTypes DEF IInv, gain, CoreInv
<1>3. /\ state' = [state EXCEPT ![t] = "RUNNING",
                                ![p] = IF p = t THEN "RUNNING"
                                       ELSE IF Releases(c) THEN "FREE" ELSE @]
      /\ pc' = [pc EXCEPT ![c] = "run"] /\ prev' = [prev EXCEPT ![c] = t]
      /\ current_thread' = current_thread
  BY <1>1 DEF gain
<1>4. \A x \in TCB : state'[x] = IF x = t THEN "RUNNING"
                                 ELSE IF x = p /\ state[p] = "EXITED" THEN "FREE"
                                 ELSE state[x]
  BY <1>1, <1>2, <1>3 DEF TypeOK, Releases, Switched
<1>5. /\ OnMap[c] = p /\ OnMap' = [OnMap EXCEPT ![c] = t]
  BY <1>1, <1>2, <1>3 DEF OnMap, TypeOK
<1>6. t \in Threads \cup {c} /\ \A d \in Cores : OnMap[d] # t
  <2>1. t \in OnCore(c)
    BY <1>1, Contexts
  <2>2. t \in Cores => t = c
    BY <1>2, <2>1 DEF OneContext
  <2>3. ASSUME NEW d \in Cores
        PROVE  OnMap[d] # t
    <3>1. CASE d = c
      BY <1>2, <1>5, <3>1
    <3>2. CASE d # c
      <4>1. t \notin OnCore(d)
        BY <1>2, <2>1, <3>2 DEF OneContext
      <4>2. OnMap[d] = On(d)
        BY DEF OnMap, On
      <4> QED BY <4>1, <4>2, Contexts
    <3> QED BY <3>1, <3>2
  <2> QED BY <1>2, <2>2, <2>3, Tcbs
<1>7. t \in Threads => LifeMap[t] = "runnable"
  BY <1>2, LifeFacts DEF LifeMap
<1>8. LifeMap' = [x \in Threads |->
                    IF x = OnMap[c] /\ LifeMap[x] = "exited" THEN "absent" ELSE LifeMap[x]]
  <2>1. ASSUME NEW x \in Threads
        PROVE  LifeOf(state'[x]) = IF x = p /\ LifeOf(state[x]) = "exited"
                                   THEN "absent" ELSE LifeOf(state[x])
    <3>1. CASE x = t
      BY <1>2, <1>4, <3>1, LifeFacts
    <3>2. CASE x = p
      BY <1>2, <1>4, <3>2, LifeFacts
    <3>3. CASE x # t /\ x # p
      BY <1>4, <3>3, Tcbs
    <3> QED BY <3>1, <3>2, <3>3
  <2> QED BY <1>5, <2>1 DEF LifeMap
<1>9. /\ t # OnMap[c] /\ \A d \in Cores : OnMap[d] # t
      /\ OnMap' = [OnMap EXCEPT ![c] = t]
  BY <1>2, <1>5, <1>6
<1>10. Life!Switch(c, t)
  BY <1>7, <1>8, <1>9 DEF Life!Switch, LifeMap, OnMap
<1> QED BY <1>6, <1>10

\* yield wakes the threads whose time has come, and switches nothing yet.
LEMMA YieldLife ==
  ASSUME IInv, NEW c \in Cores, NEW cause \in SchedCause, yield(c, cause)
  PROVE  (\E D \in SUBSET Threads : Life!Wake(D)) \/ UNCHANGED Life!vars
<1>1. PICK t, D, next : t = current_thread[c] /\ YieldsTo(c, D, next)
  BY YieldQueues
<1>2. /\ D \in SUBSET Threads
      /\ \A x \in D : state[x] \in {"STOPPED", "INIT"}
      /\ \A x \in TCB : state'[x] = IF x \in D \/ (x = t /\ state[t] = "RUNNING")
                                    THEN "READY" ELSE state[x]
  BY <1>1, ListTypes DEF IInv, TInv, YieldsTo
<1>3. \A x \in Threads : LifeOf(state'[x]) = IF x \in D THEN "runnable"
                                             ELSE LifeOf(state[x])
  BY <1>2, LifeFacts, Tcbs
<1>4. \A d \in Cores : On(d)' = On(d)
  <2>1. /\ prev' = [prev EXCEPT ![c] = t] /\ pc' = [pc EXCEPT ![c] = "gain"]
        /\ pc[c] \in {"run", "sleep"} /\ \E n : current_thread' = [current_thread EXCEPT ![c] = n]
    BY <1>1 DEF yield, MayYield, Executes
  <2>2. TypeOK
    BY DEF IInv
  <2>3. On(c)' = On(c)
    BY <1>1, <2>1, <2>2 DEF On, TypeOK
  <2>4. ASSUME NEW d \in Cores, d # c
        PROVE  On(d)' = On(d)
    BY <2>1, <2>2, <2>4 DEF On, TypeOK
  <2> QED BY <2>3, <2>4
<1>5. CASE D = {}
  BY <1>3, <1>4, <1>5, LifeStutters
<1>6. CASE D # {}
  BY <1>2, <1>3, <1>4, <1>6, WakeLife
<1> QED BY <1>5, <1>6

\* Every critical section is a step of ThreadLife or invisible to it.
LEMMA StepLife ==
  ASSUME IInv, [Next]_vars
  PROVE  [Life!Next]_(Life!vars)
<1>1. ASSUME UNCHANGED <<state, prev, current_thread>>,
             \A d \in Cores : pc'[d] = "gain" <=> pc[d] = "gain"
      PROVE  UNCHANGED Life!vars
  <2>1. \A d \in Cores : On(d)' = On(d)
    BY <1>1, SameContexts
  <2> QED BY <1>1, <2>1, LifeStutters
<1>2. CASE Tick \/ UNCHANGED vars
  BY <1>1, <1>2 DEF Tick, vars, tcbVars
<1>3. ASSUME NEW c \in Cores, CoreStep(c)
      PROVE  [Life!Next]_(Life!vars)
  <2>1. ASSUME NEW t \in Threads, spawn_thread(c, t)
        PROVE  Life!Next
    BY <2>1, SpawnLife DEF Life!Next
  <2>2. ASSUME NEW t \in Threads, wakeup(c, t)
        PROVE  Life!Next
    <3>1. /\ state \in [TCB -> ThreadState] /\ t \in TCB /\ state[t] \in {"STOPPED", "INIT"}
          /\ state' = [state EXCEPT ![t] = "READY"]
          /\ UNCHANGED <<prev, current_thread, pc>>
      BY <2>2, Tcbs DEF IInv, TypeOK, wakeup, Wakeable
    <3>2. \A x \in Threads : LifeOf(state'[x]) = IF x \in {t} THEN "runnable"
                                                 ELSE LifeOf(state[x])
      BY <3>1, LifeFacts, Tcbs
    <3>3. \A d \in Cores : On(d)' = On(d)
      BY <3>1, SameContexts
    <3>4. Life!Wake({t})
      BY <3>1, <3>2, <3>3, WakeLife
    <3> QED BY <3>4 DEF Life!Next
  <2>3. ASSUME NEW timeout \in Timeouts \cup {NO_TIMEOUT}, SleepStopped(c, timeout)
        PROVE  Life!Next
    <3>1. Life!Stop(c, LifeOf("STOPPED"))
      BY <2>3, StopLife DEF SleepStopped
    <3> QED BY <3>1, LifeFacts DEF Life!Next
  <2>4. CASE SleepExited(c)
    <3>1. Life!Stop(c, LifeOf("EXITED"))
      BY <2>4, StopLife DEF SleepExited
    <3> QED BY <3>1, LifeFacts DEF Life!Next
  <2>5. ASSUME NEW cause \in SchedCause, yield(c, cause)
        PROVE  [Life!Next]_(Life!vars)
    BY <2>5, YieldLife DEF Life!Next
  <2>6. CASE gain(c) /\ current_thread[c] # prev[c]
    BY <2>6, GainLife DEF Life!Next
  <2>7. CASE gain(c) /\ current_thread[c] = prev[c]
    <3>1. PICK t \in TCB : t = current_thread[c] /\ t = prev[c]
      BY <2>7, ListTypes DEF IInv
    <3>2. /\ TypeOK /\ pc[c] = "gain" /\ state[t] = "READY"
          /\ state' = [state EXCEPT ![t] = "RUNNING", ![t] = "RUNNING"]
          /\ pc' = [pc EXCEPT ![c] = "run"] /\ prev' = [prev EXCEPT ![c] = t]
          /\ current_thread' = current_thread
      BY <2>7, <3>1 DEF IInv, CoreInv, gain
    <3>3. \A x \in Threads : LifeOf(state'[x]) = LifeOf(state[x])
      BY <3>2, LifeFacts, Tcbs DEF TypeOK
    <3>4. \A d \in Cores : On(d)' = On(d)
      BY <3>1, <3>2 DEF On, TypeOK
    <3> QED BY <3>3, <3>4, LifeStutters
  <2>8. CASE IdleTest(c)
    <3>1. /\ UNCHANGED <<state, prev, current_thread>> /\ pc[c] = "run"
          /\ pc' \in {pc, [pc EXCEPT ![c] = "left"]}
      BY <2>8 DEF IdleTest, Executes, tcbVars
    <3>2. \A d \in Cores : pc'[d] = "gain" <=> pc[d] = "gain"
      BY <3>1 DEF IInv, TypeOK
    <3> QED BY <1>1, <3>1, <3>2
  <2>9. CASE cpu_core_halt(c) \/ Interrupt(c)
    BY <1>1, <2>9 DEF cpu_core_halt, Interrupt, tcbVars
  <2> QED BY <1>3, <2>1, <2>2, <2>3, <2>4, <2>5, <2>6, <2>7, <2>8, <2>9 DEF CoreStep
<1> QED BY <1>2, <1>3 DEF Next

\* Every critical section, on any number of cores and threads, is a step of
\* ThreadLife or one that it does not see.
THEOREM Refines == Spec => ImplementsThreadLife
<1>1. Init => Life!Init
  <2>1. ASSUME Init
        PROVE  /\ LifeMap = [t \in Threads |->
                               IF t = BootThread THEN "runnable" ELSE "absent"]
               /\ OnMap = [c \in Cores |-> c]
    BY <2>1, LifeFacts, Tcbs DEF Init, LifeMap, OnMap
  <2> QED BY <2>1 DEF Life!Init, LifeMap, OnMap
<1>2. IInv /\ [Next]_vars => [Life!Next]_(Life!vars)
  BY StepLife
<1> QED BY <1>1, <1>2, Invariant, PTL DEF Spec, ImplementsThreadLife, Life!Spec

=============================================================================
