----------------------------- MODULE ListLemmas -----------------------------
(***************************************************************************)
(* Facts about sequences without repetitions, which stand for the          *)
(* intrusive lists of util.h in several modules: what adding and removing  *)
(* an element does to the elements, and how many there are.                *)
(***************************************************************************)
EXTENDS Integers, ListOps, SequencesExt, FiniteSetTheorems, SequenceTheorems, TLAPS

\* rlist_push_back: the element is added, and nothing is repeated.
LEMMA AppendElement ==
  ASSUME NEW S, NEW s \in Seq(S), NEW e \in S
  PROVE  /\ Append(s, e) \in Seq(S)
         /\ Len(Append(s, e)) = Len(s) + 1
         /\ ToSet(Append(s, e)) = ToSet(s) \cup {e}
         /\ IsInjective(s) /\ e \notin ToSet(s) => IsInjective(Append(s, e))
<1> DEFINE p == Append(s, e)
<1>1. /\ p \in Seq(S) /\ Len(p) = Len(s) + 1
      /\ DOMAIN p = 1 .. Len(s) + 1 /\ DOMAIN s = 1 .. Len(s)
      /\ \A i \in 1 .. Len(s) : p[i] = s[i]
      /\ p[Len(s) + 1] = e /\ Len(s) \in Nat
  OBVIOUS
<1> HIDE DEF p
<1>2. ToSet(p) = ToSet(s) \cup {e}
  BY <1>1 DEF ToSet
<1>3. IsInjective(s) /\ e \notin ToSet(s) => IsInjective(p)
  BY <1>1 DEF ToSet, IsInjective
<1> QED BY <1>1, <1>2, <1>3 DEF p

\* rlist_pop_front: the first element goes, and no other.
LEMMA TailElements ==
  ASSUME NEW S, NEW s \in Seq(S), s # <<>>
  PROVE  /\ Tail(s) \in Seq(S) /\ Len(Tail(s)) = Len(s) - 1
         /\ Head(s) = s[1] /\ Head(s) \in S /\ Head(s) \in ToSet(s)
         /\ ToSet(Tail(s)) \subseteq ToSet(s)
         /\ IsInjective(s) => /\ ToSet(Tail(s)) = ToSet(s) \ {Head(s)}
                              /\ IsInjective(Tail(s))
<1> DEFINE p == Tail(s)
<1>1. /\ p \in Seq(S) /\ Len(p) = Len(s) - 1 /\ Len(s) \in Nat \ {0}
      /\ DOMAIN p = 1 .. Len(s) - 1 /\ DOMAIN s = 1 .. Len(s)
      /\ \A i \in 1 .. Len(s) - 1 : p[i] = s[i + 1]
      /\ Head(s) = s[1] /\ Head(s) \in S
  OBVIOUS
<1> HIDE DEF p
<1>2. \A i \in 2 .. Len(s) : i - 1 \in DOMAIN p /\ s[i] = p[i - 1]
  BY <1>1
<1>3. Head(s) \in ToSet(s) /\ ToSet(p) \subseteq ToSet(s)
  BY <1>1 DEF ToSet
<1>4. ASSUME IsInjective(s)
      PROVE  ToSet(p) = ToSet(s) \ {Head(s)} /\ IsInjective(p)
  <2>1. \A x \in ToSet(p) : x \in ToSet(s) /\ x # Head(s)
    BY <1>1, <1>4 DEF ToSet, IsInjective
  <2>2. \A x \in ToSet(s) : x # Head(s) => x \in ToSet(p)
    BY <1>1, <1>2 DEF ToSet
  <2>3. ASSUME NEW a \in DOMAIN p, NEW b \in DOMAIN p, p[a] = p[b]
        PROVE  a = b
    <3>1. a + 1 \in DOMAIN s /\ b + 1 \in DOMAIN s /\ s[a + 1] = s[b + 1]
      BY <1>1, <2>3
    <3>2. a + 1 = b + 1
      BY <1>4, <3>1 DEF IsInjective
    <3> QED BY <1>1, <2>3, <3>2
  <2>4. IsInjective(p)
    BY <2>3 DEF IsInjective
  <2> QED BY <2>1, <2>2, <2>4
<1> QED BY <1>1, <1>3, <1>4 DEF p

\* The second element is the first of the rest.
LEMMA SecondElement ==
  ASSUME NEW S, NEW s \in Seq(S), Len(s) >= 2
  PROVE  Tail(s) # <<>> /\ Head(Tail(s)) = s[2]
<1>1. s # <<>> /\ Len(Tail(s)) = Len(s) - 1 /\ Len(s) \in Nat
  OBVIOUS
<1>2. Tail(s) \in Seq(S) /\ Tail(s) # <<>>
  <2>1. Tail(s) \in Seq(S) /\ Len(Tail(s)) # 0
    BY <1>1, TailElements
  <2>2. Len(<<>>) = 0
    OBVIOUS
  <2> QED BY <2>1, <2>2, Zenon
<1>3. Tail(s)[1] = s[2]
  BY <1>1
<1>4. Head(Tail(s)) = Tail(s)[1]
  BY <1>2
<1> QED BY <1>2, <1>3, <1>4

\* rlist_remove: the element at a place goes, and no other.
LEMMA RemoveAtElements ==
  ASSUME NEW S, NEW s \in Seq(S), NEW i \in 1 .. Len(s), IsInjective(s)
  PROVE  /\ RemoveAt(s, i) \in Seq(S)
         /\ Len(RemoveAt(s, i)) = Len(s) - 1
         /\ ToSet(RemoveAt(s, i)) = ToSet(s) \ {s[i]}
         /\ IsInjective(RemoveAt(s, i))
         /\ \A j \in 1 .. Len(s) - 1 :
               RemoveAt(s, i)[j] = IF j < i THEN s[j] ELSE s[j + 1]
<1>1. Len(s) \in Nat /\ DOMAIN s = 1 .. Len(s)
  OBVIOUS
<1> DEFINE p == SubSeq(s, 1, i - 1)
           q == SubSeq(s, i + 1, Len(s))
           r == p \o q
<1>2. /\ p \in Seq(S) /\ Len(p) = i - 1
      /\ \A j \in 1 .. i - 1 : p[j] = s[j]
  BY <1>1, SubSeqProperties
<1>3. /\ q \in Seq(S) /\ Len(q) = Len(s) - i
      /\ \A j \in 1 .. Len(s) - i : q[j] = s[i + j]
  <2>1. \A j \in i + 1 .. Len(s) : s[j] \in S
    BY <1>1
  <2>2. /\ q \in Seq(S)
        /\ Len(q) = IF i + 1 <= Len(s) THEN Len(s) - (i + 1) + 1 ELSE 0
        /\ \A j \in 1 .. Len(s) - (i + 1) + 1 : q[j] = s[(i + 1) + j - 1]
    BY <2>1, <1>1, SubSeqProperties
  <2> HIDE DEF q
  <2>3. Len(q) = Len(s) - i /\ Len(s) - (i + 1) + 1 = Len(s) - i
    <3> DEFINE n == Len(s)
    <3>1. n \in Nat /\ i \in 1 .. n
      BY <1>1
    <3>2. Len(q) = IF i + 1 <= n THEN n - (i + 1) + 1 ELSE 0
      BY <2>2
    <3> HIDE DEF n
    <3>3. Len(q) = n - i /\ n - (i + 1) + 1 = n - i
      BY <3>1, <3>2
    <3> QED BY <3>3 DEF n
  <2>4. ASSUME NEW j \in 1 .. Len(s) - i
        PROVE  q[j] = s[i + j]
    <3>1. (i + 1) + j - 1 = i + j
      BY <1>1
    <3> QED BY <2>2, <2>3, <3>1
  <2> QED BY <2>2, <2>3, <2>4
<1> HIDE DEF p, q
<1>4. /\ r \in Seq(S) /\ Len(r) = Len(s) - 1 /\ DOMAIN r = 1 .. Len(s) - 1
      /\ \A j \in 1 .. Len(s) - 1 : r[j] = IF j < i THEN s[j] ELSE s[j + 1]
  <2>1. /\ r \in Seq(S) /\ Len(r) = Len(p) + Len(q)
        /\ \A j \in 1 .. Len(p) + Len(q) :
              r[j] = IF j <= Len(p) THEN p[j] ELSE q[j - Len(p)]
    BY <1>2, <1>3, ConcatProperties
  <2> HIDE DEF r
  <2>2. Len(r) = Len(s) - 1 /\ DOMAIN r = 1 .. Len(s) - 1
    BY <2>1, <1>1, <1>2, <1>3
  <2>3. ASSUME NEW j \in 1 .. Len(s) - 1
        PROVE  r[j] = IF j < i THEN s[j] ELSE s[j + 1]
    <3>1. r[j] = IF j <= i - 1 THEN p[j] ELSE q[j - (i - 1)]
      BY <2>1, <1>1, <1>2, <1>3
    <3>2. CASE j < i
      BY <3>1, <3>2, <1>1, <1>2
    <3>3. CASE ~ (j < i)
      <4>1. j - (i - 1) \in 1 .. Len(s) - i /\ i + (j - (i - 1)) = j + 1
        BY <3>3, <1>1
      <4> QED BY <3>1, <3>3, <4>1, <1>1, <1>3
    <3> QED BY <3>2, <3>3
  <2> QED BY <2>1, <2>2, <2>3
<1> HIDE DEF r
<1>5. ToSet(r) = ToSet(s) \ {s[i]}
  <2>1. \A x \in ToSet(r) : x \in ToSet(s) /\ x # s[i]
    BY <1>1, <1>4 DEF ToSet, IsInjective
  <2>2. ASSUME NEW j \in 1 .. Len(s), s[j] # s[i]
        PROVE  s[j] \in ToSet(r)
    <3>1. CASE j < i
      BY <3>1, <1>1, <1>4 DEF ToSet
    <3>2. CASE j > i
      <4>1. j - 1 \in DOMAIN r /\ r[j - 1] = s[j]
        BY <3>2, <1>1, <1>4
      <4> QED BY <4>1 DEF ToSet
    <3> QED BY <3>1, <3>2, <2>2, <1>1
  <2> QED BY <2>1, <2>2, <1>1 DEF ToSet
<1>6. IsInjective(r)
  <2>1. SUFFICES ASSUME NEW j \in DOMAIN r, NEW k \in DOMAIN r, r[j] = r[k]
                 PROVE  j = k
    BY DEF IsInjective
  <2> DEFINE up(n) == IF n < i THEN n ELSE n + 1
  <2>2. /\ up(j) \in DOMAIN s /\ up(k) \in DOMAIN s
        /\ r[j] = s[up(j)] /\ r[k] = s[up(k)]
    BY <1>1, <1>4
  <2>3. up(j) = up(k)
    BY <2>1, <2>2 DEF IsInjective
  <2> QED BY <2>3, <1>1, <1>4
<1>7. RemoveAt(s, i) = r
  BY DEF RemoveAt, p, q, r
<1> QED BY <1>4, <1>5, <1>6, <1>7

\* rlist_remove of an element.
LEMMA WithoutElement ==
  ASSUME NEW S, NEW s \in Seq(S), IsInjective(s), NEW u \in ToSet(s)
  PROVE  /\ Without(s, u) \in Seq(S) /\ Len(Without(s, u)) = Len(s) - 1
         /\ ToSet(Without(s, u)) = ToSet(s) \ {u} /\ IsInjective(Without(s, u))
         /\ \E i \in 1 .. Len(s) :
               \A j \in 1 .. Len(s) - 1 :
                 Without(s, u)[j] = IF j < i THEN s[j] ELSE s[j + 1]
<1>1. PICK i : i = CHOOSE j \in DOMAIN s : s[j] = u
  OBVIOUS
<1>2. i \in 1 .. Len(s) /\ s[i] = u
  BY <1>1 DEF ToSet
<1>3. Without(s, u) = RemoveAt(s, i)
  BY <1>1 DEF Without
<1>4. /\ RemoveAt(s, i) \in Seq(S) /\ Len(RemoveAt(s, i)) = Len(s) - 1
      /\ ToSet(RemoveAt(s, i)) = ToSet(s) \ {s[i]} /\ IsInjective(RemoveAt(s, i))
      /\ \A j \in 1 .. Len(s) - 1 :
            RemoveAt(s, i)[j] = IF j < i THEN s[j] ELSE s[j + 1]
  BY <1>2, RemoveAtElements
<1> QED BY <1>2, <1>3, <1>4

\* A list without repetitions has as many elements as places.
LEMMA CountElements ==
  ASSUME NEW S, NEW s \in Seq(S), IsInjective(s)
  PROVE  IsFiniteSet(ToSet(s)) /\ Cardinality(ToSet(s)) = Len(s)
<1>1. Len(s) \in Nat /\ DOMAIN s = 1 .. Len(s)
  OBVIOUS
<1>2. s \in Surjection(1 .. Len(s), ToSet(s)) /\ s \in Injection(1 .. Len(s), ToSet(s))
  BY <1>1 DEF Surjection, Injection, IsInjective, ToSet
<1>3. ExistsBijection(1 .. Len(s), ToSet(s))
  BY <1>2 DEF ExistsBijection, Bijection
<1>4. IsFiniteSet(1 .. Len(s)) /\ Cardinality(1 .. Len(s)) = Len(s)
  BY <1>1, FS_Interval
<1> QED BY <1>3, <1>4, FS_Bijection

\* The empty list.
LEMMA EmptyElements == ToSet(<<>>) = {} /\ IsInjective(<<>>) /\ \A S : <<>> \in Seq(S)
BY DEF ToSet, IsInjective

\* The elements have the type of the list.
LEMMA ElementsType ==
  ASSUME NEW S, NEW s \in Seq(S)
  PROVE  ToSet(s) \subseteq S
BY DEF ToSet

\* A list is empty when it has no elements.
LEMMA NoElements ==
  ASSUME NEW S, NEW s \in Seq(S)
  PROVE  s = <<>> <=> ToSet(s) = {}
<1>1. s # <<>> => s[1] \in ToSet(s)
  BY DEF ToSet
<1> QED BY <1>1, EmptyElements

\* rlist_append: the elements of both lists, in order.
LEMMA ConcatElements ==
  ASSUME NEW S, NEW s \in Seq(S), NEW t \in Seq(S)
  PROVE  /\ s \o t \in Seq(S) /\ Len(s \o t) = Len(s) + Len(t)
         /\ ToSet(s \o t) = ToSet(s) \cup ToSet(t)
         /\ IsInjective(s) /\ IsInjective(t) /\ ToSet(s) \cap ToSet(t) = {}
              => IsInjective(s \o t)
<1> DEFINE r == s \o t
<1>1. /\ r \in Seq(S) /\ Len(r) = Len(s) + Len(t)
      /\ \A j \in 1 .. Len(s) + Len(t) :
            r[j] = IF j <= Len(s) THEN s[j] ELSE t[j - Len(s)]
  BY ConcatProperties
<1> HIDE DEF r
<1>2. /\ Len(s) \in Nat /\ Len(t) \in Nat /\ DOMAIN s = 1 .. Len(s) /\ DOMAIN t = 1 .. Len(t)
      /\ DOMAIN r = 1 .. Len(s) + Len(t)
  BY <1>1
<1>3. /\ \A i \in DOMAIN s : i \in DOMAIN r /\ r[i] = s[i]
      /\ \A i \in DOMAIN t : Len(s) + i \in DOMAIN r /\ r[Len(s) + i] = t[i]
  <2>1. \A i \in DOMAIN s : i \in DOMAIN r /\ r[i] = s[i]
    BY <1>1, <1>2
  <2>2. ASSUME NEW i \in DOMAIN t
        PROVE  Len(s) + i \in DOMAIN r /\ r[Len(s) + i] = t[i]
    <3>1. /\ Len(s) + i \in 1 .. Len(s) + Len(t) /\ ~ (Len(s) + i <= Len(s))
          /\ Len(s) + i - Len(s) = i
      BY <1>2
    <3> QED BY <1>1, <1>2, <3>1
  <2> QED BY <2>1, <2>2
<1>4. ASSUME NEW j \in DOMAIN r
      PROVE  \/ j \in DOMAIN s /\ r[j] = s[j]
             \/ j - Len(s) \in DOMAIN t /\ r[j] = t[j - Len(s)] /\ j > Len(s)
  BY <1>1, <1>2
<1>5. ToSet(r) = ToSet(s) \cup ToSet(t)
  <2>1. ToSet(r) \subseteq ToSet(s) \cup ToSet(t)
    BY <1>4 DEF ToSet
  <2>2. ToSet(s) \subseteq ToSet(r) /\ ToSet(t) \subseteq ToSet(r)
    BY <1>3 DEF ToSet
  <2> QED BY <2>1, <2>2
<1>6. ASSUME IsInjective(s), IsInjective(t), ToSet(s) \cap ToSet(t) = {}
      PROVE  IsInjective(r)
  <2>1. \A i \in DOMAIN s, j \in DOMAIN t : s[i] # t[j]
    BY <1>6 DEF ToSet
  <2>2. ASSUME NEW a \in DOMAIN r, NEW b \in DOMAIN r, r[a] = r[b]
        PROVE  a = b
    <3>1. CASE a \in DOMAIN s /\ r[a] = s[a]
      BY <1>4, <1>6, <2>1, <2>2, <3>1 DEF IsInjective
    <3>2. CASE a - Len(s) \in DOMAIN t /\ r[a] = t[a - Len(s)] /\ a > Len(s)
      <4>1. b - Len(s) \in DOMAIN t /\ r[b] = t[b - Len(s)]
        BY <1>4, <2>1, <2>2, <3>2
      <4>2. a - Len(s) = b - Len(s)
        BY <1>6, <2>2, <3>2, <4>1 DEF IsInjective
      <4> QED BY <1>2, <4>2
    <3> QED BY <1>4, <3>1, <3>2
  <2> QED BY <2>2 DEF IsInjective
<1> QED BY <1>1, <1>5, <1>6 DEF r

\* The first c elements, and the others.
LEMMA Parts ==
  ASSUME NEW S, NEW s \in Seq(S), NEW c \in 0 .. Len(s)
  PROVE  /\ SubSeq(s, 1, c) \in Seq(S) /\ Len(SubSeq(s, 1, c)) = c
         /\ \A i \in 1 .. c : SubSeq(s, 1, c)[i] = s[i]
         /\ SubSeq(s, c + 1, Len(s)) \in Seq(S) /\ Len(SubSeq(s, c + 1, Len(s))) = Len(s) - c
         /\ \A i \in 1 .. Len(s) - c : SubSeq(s, c + 1, Len(s))[i] = s[c + i]
<1>1. PICK m \in Nat : m = Len(s)
  OBVIOUS
<1>2. \A i \in 1 .. m : s[i] \in S
  BY <1>1
<1>3. /\ SubSeq(s, 1, c) \in Seq(S)
      /\ Len(SubSeq(s, 1, c)) = IF 1 <= c THEN c - 1 + 1 ELSE 0
      /\ \A i \in 1 .. c - 1 + 1 : SubSeq(s, 1, c)[i] = s[1 + i - 1]
  <2>1. \A i \in 1 .. c : s[i] \in S
    BY <1>1, <1>2
  <2> QED BY <2>1, <1>1, SubSeqProperties
<1>4. /\ SubSeq(s, c + 1, m) \in Seq(S)
      /\ Len(SubSeq(s, c + 1, m)) = IF c + 1 <= m THEN m - (c + 1) + 1 ELSE 0
      /\ \A i \in 1 .. m - (c + 1) + 1 : SubSeq(s, c + 1, m)[i] = s[(c + 1) + i - 1]
  <2>1. \A i \in c + 1 .. m : s[i] \in S
    BY <1>1, <1>2
  <2> QED BY <2>1, <1>1, SubSeqProperties
<1>5. c \in 0 .. m /\ c - 1 + 1 = c /\ m - (c + 1) + 1 = m - c
  BY <1>1
<1>6. Len(SubSeq(s, 1, c)) = c /\ Len(SubSeq(s, c + 1, m)) = m - c
  BY <1>1, <1>3, <1>4, <1>5
<1>7. ASSUME NEW i \in 1 .. c
      PROVE  SubSeq(s, 1, c)[i] = s[i]
  <2>1. 1 + i - 1 = i
    OBVIOUS
  <2> QED BY <1>3, <1>5, <2>1
<1>8. ASSUME NEW i \in 1 .. m - c
      PROVE  SubSeq(s, c + 1, m)[i] = s[c + i]
  <2>1. (c + 1) + i - 1 = c + i
    BY <1>1
  <2> QED BY <1>4, <1>5, <2>1
<1> QED BY <1>1, <1>3, <1>4, <1>6, <1>7, <1>8

\* A set of natural numbers has a least element.
LEMMA LeastNat ==
  ASSUME NEW S \in SUBSET Nat, S # {}
  PROVE  \E i \in S : \A j \in S : i <= j
<1> DEFINE R == OpToRel(<, Nat)
<1>1. IsWellFoundedOn(R, Nat)
  BY NatLessThanWellFounded
<1>2. \A i, j \in Nat : j < i => <<j, i>> \in R
  BY DEF OpToRel
<1> HIDE DEF R
<1>3. \E i \in S : \A j \in S : ~ (<<j, i>> \in R)
  BY <1>1, WFMin
<1>4. PICK i \in S : \A j \in S : ~ (<<j, i>> \in R)
  BY <1>3
<1>5. ASSUME NEW j \in S
      PROVE  i <= j
  <2>1. i \in Nat /\ j \in Nat /\ ~ (j < i)
    BY <1>2, <1>4
  <2> QED BY <2>1
<1> QED BY <1>5

\* The places of a set that holds with each place all that come before it.
LEMMA Prefix ==
  ASSUME NEW n \in Nat, NEW D \in SUBSET (1 .. n), \A i \in D : \A j \in 1 .. i : j \in D
  PROVE  Cardinality(D) \in 0 .. n /\ D = 1 .. Cardinality(D)
<1> DEFINE Out == {i \in Nat \ {0} : i \notin D}
<1>1. n + 1 \in Out
  OBVIOUS
<1>2. PICK k \in Out : \A j \in Out : k <= j
  <2>1. Out \in SUBSET Nat /\ Out # {}
    BY <1>1
  <2> HIDE DEF Out
  <2> QED BY <2>1, LeastNat
<1>3. k \in Nat \ {0} /\ k \notin D /\ k <= n + 1
  BY <1>1, <1>2
<1>4. D = 1 .. k - 1
  <2>1. ASSUME NEW i \in D
        PROVE  i \in 1 .. k - 1
    <3>1. i \in 1 .. n
      OBVIOUS
    <3>2. CASE k <= i
      <4>1. k \in 1 .. i
        BY <1>3, <3>1, <3>2
      <4> QED BY <1>3, <4>1
    <3> QED BY <1>3, <3>1, <3>2
  <2>2. ASSUME NEW i \in 1 .. k - 1
        PROVE  i \in D
    <3>1. i \in Nat \ {0} /\ ~ (k <= i)
      BY <1>3
    <3> QED BY <1>2, <3>1
  <2> QED BY <2>1, <2>2
<1>5. Cardinality(1 .. k - 1) = k - 1
  <2>1. k - 1 \in Nat
    BY <1>3
  <2>2. Cardinality(1 .. k - 1) = IF 1 > k - 1 THEN 0 ELSE k - 1 - 1 + 1
    BY <2>1, FS_Interval
  <2> QED BY <2>1, <2>2
<1> QED BY <1>3, <1>4, <1>5

\* The elements of the two parts of a list.
LEMMA PartsElements ==
  ASSUME NEW S, NEW s \in Seq(S), NEW c \in 0 .. Len(s), IsInjective(s)
  PROVE  /\ IsInjective(SubSeq(s, 1, c)) /\ IsInjective(SubSeq(s, c + 1, Len(s)))
         /\ ToSet(SubSeq(s, 1, c)) = {s[i] : i \in 1 .. c}
         /\ ToSet(SubSeq(s, c + 1, Len(s))) = ToSet(s) \ ToSet(SubSeq(s, 1, c))
<1> DEFINE p == SubSeq(s, 1, c)
           q == SubSeq(s, c + 1, Len(s))
<1>1. PICK m \in Nat : m = Len(s)
  OBVIOUS
<1>2. /\ DOMAIN s = 1 .. m /\ DOMAIN p = 1 .. c /\ DOMAIN q = 1 .. m - c /\ c \in 0 .. m
      /\ \A i \in 1 .. c : p[i] = s[i]
      /\ \A i \in 1 .. m - c : q[i] = s[c + i]
  BY <1>1, Parts
<1> HIDE DEF p, q
<1>3. ToSet(p) = {s[i] : i \in 1 .. c}
  BY <1>2 DEF ToSet
<1>4. IsInjective(p)
  BY <1>2 DEF IsInjective
<1>5. IsInjective(q)
  <2>1. ASSUME NEW a \in 1 .. m - c, NEW b \in 1 .. m - c, q[a] = q[b]
        PROVE  a = b
    <3>1. c + a \in DOMAIN s /\ c + b \in DOMAIN s /\ s[c + a] = s[c + b]
      BY <1>2, <2>1
    <3>2. c + a = c + b
      BY <3>1 DEF IsInjective
    <3> QED BY <1>2, <3>2
  <2> QED BY <1>2, <2>1 DEF IsInjective
<1>6. ToSet(q) = ToSet(s) \ ToSet(p)
  <2>1. ASSUME NEW a \in 1 .. m - c
        PROVE  q[a] \in ToSet(s) \ ToSet(p)
    <3>1. c + a \in DOMAIN s /\ c + a \notin 1 .. c /\ q[a] = s[c + a]
      BY <1>2
    <3>2. \A i \in 1 .. c : i \in DOMAIN s /\ i # c + a
      BY <1>2, <3>1
    <3>3. \A i \in 1 .. c : s[i] # s[c + a]
      BY <3>1, <3>2 DEF IsInjective
    <3> QED BY <1>3, <3>1, <3>3 DEF ToSet
  <2>2. ASSUME NEW i \in 1 .. m, s[i] \notin ToSet(p)
        PROVE  s[i] \in ToSet(q)
    <3>1. i \notin 1 .. c
      BY <1>3, <2>2
    <3>2. i - c \in 1 .. m - c /\ c + (i - c) = i
      BY <1>2, <3>1
    <3> QED BY <1>2, <3>2 DEF ToSet
  <2> QED BY <1>2, <2>1, <2>2 DEF ToSet
<1> QED BY <1>1, <1>3, <1>4, <1>5, <1>6 DEF p, q

\* rl_splice of a new element between the first c and the others.
LEMMA InsertElement ==
  ASSUME NEW S, NEW s \in Seq(S), NEW c \in 0 .. Len(s), NEW e \in S,
         IsInjective(s), e \notin ToSet(s)
  PROVE  /\ InsertAt(s, c + 1, e) \in Seq(S) /\ Len(InsertAt(s, c + 1, e)) = Len(s) + 1
         /\ ToSet(InsertAt(s, c + 1, e)) = ToSet(s) \cup {e}
         /\ IsInjective(InsertAt(s, c + 1, e))
         /\ \A i \in 1 .. Len(s) + 1 :
               InsertAt(s, c + 1, e)[i] = IF i <= c THEN s[i]
                                          ELSE IF i = c + 1 THEN e ELSE s[i - 1]
<1> DEFINE p == SubSeq(s, 1, c)
           q == SubSeq(s, c + 1, Len(s))
           pe == p \o <<e>>
           r == InsertAt(s, c + 1, e)
<1>1. PICK m \in Nat : m = Len(s)
  OBVIOUS
<1>2. c \in 0 .. m /\ DOMAIN s = 1 .. m
  BY <1>1
<1>3. /\ p \in Seq(S) /\ q \in Seq(S) /\ Len(p) = c /\ Len(q) = m - c
      /\ \A i \in 1 .. c : p[i] = s[i]
      /\ \A i \in 1 .. m - c : q[i] = s[c + i]
  BY <1>1, Parts
<1>4. /\ IsInjective(p) /\ IsInjective(q)
      /\ ToSet(q) = ToSet(s) \ ToSet(p) /\ ToSet(p) \subseteq ToSet(s)
  <2>1. /\ IsInjective(p) /\ IsInjective(q) /\ ToSet(p) = {s[i] : i \in 1 .. c}
        /\ ToSet(q) = ToSet(s) \ ToSet(p)
    BY PartsElements
  <2> HIDE DEF p, q
  <2>2. \A i \in 1 .. c : i \in DOMAIN s
    BY <1>1, <1>2
  <2>3. ToSet(p) \subseteq ToSet(s)
    BY <2>1, <2>2 DEF ToSet
  <2> QED BY <2>1, <2>3
<1> HIDE DEF p, q
<1>5. /\ <<e>> \in Seq(S) /\ Len(<<e>>) = 1 /\ <<e>>[1] = e
      /\ ToSet(<<e>>) = {e} /\ IsInjective(<<e>>)
  BY DEF ToSet, IsInjective
<1>6. /\ pe \in Seq(S) /\ Len(pe) = c + 1
      /\ ToSet(pe) = ToSet(p) \cup {e} /\ IsInjective(pe)
      /\ \A i \in 1 .. c + 1 : pe[i] = IF i <= c THEN p[i] ELSE e
  <2>1. /\ pe \in Seq(S) /\ Len(pe) = Len(p) + Len(<<e>>)
        /\ ToSet(pe) = ToSet(p) \cup ToSet(<<e>>)
        /\ (IsInjective(p) /\ IsInjective(<<e>>) /\ ToSet(p) \cap ToSet(<<e>>) = {}
              => IsInjective(pe))
    BY <1>3, <1>5, ConcatElements
  <2>2. \A i \in 1 .. Len(p) + Len(<<e>>) :
           pe[i] = IF i <= Len(p) THEN p[i] ELSE <<e>>[i - Len(p)]
    BY <1>3, <1>5, ConcatProperties
  <2> HIDE DEF pe
  <2>3. ASSUME NEW i \in 1 .. c + 1
        PROVE  pe[i] = IF i <= c THEN p[i] ELSE e
    <3>1. pe[i] = IF i <= c THEN p[i] ELSE <<e>>[i - c]
      BY <1>2, <1>3, <1>5, <2>2
    <3>2. ~ (i <= c) => i - c = 1
      BY <1>2
    <3> QED BY <1>5, <3>1, <3>2
  <2> QED BY <1>3, <1>4, <1>5, <2>1, <2>3
<1> HIDE DEF pe
<1>7. r = pe \o q
  <2>1. PICK k : k = c + 1 /\ k - 1 = c
    BY <1>1, <1>2
  <2>2. InsertAt(s, k, e) = SubSeq(s, 1, k - 1) \o <<e>> \o SubSeq(s, k, Len(s))
    BY DEF InsertAt
  <2> QED BY <2>1, <2>2 DEF pe, p, q
<1> HIDE DEF r
<1>8. /\ r \in Seq(S) /\ Len(r) = (c + 1) + (m - c)
      /\ ToSet(r) = ToSet(s) \cup {e} /\ IsInjective(r)
  <2>1. /\ pe \o q \in Seq(S) /\ Len(pe \o q) = Len(pe) + Len(q)
        /\ ToSet(pe \o q) = ToSet(pe) \cup ToSet(q)
        /\ (IsInjective(pe) /\ IsInjective(q) /\ ToSet(pe) \cap ToSet(q) = {}
              => IsInjective(pe \o q))
    BY <1>3, <1>6, ConcatElements
  <2> QED BY <1>3, <1>4, <1>6, <1>7, <2>1
<1>9. Len(r) = m + 1 /\ DOMAIN r = 1 .. m + 1
  BY <1>1, <1>2, <1>8
<1>10. ASSUME NEW i \in 1 .. m + 1
       PROVE  r[i] = IF i <= c THEN s[i] ELSE IF i = c + 1 THEN e ELSE s[i - 1]
  <2>1. \A j \in 1 .. Len(pe) + Len(q) :
           (pe \o q)[j] = IF j <= Len(pe) THEN pe[j] ELSE q[j - Len(pe)]
    BY <1>3, <1>6, ConcatProperties
  <2>2. r[i] = IF i <= c + 1 THEN pe[i] ELSE q[i - (c + 1)]
    BY <1>1, <1>2, <1>3, <1>6, <1>7, <2>1
  <2>3. CASE i <= c + 1
    BY <1>1, <1>2, <1>3, <1>6, <2>2, <2>3
  <2>4. CASE ~ (i <= c + 1)
    <3>1. i - (c + 1) \in 1 .. m - c /\ c + (i - (c + 1)) = i - 1 /\ ~ (i <= c) /\ i # c + 1
      BY <1>1, <1>2, <2>4
    <3> QED BY <1>3, <2>2, <2>4, <3>1
  <2> QED BY <2>3, <2>4
<1> QED BY <1>1, <1>8, <1>9, <1>10 DEF r

\* The recursion of Kept is well founded: there is a function as it says.
IsKept(f, s, S, n) ==
  f = [i \in 0 .. n |->
         IF i = 0 THEN <<>>
         ELSE IF s[i] \in S THEN Append(f[i - 1], s[i]) ELSE f[i - 1]]

\* The function that Kept chooses exists, for every length.
LEMMA KeptExists ==
  ASSUME NEW s, NEW S, NEW n \in Nat
  PROVE  \E f : IsKept(f, s, S, n)
<1> DEFINE step(f, i) == IF i = 0 THEN <<>>
                         ELSE IF s[i] \in S THEN Append(f[i - 1], s[i]) ELSE f[i - 1]
           Is(f, m) == f = [i \in 0 .. m |-> step(f, i)]
           Bad == {m \in Nat : ~ \E f : Is(f, m)}
<1>1. \E f : Is(f, 0)
  <2> DEFINE g == [i \in 0 .. 0 |-> <<>>]
  <2>1. \A i \in 0 .. 0 : step(g, i) = <<>>
    OBVIOUS
  <2>2. Is(g, 0)
    BY <2>1
  <2> QED BY <2>2
<1>2. ASSUME NEW m \in Nat, NEW f, Is(f, m)
      PROVE  \E g : Is(g, m + 1)
  <2> DEFINE g == [i \in 0 .. m + 1 |-> IF i <= m THEN f[i] ELSE step(f, i)]
  <2>1. \A i \in 0 .. m : f[i] = step(f, i)
    BY <1>2
  <2>2. ASSUME NEW i \in 0 .. m + 1
        PROVE  step(f, i) = step(g, i) /\ g[i] = step(f, i)
    <3>1. i # 0 => i - 1 \in 0 .. m + 1 /\ i - 1 <= m
      OBVIOUS
    <3>2. i # 0 => g[i - 1] = f[i - 1]
      BY <3>1
    <3>3. g[i] = step(f, i)
      BY <2>1
    <3> QED BY <3>2, <3>3
  <2>3. Is(g, m + 1)
    BY <2>2
  <2> QED BY <2>3
<1> HIDE DEF Is
<1>3. Bad = {}
  <2>1. SUFFICES ASSUME Bad # {} PROVE FALSE
    OBVIOUS
  <2>2. PICK m \in Bad : \A j \in Bad : m <= j
    <3>1. Bad \in SUBSET Nat
      OBVIOUS
    <3> HIDE DEF Bad
    <3> QED BY <2>1, <3>1, LeastNat
  <2>3. m \in Nat /\ m # 0
    BY <1>1
  <2>4. m - 1 \in Nat /\ m - 1 + 1 = m /\ m - 1 \notin Bad
    BY <2>2, <2>3
  <2>5. \E f : Is(f, m - 1)
    BY <2>4
  <2>6. \E g : Is(g, m)
    BY <1>2, <2>4, <2>5
  <2> QED BY <2>6
<1>4. \E f : Is(f, n)
  BY <1>3
<1> QED BY <1>4 DEF Is, IsKept

\* What Kept keeps: the elements that are in S, the first of them first.
LEMMA KeptElements ==
  ASSUME NEW T, NEW s \in Seq(T), NEW S
  PROVE  /\ Kept(s, S) \in Seq(T)
         /\ ToSet(Kept(s, S)) = ToSet(s) \cap S
         /\ IsInjective(s) => IsInjective(Kept(s, S))
         /\ s # <<>> /\ s[1] \in S => Kept(s, S) # <<>> /\ Kept(s, S)[1] = s[1]
<1> DEFINE n == Len(s)
           f == CHOOSE g : g = [i \in 0 .. n |->
                  IF i = 0 THEN <<>>
                  ELSE IF s[i] \in S THEN Append(g[i - 1], s[i]) ELSE g[i - 1]]
           Upto(i) == {s[j] : j \in 1 .. i}
           Good(i) == /\ f[i] \in Seq(T)
                      /\ ToSet(f[i]) = Upto(i) \cap S
                      /\ IsInjective(s) => IsInjective(f[i])
                      /\ i > 0 /\ s[1] \in S => f[i] # <<>> /\ f[i][1] = s[1]
           Bad == {i \in 0 .. n : ~ Good(i)}
<1>1. n \in Nat /\ DOMAIN s = 1 .. n /\ \A i \in 1 .. n : s[i] \in T
  OBVIOUS
<1>2. f = [i \in 0 .. n |->
             IF i = 0 THEN <<>>
             ELSE IF s[i] \in S THEN Append(f[i - 1], s[i]) ELSE f[i - 1]]
  <2>1. PICK m \in Nat : m = n
    BY <1>1
  <2>2. \E g : IsKept(g, s, S, m)
    BY KeptExists
  <2>3. \E g : g = [i \in 0 .. n |->
                  IF i = 0 THEN <<>>
                  ELSE IF s[i] \in S THEN Append(g[i - 1], s[i]) ELSE g[i - 1]]
    BY <2>1, <2>2, Zenon DEF IsKept
  <2> QED BY <2>3, Zenon
<1>3. Kept(s, S) = f[n]
  BY DEF Kept
<1> HIDE DEF f, n
<1>4. Good(0)
  <2>1. f[0] = <<>>
    BY <1>1, <1>2
  <2>2. Upto(0) = {}
    OBVIOUS
  <2> QED BY <2>1, <2>2, EmptyElements
<1>5. ASSUME NEW i \in 1 .. n, Good(i - 1)
      PROVE  Good(i)
  <2>1. /\ i \in 0 .. n /\ i - 1 \in 0 .. n /\ i # 0 /\ s[i] \in T
        /\ f[i] = IF s[i] \in S THEN Append(f[i - 1], s[i]) ELSE f[i - 1]
    <3>1. \A j \in 0 .. n :
             f[j] = IF j = 0 THEN <<>>
                    ELSE IF s[j] \in S THEN Append(f[j - 1], s[j]) ELSE f[j - 1]
      BY <1>2
    <3>2. i \in 0 .. n /\ i - 1 \in 0 .. n /\ i # 0 /\ s[i] \in T
      BY <1>1
    <3> QED BY <3>1, <3>2
  <2>2. Upto(i) = Upto(i - 1) \cup {s[i]}
    <3>1. 1 .. i = (1 .. i - 1) \cup {i}
      BY <1>1
    <3> QED BY <3>1
  <2>3. IsInjective(s) => s[i] \notin Upto(i - 1)
    <3>1. \A j \in 1 .. i - 1 : j \in 1 .. n /\ j # i
      BY <1>1
    <3> QED BY <1>1, <3>1 DEF IsInjective
  <2> HIDE DEF Upto
  <2>4. CASE s[i] \in S
    <3>1. f[i] = Append(f[i - 1], s[i])
      BY <2>1, <2>4
    <3>2. /\ Append(f[i - 1], s[i]) \in Seq(T)
          /\ ToSet(Append(f[i - 1], s[i])) = ToSet(f[i - 1]) \cup {s[i]}
          /\ (IsInjective(f[i - 1]) /\ s[i] \notin ToSet(f[i - 1])
                => IsInjective(Append(f[i - 1], s[i])))
      BY <1>5, <2>1, AppendElement
    <3>3. i > 0 /\ s[1] \in S => f[i] # <<>> /\ f[i][1] = s[1]
      <4>1. CASE i = 1
        <5>1. f[i - 1] = <<>>
          <6>1. f[0] = <<>>
            BY <1>1, <1>2
          <6> QED BY <4>1, <6>1
        <5> QED BY <3>1, <4>1, <5>1
      <4>2. CASE i # 1
        <5>1. i - 1 > 0 /\ f[i - 1] \in Seq(T)
          BY <1>5, <4>2
        <5> QED BY <1>5, <3>1, <5>1
      <4> QED BY <4>1, <4>2
    <3> QED BY <1>5, <2>2, <2>3, <2>4, <3>1, <3>2, <3>3
  <2>5. CASE s[i] \notin S
    <3>1. f[i] = f[i - 1] /\ i - 1 \in Nat
      BY <2>1, <2>5
    <3>2. i > 0 /\ s[1] \in S => f[i] # <<>> /\ f[i][1] = s[1]
      <4>1. i = 1 \/ i - 1 > 0
        OBVIOUS
      <4> QED BY <1>5, <2>5, <3>1, <4>1
    <3> QED BY <1>5, <2>2, <2>5, <3>1, <3>2
  <2> QED BY <2>4, <2>5
<1> HIDE DEF Good
<1>6. Bad = {}
  <2>1. SUFFICES ASSUME Bad # {} PROVE FALSE
    OBVIOUS
  <2>2. PICK i \in Bad : \A j \in Bad : i <= j
    <3>1. Bad \in SUBSET Nat
      BY <1>1
    <3> HIDE DEF Bad
    <3> QED BY <2>1, <3>1, LeastNat
  <2>3. i \in 1 .. n /\ ~ Good(i)
    BY <1>1, <1>4, <2>2
  <2>4. i - 1 \in 0 .. n /\ i - 1 \notin Bad
    BY <1>1, <2>2, <2>3
  <2>5. Good(i - 1)
    BY <2>4
  <2> QED BY <1>5, <2>3, <2>5
<1>7. Good(n)
  BY <1>1, <1>6
<1>8. Upto(n) = ToSet(s)
  BY <1>1 DEF ToSet
<1>9. s # <<>> => n > 0
  BY DEF n
<1> QED BY <1>3, <1>7, <1>8, <1>9 DEF Good

\* rlist_push_front: the element is added, and nothing is repeated.
LEMMA PrependElement ==
  ASSUME NEW S, NEW s \in Seq(S), NEW e \in S
  PROVE  /\ <<e>> \o s \in Seq(S) /\ Len(<<e>> \o s) = Len(s) + 1
         /\ ToSet(<<e>> \o s) = ToSet(s) \cup {e}
         /\ <<e>> \o s # <<>> /\ (<<e>> \o s)[1] = e
         /\ \A j \in 1 .. Len(s) : (<<e>> \o s)[j + 1] = s[j]
         /\ IsInjective(s) /\ e \notin ToSet(s) => IsInjective(<<e>> \o s)
<1> DEFINE r == <<e>> \o s
<1>1. /\ <<e>> \in Seq(S) /\ Len(<<e>>) = 1 /\ <<e>>[1] = e
      /\ ToSet(<<e>>) = {e} /\ IsInjective(<<e>>) /\ Len(s) \in Nat
  BY DEF ToSet, IsInjective
<1>2. /\ r \in Seq(S) /\ Len(r) = Len(s) + 1 /\ ToSet(r) = {e} \cup ToSet(s)
      /\ (IsInjective(s) /\ e \notin ToSet(s) => IsInjective(r))
  <2>1. /\ r \in Seq(S) /\ Len(r) = Len(<<e>>) + Len(s)
        /\ ToSet(r) = ToSet(<<e>>) \cup ToSet(s)
        /\ (IsInjective(<<e>>) /\ IsInjective(s) /\ ToSet(<<e>>) \cap ToSet(s) = {}
              => IsInjective(r))
    BY <1>1, ConcatElements
  <2> HIDE DEF r
  <2> QED BY <1>1, <2>1
<1>3. \A j \in 1 .. Len(s) + 1 : r[j] = IF j <= 1 THEN e ELSE s[j - 1]
  <2>1. \A j \in 1 .. Len(<<e>>) + Len(s) :
           r[j] = IF j <= Len(<<e>>) THEN <<e>>[j] ELSE s[j - Len(<<e>>)]
    BY <1>1, ConcatProperties
  <2> HIDE DEF r
  <2>2. ASSUME NEW j \in 1 .. Len(s) + 1
        PROVE  r[j] = IF j <= 1 THEN e ELSE s[j - 1]
    <3>1. j \in 1 .. Len(<<e>>) + Len(s) /\ j \in Nat
      BY <1>1
    <3>2. r[j] = IF j <= Len(<<e>>) THEN <<e>>[j] ELSE s[j - Len(<<e>>)]
      BY <2>1, <3>1
    <3>3. j <= 1 => <<e>>[j] = e
      BY <1>1, <2>2
    <3> QED BY <1>1, <3>1, <3>2, <3>3
  <2> QED BY <2>2
<1> HIDE DEF r
<1>4. r[1] = e /\ \A j \in 1 .. Len(s) : r[j + 1] = s[j]
  BY <1>1, <1>3
<1>5. r # <<>>
  <2>1. Len(r) # 0
    BY <1>1, <1>2
  <2>2. Len(<<>>) = 0
    OBVIOUS
  <2> QED BY <2>1, <2>2, Zenon
<1>6. r = <<e>> \o s
  BY DEF r
<1> QED BY <1>2, <1>4, <1>5, <1>6

\* A list read from its end, as a loop of push_front leaves it.
LEMMA ReverseElements ==
  ASSUME NEW S, NEW s \in Seq(S)
  PROVE  /\ Reverse(s) \in Seq(S) /\ Len(Reverse(s)) = Len(s)
         /\ ToSet(Reverse(s)) = ToSet(s)
         /\ \A i \in 1 .. Len(s) : Reverse(s)[i] = s[Len(s) - i + 1]
         /\ IsInjective(s) => IsInjective(Reverse(s))
<1>1. PICK r, n : r = Reverse(s) /\ n = Len(s) /\ n \in Nat
  OBVIOUS
<1>2. DOMAIN s = 1 .. n /\ \A i \in 1 .. n : s[i] \in S
  BY <1>1
<1>3. r = [i \in 1 .. n |-> s[n - i + 1]]
  BY <1>1 DEF Reverse
<1>4. n \in Nat
  BY <1>1
<1>5. \A i \in 1 .. n : n - i + 1 \in 1 .. n /\ n - (n - i + 1) + 1 = i
  BY <1>4
<1>6. r \in Seq(S) /\ DOMAIN r = 1 .. n /\ Len(r) = n
  BY <1>2, <1>3, <1>4, <1>5
<1>7. \A i \in 1 .. n : r[i] = s[n - i + 1] /\ s[i] = r[n - i + 1]
  BY <1>3, <1>5
<1>8. ToSet(r) = ToSet(s)
  BY <1>2, <1>5, <1>6, <1>7 DEF ToSet
<1>9. ASSUME IsInjective(s)
      PROVE  IsInjective(r)
  <2>1. ASSUME NEW i \in 1 .. n, NEW j \in 1 .. n, r[i] = r[j]
        PROVE  i = j
    <3>1. s[n - i + 1] = s[n - j + 1] /\ n - i + 1 \in 1 .. n /\ n - j + 1 \in 1 .. n
      BY <1>5, <1>7, <2>1
    <3>2. n - i + 1 = n - j + 1
      BY <1>2, <1>9, <3>1 DEF IsInjective
    <3> QED BY <1>4, <3>2
  <2> QED BY <1>6, <2>1 DEF IsInjective
<1> QED BY <1>1, <1>6, <1>7, <1>8, <1>9

\* A ring of pointers: along f from the node l through those of w back to l.
Nth(l, w, i) == IF i \in 1 .. Len(w) THEN w[i] ELSE l
Chain(f, l, w) == \A i \in 0 .. Len(w) : f[Nth(l, w, i)] = Nth(l, w, i + 1)

Ring(f, N, l, w) ==
  /\ f \in [N -> N] /\ l \in N /\ w \in Seq(N)
  /\ Chain(f, l, w) /\ IsInjective(w) /\ l \notin ToSet(w)

\* f and g are the pointers of the nodes N in both directions.
BothWays(f, g, N) ==
  f \in [N -> N] /\ g \in [N -> N] /\ \A n \in N : g[f[n]] = n /\ f[g[n]] = n

\* The swap of two pointers; a list without its k-th element; a list with
\* another one and its head after the k-th element.
Swapped(f, a, b) == [f EXCEPT ![a] = f[b], ![b] = f[a]]

Drops(v, w, k) ==
  /\ k \in 1 .. Len(w) /\ Len(v) = Len(w) - 1
  /\ \A j \in 1 .. Len(w) - 1 : v[j] = IF j < k THEN w[j] ELSE w[j + 1]

Merges(u, w, v, m, k) ==
  /\ k \in 0 .. Len(w) /\ Len(u) = Len(w) + Len(v) + 1
  /\ \A j \in 1 .. Len(w) + Len(v) + 1 :
       u[j] = IF j <= k THEN w[j]
              ELSE IF j <= k + Len(v) THEN v[j - k]
              ELSE IF j = k + Len(v) + 1 THEN m
              ELSE w[j - Len(v) - 1]

\* The nodes of a ring are as many as there are stops.
LEMMA NthNodes ==
  ASSUME NEW N, NEW l \in N, NEW w \in Seq(N)
  PROVE  /\ \A i \in Nat : Nth(l, w, i) \in N
         /\ Nth(l, w, 0) = l /\ Nth(l, w, Len(w) + 1) = l
         /\ \A i \in 0 .. Len(w) : Nth(l, w, i) \in {l} \cup ToSet(w)
         /\ IsInjective(w) /\ l \notin ToSet(w) =>
              \A i, j \in 0 .. Len(w) : Nth(l, w, i) = Nth(l, w, j) => i = j
<1>1. Len(w) \in Nat /\ DOMAIN w = 1 .. Len(w) /\ \A i \in 1 .. Len(w) : w[i] \in N
  OBVIOUS
<1>2. \A i \in 1 .. Len(w) : w[i] \in ToSet(w)
  BY <1>1 DEF ToSet
<1>3. Nth(l, w, 0) = l /\ Nth(l, w, Len(w) + 1) = l /\ \A i \in Nat : Nth(l, w, i) \in N
  BY <1>1 DEF Nth
<1>4. \A i \in 0 .. Len(w) : Nth(l, w, i) = IF i = 0 THEN l ELSE w[i]
  BY <1>1 DEF Nth
<1>5. \A i \in 0 .. Len(w) : Nth(l, w, i) \in {l} \cup ToSet(w)
  BY <1>1, <1>2, <1>4
<1>6. ASSUME IsInjective(w), l \notin ToSet(w), NEW i \in 0 .. Len(w), NEW j \in 0 .. Len(w),
             Nth(l, w, i) = Nth(l, w, j)
      PROVE  i = j
  <2>1. CASE i = 0 \/ j = 0
    BY <1>1, <1>2, <1>4, <1>6, <2>1
  <2>2. CASE i # 0 /\ j # 0
    BY <1>1, <1>4, <1>6, <2>2 DEF IsInjective
  <2> QED BY <2>1, <2>2
<1> QED BY <1>3, <1>5, <1>6

\* Pointers that are the same on a ring.
LEMMA SameChain ==
  ASSUME NEW N, NEW l \in N, NEW w \in Seq(N), NEW f, NEW F, Chain(f, l, w),
         \A n \in {l} \cup ToSet(w) : F[n] = f[n]
  PROVE  Chain(F, l, w)
BY NthNodes DEF Chain

\* rl_splice keeps the two directions each other's inverse.
LEMMA SpliceBothWays ==
  ASSUME NEW N, NEW f, NEW g, NEW a, NEW b, BothWays(f, g, N), a \in N, b \in N
  PROVE  BothWays(Swapped(f, a, b), Swapped(g, f[a], f[b]), N)
<1>1. f \in [N -> N] /\ g \in [N -> N] /\ f[a] \in N /\ f[b] \in N
      /\ \A n \in N : g[f[n]] = n /\ f[g[n]] = n
  BY DEF BothWays
<1>2. PICK F, G : /\ F = [f EXCEPT ![a] = f[b], ![b] = f[a]]
                  /\ G = [g EXCEPT ![f[a]] = g[f[b]], ![f[b]] = g[f[a]]]
  OBVIOUS
<1>3. /\ F \in [N -> N] /\ G \in [N -> N]
      /\ \A n \in N : F[n] = IF n = b THEN f[a] ELSE IF n = a THEN f[b] ELSE f[n]
      /\ \A n \in N : G[n] = IF n = f[b] THEN a ELSE IF n = f[a] THEN b ELSE g[n]
  BY <1>1, <1>2
<1>4. ASSUME NEW n \in N
      PROVE  G[F[n]] = n /\ F[G[n]] = n
  <2>1. f[a] = f[b] => a = b
    BY <1>1
  <2>2. n # a /\ n # b => f[n] # f[a] /\ f[n] # f[b] /\ f[n] \in N
    BY <1>1
  <2>3. n # f[a] /\ n # f[b] => g[n] # a /\ g[n] # b /\ g[n] \in N
    BY <1>1
  <2> QED BY <1>1, <1>3, <2>1, <2>2, <2>3
<1> QED BY <1>2, <1>3, <1>4 DEF BothWays, Swapped

\* The pointers in the other direction have the list in reverse.
LEMMA ReverseChain ==
  ASSUME NEW N, NEW f, NEW g, NEW l, NEW w, BothWays(f, g, N), l \in N, w \in Seq(N),
         Chain(f, l, w)
  PROVE  Chain(g, l, Reverse(w))
<1>0. PICK r : r = Reverse(w)
  OBVIOUS
<1>1. PICK n \in Nat : n = Len(w) /\ r = Reverse(w)
  BY <1>0
<1>2. /\ r \in Seq(N) /\ Len(r) = n /\ \A i \in 1 .. n : r[i] = w[n - i + 1]
  BY <1>1, ReverseElements
<1>3. \A i \in 0 .. n + 1 : Nth(l, r, i) = Nth(l, w, n + 1 - i)
  <2>1. ASSUME NEW i \in 0 .. n + 1
        PROVE  Nth(l, r, i) = Nth(l, w, n + 1 - i)
    <3>1. CASE i \in 1 .. n
      <4>1. n + 1 - i \in 1 .. n /\ n + 1 - i = n - i + 1
        BY <3>1
      <4> QED BY <1>1, <1>2, <3>1, <4>1 DEF Nth
    <3>2. CASE i \notin 1 .. n
      <4>1. n + 1 - i \notin 1 .. n
        BY <3>2
      <4> QED BY <1>1, <1>2, <3>2, <4>1 DEF Nth
    <3> QED BY <3>1, <3>2
  <2> QED BY <2>1
<1>4. ASSUME NEW i \in 0 .. n
      PROVE  g[Nth(l, r, i)] = Nth(l, r, i + 1)
  <2>1. n - i \in 0 .. n /\ n - i + 1 = n + 1 - i /\ n + 1 - (i + 1) = n - i /\ n - i \in Nat
        /\ i \in 0 .. n + 1 /\ i + 1 \in 0 .. n + 1
    OBVIOUS
  <2>2. f[Nth(l, w, n - i)] = Nth(l, w, n + 1 - i)
    BY <1>1, <2>1 DEF Chain
  <2>3. Nth(l, w, n - i) \in N
    BY <2>1, NthNodes
  <2>4. g[Nth(l, w, n + 1 - i)] = Nth(l, w, n - i)
    BY <2>2, <2>3 DEF BothWays
  <2> QED BY <1>3, <2>1, <2>4
<1> QED BY <1>1, <1>2, <1>4 DEF Chain

\* rlist_remove of the k-th node of a list: it stands alone then.
LEMMA RemoveChain ==
  ASSUME NEW N, NEW f, NEW g, NEW l, NEW w, NEW k, NEW v, NEW F, BothWays(f, g, N), l \in N,
         w \in Seq(N), Chain(f, l, w), IsInjective(w), l \notin ToSet(w), v \in Seq(N),
         Drops(v, w, k), F = Swapped(f, w[k], g[w[k]])
  PROVE  /\ Chain(F, l, v) /\ F[w[k]] = w[k]
         /\ \A n \in N : n \notin {l} \cup ToSet(w) => F[n] = f[n]
<1>1. PICK n \in Nat : /\ n = Len(w) /\ k \in 1 .. n /\ Len(v) = n - 1
                      /\ \A j \in 1 .. n - 1 : v[j] = IF j < k THEN w[j] ELSE w[j + 1]
  BY DEF Drops
<1>2. PICK a, b : a = w[k] /\ b = Nth(l, w, k - 1)
  OBVIOUS
<1>3. /\ k \in Nat /\ k - 1 \in 0 .. n /\ k \in 1 .. n /\ k - 1 \in Nat
      /\ k - 1 # k /\ k - 1 + 1 = k /\ k \in 0 .. n /\ a = Nth(l, w, k)
  BY <1>1, <1>2 DEF Nth
<1>4. /\ a \in N /\ b \in N /\ a # b /\ {a, b} \subseteq {l} \cup ToSet(w)
      /\ \A i, j \in 0 .. n : Nth(l, w, i) = Nth(l, w, j) => i = j
  BY <1>1, <1>2, <1>3, NthNodes
<1>5. f[b] = a /\ g[a] = b /\ f[a] = Nth(l, w, k + 1)
  <2>1. f[Nth(l, w, k - 1)] = Nth(l, w, k - 1 + 1) /\ f[Nth(l, w, k)] = Nth(l, w, k + 1)
    BY <1>1, <1>3 DEF Chain
  <2>2. f[b] = a /\ f[a] = Nth(l, w, k + 1)
    BY <1>2, <1>3, <2>1
  <2> QED BY <1>4, <2>2 DEF BothWays
<1>6. \A x \in N : F[x] = IF x = b THEN f[a] ELSE IF x = a THEN a ELSE f[x]
  <2>1. F = [f EXCEPT ![a] = a, ![b] = f[a]]
    BY <1>2, <1>5 DEF Swapped
  <2> QED BY <1>4, <2>1 DEF BothWays
<1>7. \A i \in 0 .. n : Nth(l, v, i) = IF i < k THEN Nth(l, w, i) ELSE Nth(l, w, i + 1)
  <2>1. ASSUME NEW i \in 0 .. n
        PROVE  Nth(l, v, i) = IF i < k THEN Nth(l, w, i) ELSE Nth(l, w, i + 1)
    <3>1. CASE i \in 1 .. n - 1
      <4>1. i \in 1 .. n /\ i + 1 \in 1 .. n
        BY <3>1
      <4> QED BY <1>1, <3>1, <4>1 DEF Nth
    <3>2. CASE i = 0
      BY <1>1, <1>3, <3>2 DEF Nth
    <3>3. CASE i = n
      <4>1. ~ (i < k) /\ i + 1 \notin 1 .. n /\ i \notin 1 .. n - 1
        BY <1>3, <3>3
      <4> QED BY <1>1, <4>1 DEF Nth
    <3> QED BY <3>1, <3>2, <3>3
  <2> QED BY <2>1
<1>8. ASSUME NEW i \in 0 .. n - 1
      PROVE  F[Nth(l, v, i)] = Nth(l, v, i + 1)
  <2>1. i \in 0 .. n /\ i + 1 \in 0 .. n /\ i \in Nat /\ i + 1 \in Nat
    OBVIOUS
  <2>2. \A j \in 0 .. n : f[Nth(l, w, j)] = Nth(l, w, j + 1) /\ Nth(l, w, j) \in N
    BY <1>1, NthNodes DEF Chain
  <2>3. CASE i < k - 1
    <3>1. i < k /\ i + 1 < k /\ i # k /\ i # k - 1
      BY <1>3, <2>3
    <3>2. Nth(l, v, i) = Nth(l, w, i) /\ Nth(l, v, i + 1) = Nth(l, w, i + 1)
      BY <1>7, <2>1, <3>1
    <3>3. Nth(l, w, i) # a /\ Nth(l, w, i) # b
      BY <1>2, <1>3, <1>4, <2>1, <3>1
    <3> QED BY <1>6, <2>1, <2>2, <3>2, <3>3
  <2>4. CASE i = k - 1
    <3>1. i < k /\ ~ (i + 1 < k) /\ i + 1 + 1 = k + 1
      BY <1>3, <2>4
    <3>2. Nth(l, v, i) = b /\ Nth(l, v, i + 1) = Nth(l, w, k + 1)
      BY <1>2, <1>7, <2>1, <2>4, <3>1
    <3> QED BY <1>4, <1>5, <1>6, <3>2
  <2>5. CASE i > k - 1
    <3>1. ~ (i < k) /\ ~ (i + 1 < k) /\ i + 1 # k /\ i + 1 # k - 1
      BY <1>3, <2>5
    <3>2. Nth(l, v, i) = Nth(l, w, i + 1) /\ Nth(l, v, i + 1) = Nth(l, w, i + 1 + 1)
      BY <1>7, <2>1, <3>1
    <3>3. Nth(l, w, i + 1) # a /\ Nth(l, w, i + 1) # b
      BY <1>2, <1>3, <1>4, <2>1, <3>1
    <3> QED BY <1>6, <2>1, <2>2, <3>2, <3>3
  <2> QED BY <1>3, <2>3, <2>4, <2>5
<1> QED BY <1>1, <1>2, <1>4, <1>6, <1>8 DEF Chain

\* rl_splice of a ring into another one, after the k-th node of that: this is
\* what pushing a node and appending a list are made of.
LEMMA MergeChain ==
  ASSUME NEW N, NEW f, NEW l, NEW w, Ring(f, N, l, w), NEW m, NEW v, Ring(f, N, m, v),
         ({l} \cup ToSet(w)) \cap ({m} \cup ToSet(v)) = {},
         NEW k, NEW u, u \in Seq(N), Merges(u, w, v, m, k),
         NEW F, F = Swapped(f, Nth(l, w, k), m)
  PROVE  /\ Chain(F, l, u)
         /\ \A n \in N : n \notin {l, m} \cup ToSet(w) => F[n] = f[n]
<1> USE DEF Ring
<1>1. PICK n \in Nat : n = Len(w) /\ k \in 0 .. n /\ k \in Nat
  BY DEF Merges
<1>2. PICK p \in Nat : p = Len(v)
  OBVIOUS
<1>0. /\ Len(u) = n + p + 1
      /\ \A j \in 1 .. n + p + 1 : u[j] = IF j <= k THEN w[j]
                                           ELSE IF j <= k + p THEN v[j - k]
                                           ELSE IF j = k + p + 1 THEN m
                                           ELSE w[j - p - 1]
  BY <1>1, <1>2 DEF Merges
<1>3. PICK x : x = Nth(l, w, k)
  OBVIOUS
<1>4. /\ k \in 0 .. n /\ k \in Nat /\ x \in N /\ x # m /\ x \in {l} \cup ToSet(w)
      /\ \A i, j \in 0 .. n : Nth(l, w, i) = Nth(l, w, j) => i = j
      /\ \A i, j \in 0 .. p : Nth(m, v, i) = Nth(m, v, j) => i = j
      /\ \A i \in 0 .. n : \A j \in 0 .. p : Nth(l, w, i) # Nth(m, v, j)
      /\ Nth(m, v, 0) = m /\ Nth(m, v, p + 1) = m
  <2>1. /\ k \in 0 .. n /\ k \in Nat /\ x \in N /\ x \in {l} \cup ToSet(w)
        /\ \A i, j \in 0 .. n : Nth(l, w, i) = Nth(l, w, j) => i = j
    <3>1. /\ \A i \in Nat : Nth(l, w, i) \in N
          /\ \A i \in 0 .. Len(w) : Nth(l, w, i) \in {l} \cup ToSet(w)
      BY NthNodes
    <3>2. \A i, j \in 0 .. Len(w) : Nth(l, w, i) = Nth(l, w, j) => i = j
      BY NthNodes
    <3> QED BY <1>1, <1>3, <3>1, <3>2
  <2>2. /\ \A i, j \in 0 .. p : Nth(m, v, i) = Nth(m, v, j) => i = j
        /\ Nth(m, v, 0) = m /\ Nth(m, v, p + 1) = m
    BY <1>2, NthNodes
  <2>3. /\ \A i \in 0 .. n : Nth(l, w, i) \in {l} \cup ToSet(w)
        /\ \A i \in 0 .. p : Nth(m, v, i) \in {m} \cup ToSet(v)
    BY <1>1, <1>2, NthNodes
  <2>4. x # m
    BY <2>1
  <2> QED BY <2>1, <2>2, <2>3, <2>4
<1>5. /\ \A i \in 0 .. n : f[Nth(l, w, i)] = Nth(l, w, i + 1) /\ Nth(l, w, i) \in N
      /\ \A i \in 0 .. p : f[Nth(m, v, i)] = Nth(m, v, i + 1) /\ Nth(m, v, i) \in N
  <2>1. /\ \A i \in Nat : Nth(l, w, i) \in N
        /\ \A i \in Nat : Nth(m, v, i) \in N
    BY NthNodes
  <2>2. /\ \A i \in 0 .. n : f[Nth(l, w, i)] = Nth(l, w, i + 1)
        /\ \A i \in 0 .. p : f[Nth(m, v, i)] = Nth(m, v, i + 1)
    BY <1>1, <1>2 DEF Chain
  <2> QED BY <1>1, <1>2, <2>1, <2>2
<1>6. \A y \in N : F[y] = IF y = m THEN Nth(l, w, k + 1) ELSE IF y = x THEN Nth(m, v, 1) ELSE f[y]
  <2>1. F = [f EXCEPT ![x] = f[m], ![m] = f[x]]
    BY <1>3 DEF Swapped
  <2>2. f[m] = Nth(m, v, 1) /\ f[x] = Nth(l, w, k + 1)
    <3>1. 0 \in 0 .. p /\ 0 + 1 = 1
      OBVIOUS
    <3> QED BY <1>3, <1>4, <1>5, <3>1
  <2> QED BY <1>4, <2>1, <2>2
<1>7. ASSUME NEW i \in 0 .. n + p + 2
      PROVE  Nth(l, u, i) = IF i <= k THEN Nth(l, w, i)
                             ELSE IF i <= k + p + 1 THEN Nth(m, v, i - k)
                             ELSE Nth(l, w, i - p - 1)
  <2>1. Len(u) = n + p + 1
    BY <1>0
  <2>2. CASE i <= k
    <3>1. i = 0 \/ (i \in 1 .. n /\ i \in 1 .. n + p + 1)
      BY <1>4, <2>2
    <3> QED BY <1>1, <1>0, <2>1, <2>2, <3>1 DEF Nth
  <2>3. CASE i > k /\ i <= k + p
    <3>1. i \in 1 .. n + p + 1 /\ i - k \in 1 .. p /\ ~ (i <= k) /\ i <= k + p + 1
      BY <1>4, <2>3
    <3> QED BY <1>1, <1>2, <1>0, <2>1, <2>3, <3>1 DEF Nth
  <2>4. CASE i = k + p + 1
    <3>1. /\ i \in 1 .. n + p + 1 /\ i - k = p + 1 /\ ~ (i <= k) /\ i <= k + p + 1 /\ ~ (i <= k + p)
      BY <1>4, <2>4
    <3>2. u[i] = m /\ Nth(l, u, i) = u[i]
      BY <1>1, <1>2, <1>0, <2>1, <2>4, <3>1 DEF Nth
    <3> QED BY <1>4, <3>1, <3>2
  <2>5. CASE i > k + p + 1 /\ i <= n + p + 1
    <3>1. /\ i \in 1 .. n + p + 1 /\ i - p - 1 \in 1 .. n /\ ~ (i <= k) /\ ~ (i <= k + p + 1)
          /\ ~ (i <= k + p) /\ i # k + p + 1
      BY <1>4, <2>5
    <3>2. u[i] = w[i - p - 1] /\ Nth(l, u, i) = u[i]
      BY <1>1, <1>2, <1>0, <2>1, <3>1 DEF Nth
    <3> QED BY <1>1, <3>1, <3>2 DEF Nth
  <2>6. CASE i = n + p + 2
    <3>1. /\ i \notin 1 .. n + p + 1 /\ i - p - 1 = n + 1 /\ n + 1 \notin 1 .. n
          /\ ~ (i <= k) /\ ~ (i <= k + p + 1)
      BY <1>4, <2>6
    <3> QED BY <1>1, <2>1, <3>1 DEF Nth
  <2> QED BY <1>4, <2>2, <2>3, <2>4, <2>5, <2>6
<1>8. ASSUME NEW i \in 0 .. n + p + 1
      PROVE  F[Nth(l, u, i)] = Nth(l, u, i + 1)
  <2>1. i \in 0 .. n + p + 2 /\ i + 1 \in 0 .. n + p + 2
    OBVIOUS
  <2>2. CASE i < k
    <3>1. i <= k /\ i + 1 <= k /\ i \in 0 .. n /\ i # k
      BY <1>4, <2>2
    <3>2. Nth(l, u, i) = Nth(l, w, i) /\ Nth(l, u, i + 1) = Nth(l, w, i + 1)
      BY <1>7, <2>1, <3>1
    <3>3. Nth(l, w, i) # x /\ Nth(l, w, i) # m
      <4>1. 0 \in 0 .. p
        OBVIOUS
      <4> QED BY <1>3, <1>4, <3>1, <4>1
    <3> QED BY <1>5, <1>6, <3>1, <3>2, <3>3
  <2>3. CASE i = k
    <3>1. i <= k /\ ~ (i + 1 <= k) /\ i + 1 <= k + p + 1 /\ i + 1 - k = 1
      BY <1>4, <2>3
    <3>2. Nth(l, u, i) = x /\ Nth(l, u, i + 1) = Nth(m, v, 1)
      BY <1>3, <1>7, <2>1, <2>3, <3>1
    <3> QED BY <1>4, <1>6, <3>2
  <2>4. CASE i > k /\ i <= k + p
    <3>1. /\ ~ (i <= k) /\ i <= k + p + 1 /\ ~ (i + 1 <= k) /\ i + 1 <= k + p + 1
          /\ i - k \in 0 .. p /\ i - k # 0 /\ i + 1 - k = i - k + 1
      BY <1>4, <2>4
    <3>2. Nth(l, u, i) = Nth(m, v, i - k)
      BY <1>7, <2>1, <3>1
    <3>3. PICK j : j = i + 1
      OBVIOUS
    <3>4. Nth(l, u, j) = Nth(m, v, j - k) /\ j - k = i - k + 1
      <4>1. j \in 0 .. n + p + 2 /\ ~ (j <= k) /\ j <= k + p + 1 /\ j - k = i - k + 1
        BY <1>4, <2>1, <3>1, <3>3
      <4> QED BY <1>7, <4>1
    <3>5. Nth(m, v, i - k) # m /\ Nth(m, v, i - k) # x
      <4>1. 0 \in 0 .. p
        OBVIOUS
      <4> QED BY <1>3, <1>4, <3>1, <4>1
    <3> QED BY <1>5, <1>6, <3>1, <3>2, <3>3, <3>4, <3>5
  <2>5. CASE i = k + p + 1
    <3>1. /\ ~ (i <= k) /\ i <= k + p + 1 /\ ~ (i + 1 <= k) /\ ~ (i + 1 <= k + p + 1)
          /\ i - k = p + 1 /\ i + 1 - p - 1 = k + 1
      BY <1>4, <2>5
    <3>2. Nth(l, u, i) = m /\ Nth(l, u, i + 1) = Nth(l, w, k + 1)
      BY <1>4, <1>7, <2>1, <3>1
    <3> QED BY <1>6, <3>2
  <2>6. CASE i > k + p + 1
    <3>1. /\ ~ (i <= k) /\ ~ (i <= k + p + 1) /\ ~ (i + 1 <= k) /\ ~ (i + 1 <= k + p + 1)
          /\ i - p - 1 \in 0 .. n /\ i - p - 1 # k /\ i + 1 - p - 1 = i - p - 1 + 1
      BY <1>4, <2>6
    <3>2. Nth(l, u, i) = Nth(l, w, i - p - 1) /\ Nth(l, u, i + 1) = Nth(l, w, i - p - 1 + 1)
      BY <1>7, <2>1, <3>1
    <3>3. Nth(l, w, i - p - 1) # x /\ Nth(l, w, i - p - 1) # m
      <4>1. 0 \in 0 .. p
        OBVIOUS
      <4> QED BY <1>3, <1>4, <3>1, <4>1
    <3> QED BY <1>5, <1>6, <3>1, <3>2, <3>3
  <2> QED BY <1>4, <2>2, <2>3, <2>4, <2>5, <2>6
<1> QED
  <2>1. Chain(F, l, u)
    BY <1>8, <1>0 DEF Chain
  <2> QED BY <1>4, <1>6, <2>1

\* A list without its k-th element.
LEMMA DropElement ==
  ASSUME NEW S, NEW w, NEW v, NEW k, w \in Seq(S), IsInjective(w), v \in Seq(S), Drops(v, w, k)
  PROVE  IsInjective(v) /\ ToSet(v) = ToSet(w) \ {w[k]}
<1>1. PICK n \in Nat : /\ n = Len(w) /\ n - 1 \in Nat /\ k \in 1 .. n /\ Len(v) = n - 1
                      /\ \A j \in 1 .. n - 1 : v[j] = IF j < k THEN w[j] ELSE w[j + 1]
  BY DEF Drops
<1>2. /\ DOMAIN w = 1 .. n /\ DOMAIN v = 1 .. n - 1
      /\ \A i, j \in 1 .. n : w[i] = w[j] => i = j
      /\ \A j \in 1 .. n - 1 : v[j] = IF j < k THEN w[j] ELSE w[j + 1]
  BY <1>1 DEF IsInjective
<1>3. IsInjective(v)
  <2>1. ASSUME NEW i \in 1 .. n - 1, NEW j \in 1 .. n - 1, v[i] = v[j]
        PROVE  i = j
    <3>1. /\ i \in 1 .. n /\ i + 1 \in 1 .. n /\ j \in 1 .. n /\ j + 1 \in 1 .. n
      BY <1>1
    <3>2. PICK x \in 1 .. n, y \in 1 .. n : /\ x = (IF i < k THEN i ELSE i + 1) /\ v[i] = w[x]
                                            /\ y = (IF j < k THEN j ELSE j + 1) /\ v[j] = w[y]
      BY <1>2, <3>1
    <3>3. x = y
      BY <1>2, <2>1, <3>2
    <3> QED BY <1>1, <3>1, <3>2, <3>3
  <2> QED BY <1>2, <2>1 DEF IsInjective
<1>4. ASSUME NEW x \in ToSet(v)
      PROVE  x \in ToSet(w) \ {w[k]}
  <2>1. PICK j \in 1 .. n - 1 : x = v[j]
    BY <1>2, <1>4 DEF ToSet
  <2>2. PICK i \in 1 .. n : i # k /\ x = w[i]
    <3>1. j \in 1 .. n /\ j + 1 \in 1 .. n /\ (j < k => j # k) /\ (~ (j < k) => j + 1 # k)
      BY <1>1
    <3> QED BY <1>2, <2>1, <3>1
  <2> QED BY <1>1, <1>2, <2>2 DEF ToSet
<1>5. ASSUME NEW x \in ToSet(w), x # w[k]
      PROVE  x \in ToSet(v)
  <2>1. PICK i \in 1 .. n : x = w[i] /\ i # k
    BY <1>2, <1>5 DEF ToSet
  <2>2. PICK j \in 1 .. n - 1 : j = IF i < k THEN i ELSE i - 1
    BY <1>1, <2>1
  <2>3. v[j] = w[i]
    <3>1. CASE i < k
      BY <1>2, <2>2, <3>1
    <3>2. CASE ~ (i < k)
      <4>1. ~ (j < k) /\ j + 1 = i
        BY <1>1, <2>1, <2>2, <3>2
      <4> QED BY <1>2, <4>1
    <3> QED BY <3>1, <3>2
  <2> QED BY <1>2, <2>1, <2>3 DEF ToSet
<1> QED BY <1>3, <1>4, <1>5

\* A list with another one and its head after the k-th element.
LEMMA MergeElements ==
  ASSUME NEW S, NEW w, NEW m, NEW v, NEW u, NEW k, w \in Seq(S), IsInjective(w), m \in S,
         v \in Seq(S), IsInjective(v), m \notin ToSet(v),
         ToSet(w) \cap ({m} \cup ToSet(v)) = {}, u \in Seq(S), Merges(u, w, v, m, k)
  PROVE  IsInjective(u) /\ ToSet(u) = ToSet(w) \cup {m} \cup ToSet(v)
<1>1. PICK n \in Nat : n = Len(w) /\ k \in 0 .. n /\ k \in Nat
  BY DEF Merges
<1>2. PICK p \in Nat : p = Len(v)
  OBVIOUS
<1>3. /\ DOMAIN w = 1 .. n /\ DOMAIN v = 1 .. p /\ DOMAIN u = 1 .. n + p + 1
      /\ \A i, j \in 1 .. n : w[i] = w[j] => i = j
      /\ \A i, j \in 1 .. p : v[i] = v[j] => i = j
      /\ \A i \in 1 .. n : w[i] \in ToSet(w)
      /\ \A i \in 1 .. p : v[i] \in ToSet(v)
  <2>1. DOMAIN w = 1 .. n /\ DOMAIN v = 1 .. p
    BY <1>1, <1>2
  <2>2. DOMAIN u = 1 .. n + p + 1
    BY <1>1, <1>2 DEF Merges
  <2>3. /\ \A i, j \in 1 .. n : w[i] = w[j] => i = j
        /\ \A i, j \in 1 .. p : v[i] = v[j] => i = j
    BY <2>1 DEF IsInjective
  <2> QED BY <2>1, <2>2, <2>3 DEF ToSet
<1>4. \A j \in 1 .. n + p + 1 : u[j] = IF j <= k THEN w[j]
                                       ELSE IF j <= k + p THEN v[j - k]
                                       ELSE IF j = k + p + 1 THEN m
                                       ELSE w[j - p - 1]
  BY <1>1, <1>2 DEF Merges
<1>5. ASSUME NEW j \in 1 .. n + p + 1
      PROVE  \/ j <= k /\ j \in 1 .. n /\ u[j] = w[j]
             \/ j > k /\ j <= k + p /\ j - k \in 1 .. p /\ u[j] = v[j - k]
             \/ j = k + p + 1 /\ u[j] = m
             \/ j > k + p + 1 /\ j - p - 1 \in 1 .. n /\ u[j] = w[j - p - 1]
  <2>1. CASE j <= k
    BY <1>1, <1>4, <2>1
  <2>2. CASE j > k /\ j <= k + p
    BY <1>1, <1>4, <2>2
  <2>3. CASE j = k + p + 1
    BY <1>1, <1>4, <2>3
  <2>4. CASE j > k + p + 1
    BY <1>1, <1>4, <2>4
  <2> QED BY <1>1, <2>1, <2>2, <2>3, <2>4
<1>6. IsInjective(u)
  <2>1. ASSUME NEW i \in 1 .. n + p + 1, NEW j \in 1 .. n + p + 1, u[i] = u[j]
        PROVE  i = j
    <3>1. CASE u[i] = m
      <4>1. ASSUME NEW x \in 1 .. n + p + 1, u[x] = m
            PROVE  x = k + p + 1
        <5>1. (\A y \in 1 .. n : w[y] # m) /\ (\A y \in 1 .. p : v[y] # m)
          BY <1>3
        <5>2. CASE x <= k /\ x \in 1 .. n /\ u[x] = w[x]
          BY <4>1, <5>1, <5>2
        <5>3. CASE x - k \in 1 .. p /\ u[x] = v[x - k]
          BY <4>1, <5>1, <5>3
        <5>4. CASE x - p - 1 \in 1 .. n /\ u[x] = w[x - p - 1]
          BY <4>1, <5>1, <5>4
        <5> QED BY <1>5, <5>2, <5>3, <5>4
      <4> QED BY <2>1, <3>1, <4>1
    <3>2. CASE u[i] \in ToSet(v)
      <4>1. \A x \in 1 .. n + p + 1 : u[x] \in ToSet(v) => x - k \in 1 .. p /\ u[x] = v[x - k]
        BY <1>3, <1>5
      <4>2. i - k = j - k
        BY <1>3, <2>1, <3>2, <4>1
      <4> QED BY <1>1, <4>2
    <3>3. CASE u[i] \in ToSet(w)
      <4>1. ASSUME NEW x \in 1 .. n + p + 1, u[x] \in ToSet(w)
            PROVE  \E y \in 1 .. n :
                     u[x] = w[y] /\ ((y = x /\ x <= k) \/ (y = x - p - 1 /\ x > k + p + 1))
        <5>1. u[x] # m /\ \A y \in 1 .. p : u[x] # v[y]
          BY <1>3, <4>1
        <5>2. CASE x <= k /\ x \in 1 .. n /\ u[x] = w[x]
          <6>1. PICK y \in 1 .. n : y = x
            BY <5>2
          <6> QED BY <5>2, <6>1
        <5>3. CASE x - k \in 1 .. p /\ u[x] = v[x - k]
          BY <5>1, <5>3
        <5>4. CASE x > k + p + 1 /\ x - p - 1 \in 1 .. n /\ u[x] = w[x - p - 1]
          BY <5>4
        <5> QED BY <1>5, <5>1, <5>2, <5>3, <5>4
      <4>2. PICK y \in 1 .. n :
              u[i] = w[y] /\ ((y = i /\ i <= k) \/ (y = i - p - 1 /\ i > k + p + 1))
        BY <3>3, <4>1
      <4>3. PICK z \in 1 .. n :
              u[j] = w[z] /\ ((z = j /\ j <= k) \/ (z = j - p - 1 /\ j > k + p + 1))
        BY <2>1, <3>3, <4>1
      <4>4. y = z
        BY <1>3, <2>1, <4>2, <4>3
      <4> QED BY <1>1, <4>2, <4>3, <4>4
    <3> QED BY <1>3, <1>5, <3>1, <3>2, <3>3
  <2> QED BY <1>3, <2>1 DEF IsInjective
<1>7. ASSUME NEW x \in ToSet(u)
      PROVE  x \in ToSet(w) \cup {m} \cup ToSet(v)
  <2>1. PICK j \in 1 .. n + p + 1 : x = u[j]
    BY <1>3, <1>7 DEF ToSet
  <2> QED BY <1>3, <1>5, <2>1
<1>8. ASSUME NEW x \in ToSet(w) \cup {m} \cup ToSet(v)
      PROVE  \E j \in 1 .. n + p + 1 : u[j] = x
  <2>1. CASE x \in ToSet(w)
    <3>1. PICK i \in 1 .. n : x = w[i]
      BY <1>3, <2>1 DEF ToSet
    <3>2. CASE i <= k
      BY <1>1, <1>4, <3>1, <3>2
    <3>3. CASE ~ (i <= k)
      <4>1. /\ i + p + 1 \in 1 .. n + p + 1 /\ ~ (i + p + 1 <= k) /\ ~ (i + p + 1 <= k + p)
            /\ i + p + 1 # k + p + 1 /\ i + p + 1 - p - 1 = i
        BY <1>1, <3>3
      <4> QED BY <1>4, <3>1, <4>1
    <3> QED BY <3>2, <3>3
  <2>2. CASE x \in ToSet(v)
    <3>1. PICK i \in 1 .. p : x = v[i]
      BY <1>3, <2>2 DEF ToSet
    <3>2. PICK j : j = i + k
      OBVIOUS
    <3>3. j \in 1 .. n + p + 1 /\ ~ (j <= k) /\ j <= k + p /\ j - k = i
      BY <1>1, <3>2
    <3> QED BY <1>4, <3>1, <3>3
  <2>3. CASE x = m
    <3>1. /\ k + p + 1 \in 1 .. n + p + 1 /\ ~ (k + p + 1 <= k) /\ ~ (k + p + 1 <= k + p)
      BY <1>1
    <3> QED BY <1>4, <2>3, <3>1
  <2> QED BY <1>8, <2>1, <2>2, <2>3
<1>9. ToSet(u) = ToSet(w) \cup {m} \cup ToSet(v)
  <2>1. \A x \in ToSet(w) \cup {m} \cup ToSet(v) : x \in ToSet(u)
    BY <1>3, <1>8 DEF ToSet
  <2> QED BY <1>7, <2>1
<1> QED BY <1>6, <1>9

\* The list l is u now.
PutOne(h, l, u) == [h EXCEPT ![l] = u]
PutTwo(h, d, x, s, y) == [h EXCEPT ![d] = x, ![s] = y]

\* The lists h with the heads H and items from I are what the pointers f and g
\* make of them; an item in no list stands alone.
Linked(f, g, h, H, I) ==
  /\ BothWays(f, g, H \cup I)
  /\ h \in [H -> Seq(I)]
  /\ \A l \in H : IsInjective(h[l]) /\ Chain(f, l, h[l])
  /\ \A l, m \in H : l # m => ToSet(h[l]) \cap ToSet(h[m]) = {}
  /\ \A n \in I : (\A l \in H : n \notin ToSet(h[l])) => f[n] = n

\* The rings of the heads have no node in common.
LEMMA Rings ==
  ASSUME NEW H, NEW I, H \cap I = {}, NEW f, NEW g, NEW h, Linked(f, g, h, H, I)
  PROVE  /\ \A l \in H : /\ l \in H \cup I /\ h[l] \in Seq(I) /\ h[l] \in Seq(H \cup I)
                         /\ ToSet(h[l]) \subseteq I /\ l \notin ToSet(h[l])
         /\ \A l, m \in H : l # m => ({l} \cup ToSet(h[l])) \cap ({m} \cup ToSet(h[m])) = {}
<1>1. ASSUME NEW l \in H
      PROVE  /\ h[l] \in Seq(I) /\ h[l] \in Seq(H \cup I)
             /\ ToSet(h[l]) \subseteq I /\ l \notin ToSet(h[l])
  <2>1. h[l] \in Seq(I)
    BY DEF Linked
  <2>2. h[l] \in Seq(H \cup I)
    BY <2>1
  <2>3. ToSet(h[l]) \subseteq I
    BY <2>1, ElementsType
  <2> QED BY <2>1, <2>2, <2>3
<1> QED BY <1>1 DEF Linked

\* Changing the ring of one list, or of two, and leaving the others alone.
LEMMA OthersLinked ==
  ASSUME NEW H, NEW I, NEW f, NEW g, NEW h, NEW d, NEW s, NEW x, NEW y, NEW F, NEW G, NEW M,
         H \cap I = {}, Linked(f, g, h, H, I), d \in H, s \in H, x \in Seq(I), y \in Seq(I),
         s = d => x = y, BothWays(F, G, H \cup I), IsInjective(x), IsInjective(y),
         Chain(F, d, x), Chain(F, s, y), d # s => ToSet(x) \cap ToSet(y) = {}, M \subseteq I,
         ToSet(x) \cup ToSet(y) \subseteq ToSet(h[d]) \cup ToSet(h[s]) \cup M,
         \A m \in M : \A l \in H \ {d, s} : m \notin ToSet(h[l]),
         \A n \in I : n \in ToSet(h[d]) \cup ToSet(h[s]) \cup M /\ n \notin ToSet(x) \cup ToSet(y)
                        => F[n] = n,
         \A n \in H \cup I : n \notin {d, s} \cup ToSet(h[d]) \cup ToSet(h[s]) \cup M => F[n] = f[n]
  PROVE  Linked(F, G, [h EXCEPT ![d] = x, ![s] = y], H, I)
<1>1. PICK k : k = [h EXCEPT ![d] = x, ![s] = y]
  OBVIOUS
<1>0. /\ \A l \in H : /\ l \in H \cup I /\ h[l] \in Seq(H \cup I) /\ ToSet(h[l]) \subseteq I
      /\ \A l, m \in H : l # m => ({l} \cup ToSet(h[l])) \cap ({m} \cup ToSet(h[m])) = {}
  <2>1. Linked(f, g, h, H, I) /\ H \cap I = {}
    OBVIOUS
  <2> QED BY ONLY <2>1, Rings
<1>2. /\ k \in [H -> Seq(I)] /\ k[d] = x /\ k[s] = y
      /\ \A l \in H \ {d, s} : k[l] = h[l]
  BY <1>1 DEF Linked
<1>3. ASSUME NEW l \in H
      PROVE  IsInjective(k[l]) /\ Chain(F, l, k[l])
  <2>1. CASE l \in {d, s}
    BY <1>2, <2>1
  <2>2. CASE l \notin {d, s}
    <3>1. /\ l \in H \cup I /\ h[l] \in Seq(H \cup I) /\ ToSet(h[l]) \subseteq I
          /\ ({l} \cup ToSet(h[l])) \cap ({d, s} \cup ToSet(h[d]) \cup ToSet(h[s])) = {}
      <4>1. l # d /\ l # s
        BY <2>2
      <4>2. /\ l \in H \cup I /\ h[l] \in Seq(H \cup I) /\ ToSet(h[l]) \subseteq I
        BY <1>0
      <4>3. ({l} \cup ToSet(h[l])) \cap ({d} \cup ToSet(h[d])) = {}
        BY <4>1, <1>0
      <4>4. ({l} \cup ToSet(h[l])) \cap ({s} \cup ToSet(h[s])) = {}
        BY <4>1, <1>0
      <4> QED BY <4>2, <4>3, <4>4
    <3>2. l \notin M /\ ToSet(h[l]) \cap M = {}
      BY <2>2
    <3>3. \A n \in {l} \cup ToSet(h[l]) : F[n] = f[n]
      BY <3>1, <3>2
    <3>4. Chain(f, l, h[l]) /\ IsInjective(h[l])
      BY DEF Linked
    <3>5. Chain(F, l, h[l])
      BY <3>1, <3>3, <3>4, SameChain
    <3> QED BY <1>2, <2>2, <3>4, <3>5
  <2> QED BY <2>1, <2>2
<1>4. ASSUME NEW l \in H, NEW m \in H, l # m
      PROVE  ToSet(k[l]) \cap ToSet(k[m]) = {}
  <2>1. \A i \in H \ {d, s} : /\ ToSet(k[i]) = ToSet(h[i])
                              /\ ToSet(k[i]) \cap (ToSet(x) \cup ToSet(y)) = {}
    <3>1. ASSUME NEW i \in H \ {d, s}
          PROVE  ToSet(h[i]) \cap (ToSet(h[d]) \cup ToSet(h[s]) \cup M) = {}
      <4>1. ToSet(h[i]) \cap ToSet(h[d]) = {} /\ ToSet(h[i]) \cap ToSet(h[s]) = {}
        BY DEF Linked
      <4> QED BY <4>1
    <3> QED BY <1>2, <3>1
  <2>2. CASE l \in {d, s} /\ m \in {d, s}
    BY <1>2, <1>4, <2>2
  <2>3. CASE l \notin {d, s} /\ m \notin {d, s}
    <3>1. ToSet(h[l]) \cap ToSet(h[m]) = {}
      BY <1>4 DEF Linked
    <3> QED BY <2>1, <2>3, <3>1
  <2>4. CASE (l \in {d, s}) # (m \in {d, s})
    BY <1>2, <2>1, <2>4
  <2> QED BY <2>2, <2>3, <2>4
<1>5. ASSUME NEW n \in I, \A l \in H : n \notin ToSet(k[l])
      PROVE  F[n] = n
  <2>1. n \notin ToSet(x) \cup ToSet(y) /\ \A l \in H \ {d, s} : n \notin ToSet(h[l])
    BY <1>2, <1>5
  <2>2. CASE n \in ToSet(h[d]) \cup ToSet(h[s]) \cup M
    BY <2>1, <2>2
  <2>3. CASE n \notin ToSet(h[d]) \cup ToSet(h[s]) \cup M
    <3>1. \A l \in H : n \notin ToSet(h[l])
      BY <2>1, <2>3
    <3>2. f[n] = n /\ n \notin {d, s}
      BY <3>1 DEF Linked
    <3> QED BY <2>3, <3>2
  <2> QED BY <2>2, <2>3
<1> QED BY <1>1, <1>2, <1>3, <1>4, <1>5 DEF Linked

\* rl_splice, on the pointers in both directions; the move of a node from the
\* list it is in to the end of d.
Splice(p, a, b) ==
  [next |-> Swapped(p.next, a, b), prev |-> Swapped(p.prev, p.next[a], p.next[b])]

Unlinked(p, n) == Splice(p, n, p.prev[n])
Pushed(p, d, n) == Splice(p, p.prev[d], n)

\* The item a is the k-th of list l, which is v without it; the item m, in no
\* list, is to stand behind a, the k-th node of l, which is u then.
Taking(f, g, h, H, I, l, v, k, a) ==
  /\ H \cap I = {} /\ Linked(f, g, h, H, I) /\ l \in H
  /\ v \in Seq(I) /\ Drops(v, h[l], k) /\ a = h[l][k]

Putting(f, g, h, H, I, l, m, u, k, a) ==
  /\ H \cap I = {} /\ Linked(f, g, h, H, I) /\ l \in H
  /\ m \in I /\ \A d \in H : m \notin ToSet(h[d])
  /\ u \in Seq(I) /\ Merges(u, h[l], <<>>, m, k) /\ a = Nth(l, h[l], k)

\* rlist_remove of a node of a list.
LEMMA RemoveLinked ==
  ASSUME NEW H, NEW I, NEW f, NEW g, NEW h, NEW l, NEW v, NEW k, NEW a,
         Taking(f, g, h, H, I, l, v, k, a)
  PROVE  /\ a \in I /\ g[a] \in H \cup I
         /\ IsInjective(v) /\ ToSet(v) = ToSet(h[l]) \ {a}
         /\ Linked(Swapped(f, a, g[a]), Swapped(g, f[a], f[g[a]]), PutOne(h, l, v), H, I)
<1> USE DEF Taking
<1>1. PICK w, F, G : w = h[l] /\ F = Swapped(f, a, g[a]) /\ G = Swapped(g, f[a], f[g[a]])
  OBVIOUS
<1>2. /\ w \in Seq(I) /\ w \in Seq(H \cup I) /\ ToSet(w) \subseteq I /\ l \notin ToSet(w)
      /\ IsInjective(w) /\ Chain(f, l, w) /\ l \in H \cup I /\ v \in Seq(H \cup I)
      /\ BothWays(f, g, H \cup I) /\ Drops(v, w, k) /\ a = w[k]
  <2>1. Linked(f, g, h, H, I) /\ H \cap I = {}
    OBVIOUS
  <2>2. /\ h[l] \in Seq(I) /\ h[l] \in Seq(H \cup I)
        /\ ToSet(h[l]) \subseteq I /\ l \notin ToSet(h[l]) /\ l \in H \cup I
    BY ONLY <2>1, Rings, l \in H
  <2>3. IsInjective(h[l]) /\ Chain(f, l, h[l]) /\ BothWays(f, g, H \cup I)
    BY DEF Linked
  <2> QED BY <1>1, <2>2, <2>3
<1>3. IsInjective(v) /\ ToSet(v) = ToSet(w) \ {a} /\ a \in ToSet(w)
  <2>1. IsInjective(v) /\ ToSet(v) = ToSet(w) \ {w[k]}
    BY <1>2, DropElement
  <2>2. w[k] \in ToSet(w)
    BY <1>2 DEF ToSet, Drops
  <2> QED BY <1>2, <2>1, <2>2
<1>4. a \in I /\ a \in H \cup I /\ g[a] \in H \cup I
  BY <1>2, <1>3 DEF BothWays
<1>5. BothWays(F, G, H \cup I)
  BY <1>1, <1>2, <1>4, SpliceBothWays
<1>6. /\ Chain(F, l, v) /\ F[a] = a
      /\ \A n \in H \cup I : n \notin {l} \cup ToSet(w) => F[n] = f[n]
  <2>1. /\ F = Swapped(f, w[k], g[w[k]]) /\ Drops(v, w, k) /\ a = w[k]
        /\ BothWays(f, g, H \cup I) /\ Chain(f, l, w) /\ IsInjective(w) /\ l \notin ToSet(w)
        /\ w \in Seq(H \cup I) /\ v \in Seq(H \cup I) /\ l \in H \cup I
    BY <1>1, <1>2
  <2> QED BY ONLY <2>1, RemoveChain
<1>7. Linked(F, G, [h EXCEPT ![l] = v, ![l] = v], H, I)
  <2>1. ToSet(v) \cup ToSet(v) \subseteq ToSet(h[l]) \cup ToSet(h[l]) \cup {}
    BY <1>1, <1>3
  <2>2. \A n \in I : n \in ToSet(h[l]) \cup ToSet(h[l]) \cup {} /\ n \notin ToSet(v) \cup ToSet(v)
                        => F[n] = n
    BY <1>1, <1>3, <1>6
  <2>3. \A n \in H \cup I : n \notin {l, l} \cup ToSet(h[l]) \cup ToSet(h[l]) \cup {} => F[n] = f[n]
    BY <1>1, <1>6
  <2> QED BY <1>3, <1>5, <1>6, <2>1, <2>2, <2>3, OthersLinked
<1>8. [h EXCEPT ![l] = v, ![l] = v] = PutOne(h, l, v)
  BY DEF Linked, PutOne
<1> QED BY <1>1, <1>3, <1>4, <1>7, <1>8

\* rl_splice of an item in no list, behind the k-th node.
LEMMA InsertLinked ==
  ASSUME NEW H, NEW I, NEW f, NEW g, NEW h, NEW l, NEW m, NEW u, NEW k, NEW a,
         Putting(f, g, h, H, I, l, m, u, k, a)
  PROVE  /\ a \in H \cup I /\ IsInjective(u) /\ ToSet(u) = ToSet(h[l]) \cup {m}
         /\ Linked(Swapped(f, a, m), Swapped(g, f[a], f[m]), PutOne(h, l, u), H, I)
<1> USE DEF Putting
<1>1. PICK w, v, F, G : w = h[l] /\ v = <<>> /\ F = Swapped(f, a, m) /\ G = Swapped(g, f[a], f[m])
  OBVIOUS
<1>2. /\ w \in Seq(I) /\ w \in Seq(H \cup I) /\ ToSet(w) \subseteq I /\ l \notin ToSet(w)
      /\ IsInjective(w) /\ Chain(f, l, w) /\ l \in H \cup I /\ u \in Seq(H \cup I)
      /\ BothWays(f, g, H \cup I) /\ f \in [H \cup I -> H \cup I]
      /\ Merges(u, w, v, m, k) /\ a = Nth(l, w, k)
  <2>1. Linked(f, g, h, H, I) /\ H \cap I = {}
    OBVIOUS
  <2>2. /\ h[l] \in Seq(I) /\ h[l] \in Seq(H \cup I)
        /\ ToSet(h[l]) \subseteq I /\ l \notin ToSet(h[l]) /\ l \in H \cup I
    BY ONLY <2>1, Rings, l \in H
  <2>3. IsInjective(h[l]) /\ Chain(f, l, h[l]) /\ BothWays(f, g, H \cup I)
        /\ f \in [H \cup I -> H \cup I]
    BY DEF Linked, BothWays
  <2> QED BY <1>1, <2>2, <2>3
<1>3. /\ Len(v) = 0 /\ v \in Seq(H \cup I) /\ ToSet(v) = {} /\ IsInjective(v)
  BY <1>1, EmptyElements
<1>4. Chain(f, m, v)
  <2>1. f[m] = m
    BY DEF Linked
  <2>2. \A i \in 0 .. 0 : Nth(m, v, i) = m /\ Nth(m, v, i + 1) = m
    BY <1>3 DEF Nth
  <2> QED BY <1>3, <2>1, <2>2 DEF Chain
<1>5. /\ m \in H \cup I /\ m \notin ToSet(w) /\ m # l /\ m \notin ToSet(v)
      /\ ToSet(w) \cap ({m} \cup ToSet(v)) = {}
      /\ ({l} \cup ToSet(w)) \cap ({m} \cup ToSet(v)) = {}
  BY <1>1, <1>3
<1>6. IsInjective(u) /\ ToSet(u) = ToSet(w) \cup {m}
  <2>1. /\ w \in Seq(I) /\ IsInjective(w) /\ m \in I
        /\ v \in Seq(I) /\ IsInjective(v) /\ m \notin ToSet(v)
        /\ ToSet(w) \cap ({m} \cup ToSet(v)) = {}
        /\ u \in Seq(I) /\ Merges(u, w, v, m, k)
    BY <1>1, <1>2, <1>3, <1>5, EmptyElements
  <2>2. IsInjective(u) /\ ToSet(u) = ToSet(w) \cup {m} \cup ToSet(v)
    BY ONLY <2>1, MergeElements
  <2> QED BY <1>3, <2>2
<1>7. a \in H \cup I
  <2>1. \A i \in Nat : Nth(l, w, i) \in H \cup I
    BY ONLY <1>2, NthNodes
  <2> QED BY <1>2, <2>1 DEF Merges
<1>8. BothWays(F, G, H \cup I)
  BY <1>1, <1>2, <1>5, <1>7, SpliceBothWays
<1>9. /\ Chain(F, l, u)
      /\ \A x \in H \cup I : x \notin {l, m} \cup ToSet(w) => F[x] = f[x]
  <2>1. Ring(f, H \cup I, l, w) /\ Ring(f, H \cup I, m, v)
    BY <1>2, <1>3, <1>4, <1>5 DEF Ring
  <2>2. F = Swapped(f, Nth(l, w, k), m)
    BY <1>1, <1>2
  <2> QED BY ONLY <1>2, <1>5, <2>1, <2>2, MergeChain
<1>10. Linked(F, G, [h EXCEPT ![l] = u, ![l] = u], H, I)
  <2>1. ToSet(u) \cup ToSet(u) \subseteq ToSet(h[l]) \cup ToSet(h[l]) \cup {m}
    BY <1>1, <1>6
  <2>2. \A x \in I : x \in ToSet(h[l]) \cup ToSet(h[l]) \cup {m} /\ x \notin ToSet(u) \cup ToSet(u)
                        => F[x] = x
    BY <1>1, <1>6
  <2>3. \A x \in H \cup I : x \notin {l, l} \cup ToSet(h[l]) \cup ToSet(h[l]) \cup {m}
                                => F[x] = f[x]
    BY <1>1, <1>9
  <2>4. {m} \in SUBSET I /\ \A x \in {m} : \A d \in H \ {l, l} : x \notin ToSet(h[d])
    OBVIOUS
  <2> QED BY <1>6, <1>8, <1>9, <2>1, <2>2, <2>3, <2>4, OthersLinked
<1>11. [h EXCEPT ![l] = u, ![l] = u] = PutOne(h, l, u)
  BY DEF Linked, PutOne
<1> QED BY <1>1, <1>6, <1>7, <1>10, <1>11

\* The list v in w, behind the k-th element.
Joins(r, w, v, k) ==
  /\ k \in 0 .. Len(w) /\ Len(r) = Len(w) + Len(v)
  /\ \A j \in 1 .. Len(w) + Len(v) :
       r[j] = IF j <= k THEN w[j] ELSE IF j <= k + Len(v) THEN v[j - k] ELSE w[j - Len(v)]

Combining(p, h, H, I, d, s, r, k, a) ==
  /\ H \cap I = {} /\ Linked(p.next, p.prev, h, H, I) /\ d \in H /\ s \in H /\ d # s
  /\ r \in Seq(I) /\ Joins(r, h[d], h[s], k) /\ a = Nth(d, h[d], k)

\* What rlist_append and rlist_prepend are made of: the ring of s is spliced
\* behind the k-th node of d, and s taken out.
LEMMA JoinLinked ==
  ASSUME NEW H, NEW I, NEW p, NEW h, NEW d, NEW s, NEW r, NEW k, NEW a,
         Combining(p, h, H, I, d, s, r, k, a)
  PROVE  Linked(Unlinked(Splice(p, a, s), s).next, Unlinked(Splice(p, a, s), s).prev,
                PutTwo(h, d, r, s, <<>>), H, I)
<1> SUFFICES ASSUME NEW f, NEW g, NEW F, NEW G,
                    H \cap I = {}, Linked(f, g, h, H, I), d \in H, s \in H, d # s, r \in Seq(I),
                    Joins(r, h[d], h[s], k), a = Nth(d, h[d], k), F = Swapped(f, a, s),
                    G = Swapped(g, f[a], f[s])
             PROVE  Linked(Swapped(F, s, G[s]), Swapped(G, F[s], F[G[s]]),
                           PutTwo(h, d, r, s, <<>>), H, I)
  BY DEF Combining, Unlinked, Splice
<1>1. PICK w, v, n, m, E, D :
        /\ w = h[d] /\ v = h[s] /\ n = Len(w) /\ m = Len(v)
        /\ E = Swapped(F, s, G[s]) /\ D = Swapped(G, F[s], F[G[s]])
  OBVIOUS
<1> DEFINE N == H \cup I
<1>2. /\ w \in Seq(I) /\ w \in Seq(N) /\ ToSet(w) \subseteq I /\ d \notin ToSet(w)
      /\ v \in Seq(I) /\ v \in Seq(N) /\ ToSet(v) \subseteq I /\ s \notin ToSet(v)
      /\ IsInjective(w) /\ Chain(f, d, w) /\ IsInjective(v) /\ Chain(f, s, v)
      /\ d \in N /\ s \in N /\ BothWays(f, g, N) /\ f \in [N -> N] /\ g \in [N -> N]
      /\ ({d} \cup ToSet(w)) \cap ({s} \cup ToSet(v)) = {}
      /\ Joins(r, w, v, k) /\ a = Nth(d, w, k) /\ r \in Seq(N)
  <2>1. Linked(f, g, h, H, I) /\ H \cap I = {}
    OBVIOUS
  <2>2. \A l \in {d, s} : /\ h[l] \in Seq(I) /\ h[l] \in Seq(N)
                          /\ ToSet(h[l]) \subseteq I /\ l \notin ToSet(h[l]) /\ l \in N
    BY ONLY <2>1, Rings, d \in H, s \in H
  <2>3. ({d} \cup ToSet(h[d])) \cap ({s} \cup ToSet(h[s])) = {}
    BY ONLY <2>1, Rings, d \in H, s \in H, d # s
  <2>4. /\ IsInjective(h[d]) /\ Chain(f, d, h[d]) /\ IsInjective(h[s]) /\ Chain(f, s, h[s])
        /\ BothWays(f, g, N) /\ f \in [N -> N] /\ g \in [N -> N]
    BY DEF Linked, BothWays
  <2> QED BY <1>1, <2>2, <2>3, <2>4
<1>3. /\ n \in Nat /\ m \in Nat /\ k \in 0 .. n /\ k \in Nat /\ Len(r) = n + m
      /\ \A j \in 1 .. n + m :
           r[j] = IF j <= k THEN w[j] ELSE IF j <= k + m THEN v[j - k] ELSE w[j - m]
  <2>1. n \in Nat /\ m \in Nat
    BY <1>1, <1>2
  <2>2. /\ k \in 0 .. n /\ Len(r) = n + m
        /\ \A j \in 1 .. n + m :
             r[j] = IF j <= k THEN w[j] ELSE IF j <= k + m THEN v[j - k] ELSE w[j - m]
    BY ONLY <1>1, Joins(r, w, v, k) DEF Joins
  <2> QED BY <2>1, <2>2
<1>4. PICK u : u = [j \in 1 .. n + m + 1 |-> IF j <= k THEN w[j]
                                             ELSE IF j <= k + m THEN v[j - k]
                                             ELSE IF j = k + m + 1 THEN s
                                             ELSE w[j - m - 1]]
  OBVIOUS
<1>5. u \in Seq(N) /\ Len(u) = n + m + 1
  <2>1. ASSUME NEW j \in 1 .. n + m + 1
        PROVE  u[j] \in N
    <3>1. (j <= k => j \in 1 .. n) /\ (j > k /\ j <= k + m => j - k \in 1 .. m)
          /\ (j > k + m /\ j # k + m + 1 => j - m - 1 \in 1 .. n)
      BY <1>3
    <3>2. /\ \A i \in 1 .. n : w[i] \in N
          /\ \A i \in 1 .. m : v[i] \in N
      BY <1>1, <1>2
    <3>3. CASE j <= k
      BY <1>4, <3>1, <3>2, <3>3
    <3>4. CASE j > k /\ j <= k + m
      <4>1. ~ (j <= k)
        BY <1>3, <3>4
      <4> QED BY <1>4, <3>1, <3>2, <3>4, <4>1
    <3>5. CASE j = k + m + 1
      <4>1. ~ (j <= k) /\ ~ (j <= k + m)
        BY <1>3, <3>5
      <4> QED BY <1>2, <1>4, <3>5, <4>1
    <3>6. CASE j > k + m /\ j # k + m + 1
      <4>1. ~ (j <= k) /\ ~ (j <= k + m)
        BY <1>3, <3>6
      <4> QED BY <1>4, <3>1, <3>2, <3>6, <4>1
    <3> QED BY <1>3, <3>3, <3>4, <3>5, <3>6
  <2>2. u \in [1 .. n + m + 1 -> N]
    BY <1>4, <2>1
  <2> QED BY <1>3, <2>2
<1>6. Merges(u, w, v, s, k)
  BY <1>1, <1>3, <1>4, <1>5 DEF Merges
<1>7. IsInjective(u) /\ ToSet(u) = ToSet(w) \cup {s} \cup ToSet(v)
  <2>1. /\ w \in Seq(N) /\ IsInjective(w) /\ s \in N
        /\ v \in Seq(N) /\ IsInjective(v) /\ s \notin ToSet(v)
        /\ ToSet(w) \cap ({s} \cup ToSet(v)) = {}
        /\ u \in Seq(N) /\ Merges(u, w, v, s, k)
    BY <1>2, <1>5, <1>6
  <2> HIDE DEF N
  <2> QED BY ONLY <2>1, MergeElements
<1>8. a \in N
  <2>1. \A i \in Nat : Nth(d, w, i) \in N
    BY ONLY <1>2, NthNodes
  <2> QED BY <1>2, <1>3, <2>1
<1>9. BothWays(F, G, N)
  BY <1>2, <1>8, SpliceBothWays
<1>10. /\ Chain(F, d, u)
       /\ \A x \in N : x \notin {d, s} \cup ToSet(w) => F[x] = f[x]
  <2>1. Ring(f, N, d, w) /\ Ring(f, N, s, v)
    BY <1>2 DEF Ring
  <2>2. F = Swapped(f, Nth(d, w, k), s) /\ ({d} \cup ToSet(w)) \cap ({s} \cup ToSet(v)) = {}
    BY <1>2
  <2> QED BY ONLY <1>5, <1>6, <2>1, <2>2, MergeChain
<1>11. G[s] \in N
  BY <1>2, <1>9 DEF BothWays
<1>12. BothWays(E, D, N)
  <2>1. E = Swapped(F, s, G[s]) /\ D = Swapped(G, F[s], F[G[s]]) /\ s \in N
    BY <1>1, <1>2
  <2> QED BY ONLY <2>1, <1>9, <1>11, SpliceBothWays
<1>13. k + m + 1 \in 1 .. Len(u) /\ u[k + m + 1] = s /\ Len(r) = Len(u) - 1 /\ d \notin ToSet(u)
  <2>1. /\ k + m + 1 \in 1 .. n + m + 1 /\ ~ (k + m + 1 <= k) /\ ~ (k + m + 1 <= k + m)
        /\ n + m + 1 - 1 = n + m
    BY <1>3
  <2>2. d \notin ToSet(u)
    BY <1>2, <1>7
  <2> QED BY <1>3, <1>4, <1>5, <2>1, <2>2
<1>14. \A j \in 1 .. Len(u) - 1 : r[j] = IF j < k + m + 1 THEN u[j] ELSE u[j + 1]
  <2>1. ASSUME NEW j \in 1 .. n + m
        PROVE  r[j] = IF j < k + m + 1 THEN u[j] ELSE u[j + 1]
    <3>1. r[j] = IF j <= k THEN w[j] ELSE IF j <= k + m THEN v[j - k] ELSE w[j - m]
      BY <1>3
    <3>2. j \in 1 .. n + m + 1 /\ j + 1 \in 1 .. n + m + 1
      BY <1>3
    <3>3. CASE j <= k
      <4>1. j < k + m + 1
        BY <1>3, <3>3
      <4> QED BY <1>4, <3>1, <3>2, <3>3, <4>1
    <3>4. CASE j > k /\ j <= k + m
      <4>1. j < k + m + 1 /\ ~ (j <= k)
        BY <1>3, <3>4
      <4> QED BY <1>4, <3>1, <3>2, <3>4, <4>1
    <3>5. CASE j > k + m
      <4>1. PICK i : i = j + 1
        OBVIOUS
      <4>2. /\ ~ (j < k + m + 1) /\ ~ (j <= k) /\ ~ (j <= k + m) /\ i \in 1 .. n + m + 1
            /\ ~ (i <= k) /\ ~ (i <= k + m) /\ i # k + m + 1 /\ i - m - 1 = j - m
        BY <1>3, <3>2, <3>5, <4>1
      <4>3. r[j] = w[j - m]
        BY <3>1, <4>2
      <4>4. u[i] = w[i - m - 1]
        BY <1>4, <4>2
      <4> QED BY <4>1, <4>2, <4>3, <4>4
    <3> QED BY <1>3, <3>3, <3>4, <3>5
  <2>2. Len(u) - 1 = n + m
    BY <1>3, <1>5
  <2> QED BY <2>1, <2>2
<1>15. PICK q : q = k + m + 1 /\ Drops(r, u, q) /\ u[q] = s
  BY <1>13, <1>14 DEF Drops
<1>16. IsInjective(r) /\ ToSet(r) = ToSet(w) \cup ToSet(v)
  <2>1. IsInjective(r) /\ ToSet(r) = ToSet(u) \ {u[q]}
    BY ONLY <1>2, <1>5, <1>7, <1>15, DropElement
  <2> QED BY <1>2, <1>7, <1>15, <2>1
<1>17. /\ Chain(E, d, r) /\ E[s] = s
       /\ \A x \in N : x \notin {d} \cup ToSet(u) => E[x] = F[x]
  <2>1. /\ E = Swapped(F, u[q], G[u[q]]) /\ d \notin ToSet(u) /\ Drops(r, u, q)
        /\ BothWays(F, G, N) /\ Chain(F, d, u) /\ IsInjective(u)
        /\ u \in Seq(N) /\ r \in Seq(N) /\ d \in N
    BY <1>1, <1>2, <1>5, <1>7, <1>9, <1>10, <1>13, <1>15
  <2>2. /\ Chain(E, d, r) /\ E[u[q]] = u[q]
        /\ \A x \in N : x \notin {d} \cup ToSet(u) => E[x] = F[x]
    BY ONLY <2>1, RemoveChain
  <2> QED BY <1>15, <2>2
<1>18. PICK e : /\ e = <<>> /\ Chain(E, s, e) /\ ToSet(e) = {} /\ IsInjective(e) /\ e \in Seq(I)
  <2>0. PICK e : e = <<>>
    OBVIOUS
  <2>1. ToSet(e) = {} /\ IsInjective(e) /\ e \in Seq(I) /\ Len(e) = 0
    BY <2>0, EmptyElements
  <2>2. \A i \in 0 .. 0 : Nth(s, e, i) = s /\ Nth(s, e, i + 1) = s
    BY <2>1 DEF Nth
  <2>3. Chain(E, s, e)
    BY <1>17, <2>1, <2>2 DEF Chain
  <2> QED BY <2>0, <2>1, <2>3
<1>19. Linked(E, D, [h EXCEPT ![d] = r, ![s] = e], H, I)
  <2>1. /\ Linked(f, g, h, H, I) /\ H \cap I = {} /\ d \in H /\ s \in H /\ d # s
        /\ r \in Seq(I) /\ e \in Seq(I) /\ BothWays(E, D, H \cup I)
        /\ IsInjective(r) /\ IsInjective(e) /\ Chain(E, d, r) /\ Chain(E, s, e)
        /\ ToSet(r) \cap ToSet(e) = {}
    BY <1>12, <1>16, <1>17, <1>18
  <2>2. PICK M \in SUBSET I : M = {}
    OBVIOUS
  <2>3. /\ ToSet(r) \cup ToSet(e) \subseteq ToSet(h[d]) \cup ToSet(h[s]) \cup M
        /\ \A x \in M : \A l \in H \ {d, s} : x \notin ToSet(h[l])
    BY <1>1, <1>16, <1>18, <2>2
  <2>4. \A x \in I : x \in ToSet(h[d]) \cup ToSet(h[s]) \cup M /\ x \notin ToSet(r) \cup ToSet(e)
                        => E[x] = x
    BY <1>1, <1>16, <2>2
  <2>5. \A x \in H \cup I : x \notin {d, s} \cup ToSet(h[d]) \cup ToSet(h[s]) \cup M => E[x] = f[x]
    BY <1>1, <1>7, <1>10, <1>17, <2>2
  <2> QED BY ONLY <2>1, <2>3, <2>4, <2>5, OthersLinked
<1> QED BY <1>1, <1>18, <1>19 DEF PutTwo

\* The ring of a list is closed in both directions.
LEMMA RingClosed ==
  ASSUME NEW N, NEW f, NEW l \in N, NEW w \in Seq(N), Chain(f, l, w)
  PROVE  \A n \in {l} \cup ToSet(w) : f[n] \in {l} \cup ToSet(w)
<1>1. PICK m \in Nat : m = Len(w)
  OBVIOUS
<1>2. ASSUME NEW n \in {l} \cup ToSet(w)
      PROVE  \E i \in 0 .. m : n = Nth(l, w, i)
  <2>1. CASE n = l
    BY <1>1, <2>1, NthNodes
  <2>2. CASE n \in ToSet(w)
    <3>1. PICK i \in 1 .. m : n = w[i]
      BY <1>1, <2>2 DEF ToSet
    <3> QED BY <1>1, <3>1 DEF Nth
  <2> QED BY <1>2, <2>1, <2>2
<1>3. ASSUME NEW i \in 0 .. m
      PROVE  Nth(l, w, i + 1) \in {l} \cup ToSet(w)
  <2>1. CASE i = m
    BY <1>1, <2>1, NthNodes
  <2>2. CASE i # m
    <3>1. i + 1 \in 0 .. m
      BY <2>2
    <3> QED BY <1>1, <3>1, NthNodes
  <2> QED BY <2>1, <2>2
<1>4. \A i \in 0 .. m : f[Nth(l, w, i)] = Nth(l, w, i + 1)
  BY <1>1 DEF Chain
<1>5. ASSUME NEW n \in {l} \cup ToSet(w)
      PROVE  f[n] \in {l} \cup ToSet(w)
  <2>1. PICK i \in 0 .. m : n = Nth(l, w, i)
    BY <1>2
  <2> QED BY <1>3, <1>4, <2>1
<1> QED BY <1>5

Turning(f, g, h, H, I, l, R) ==
  H \cap I = {} /\ Linked(f, g, h, H, I) /\ l \in H /\ R = {l} \cup ToSet(h[l])

Turned(f, g, R, N) == [n \in N |-> IF n \in R THEN g[n] ELSE f[n]]

\* rlist_reverse.
LEMMA TurnLinked ==
  ASSUME NEW H, NEW I, NEW f, NEW g, NEW h, NEW l, NEW R, Turning(f, g, h, H, I, l, R)
  PROVE  Linked(Turned(f, g, R, H \cup I), Turned(g, f, R, H \cup I), PutOne(h, l, Reverse(h[l])),
                H, I)
<1> USE DEF Turning
<1>1. PICK w, v, F, G :
        /\ w = h[l] /\ v = Reverse(w)
        /\ F = [n \in H \cup I |-> IF n \in R THEN g[n] ELSE f[n]]
        /\ G = [n \in H \cup I |-> IF n \in R THEN f[n] ELSE g[n]]
        /\ F = Turned(f, g, R, H \cup I) /\ G = Turned(g, f, R, H \cup I)
  BY DEF Turned
<1> DEFINE N == H \cup I
<1>2. /\ w \in Seq(I) /\ w \in Seq(N) /\ ToSet(w) \subseteq I /\ l \notin ToSet(w) /\ l \in N
      /\ IsInjective(w) /\ Chain(f, l, w) /\ BothWays(f, g, N)
  <2>1. Linked(f, g, h, H, I) /\ H \cap I = {}
    OBVIOUS
  <2>2. /\ h[l] \in Seq(I) /\ h[l] \in Seq(H \cup I)
        /\ ToSet(h[l]) \subseteq I /\ l \notin ToSet(h[l]) /\ l \in H \cup I
    BY ONLY <2>1, Rings, l \in H
  <2>3. IsInjective(h[l]) /\ Chain(f, l, h[l]) /\ BothWays(f, g, H \cup I)
    BY DEF Linked
  <2> QED BY <1>1, <2>2, <2>3
<1>3. /\ v \in Seq(I) /\ v \in Seq(N) /\ ToSet(v) = ToSet(w) /\ IsInjective(v)
  <2>1. v \in Seq(I) /\ ToSet(v) = ToSet(w) /\ IsInjective(v)
    BY <1>1, <1>2, ReverseElements
  <2> QED BY <2>1
<1>4. Chain(g, l, v)
  BY <1>1, <1>2, ReverseChain
<1>5. /\ \A n \in R : f[n] \in R /\ g[n] \in R
      /\ R \subseteq N
  <2>1. \A n \in R : f[n] \in R
    BY <1>1, <1>2, RingClosed
  <2>2. \A n \in {l} \cup ToSet(v) : g[n] \in {l} \cup ToSet(v)
    BY <1>2, <1>3, <1>4, RingClosed
  <2> QED BY <1>1, <1>2, <1>3, <2>1, <2>2
<1>6. BothWays(F, G, N)
  <2>1. f \in [N -> N] /\ g \in [N -> N] /\ \A n \in N : g[f[n]] = n /\ f[g[n]] = n
    BY <1>2 DEF BothWays
  <2>2. \A n \in N \ R : f[n] \notin R /\ g[n] \notin R
    BY <1>5, <2>1
  <2>3. F \in [N -> N] /\ G \in [N -> N]
    BY <1>1, <2>1
  <2>4. ASSUME NEW n \in N
        PROVE  G[F[n]] = n /\ F[G[n]] = n
    <3>1. CASE n \in R
      BY <1>1, <1>5, <2>1, <3>1
    <3>2. CASE n \notin R
      BY <1>1, <2>1, <2>2, <3>2
    <3> QED BY <3>1, <3>2
  <2> QED BY <2>3, <2>4 DEF BothWays
<1>7. Chain(F, l, v)
  <2>1. \A n \in {l} \cup ToSet(v) : F[n] = g[n]
    BY <1>1, <1>3, <1>5
  <2> QED BY <1>2, <1>3, <1>4, <2>1, SameChain
<1>8. Linked(F, G, [h EXCEPT ![l] = v, ![l] = v], H, I)
  <2>1. ToSet(v) \cup ToSet(v) \subseteq ToSet(h[l]) \cup ToSet(h[l]) \cup {}
    BY <1>1, <1>3
  <2>2. \A n \in I : n \in ToSet(h[l]) \cup ToSet(h[l]) \cup {} /\ n \notin ToSet(v) \cup ToSet(v)
                        => F[n] = n
    BY <1>1, <1>3
  <2>3. \A n \in H \cup I : n \notin {l, l} \cup ToSet(h[l]) \cup ToSet(h[l]) \cup {} => F[n] = f[n]
    BY <1>1
  <2> QED BY <1>3, <1>6, <1>7, <2>1, <2>2, <2>3, OthersLinked
<1>9. [h EXCEPT ![l] = v, ![l] = v] = PutOne(h, l, v)
  BY <1>1 DEF Linked, PutOne
<1> QED BY <1>1, <1>8, <1>9

\* A walk along f that stays at l when it is back there.
IsWalk(at, f, l, c) ==
  at = [n \in 0 .. c |-> IF n = 0 THEN f[l] ELSE IF at[n - 1] = l THEN l ELSE f[at[n - 1]]]

\* Along a ring there is one, and it meets the nodes of the list.
LEMMA WalkAlong ==
  ASSUME NEW N, NEW f, NEW l, NEW w, NEW c, Chain(f, l, w), l \in N, w \in Seq(N),
         l \notin ToSet(w), c \in Nat, Len(w) <= c
  PROVE  /\ \E at : IsWalk(at, f, l, c)
         /\ \A at : IsWalk(at, f, l, c) =>
              /\ \A n \in 0 .. c : at[n] = Nth(l, w, n + 1)
              /\ [i \in 1 .. Cardinality({n \in DOMAIN at : at[n] # l}) |-> at[i - 1]] = w
<1>1. PICK m \in Nat : m = Len(w) /\ m <= c
  OBVIOUS
<1>2. /\ DOMAIN w = 1 .. m /\ w = [i \in 1 .. m |-> w[i]] /\ \A i \in 1 .. m : w[i] # l
  BY <1>1 DEF ToSet
<1> DEFINE st(n) == Nth(l, w, n + 1)
<1>3. /\ st(0) = f[l]
      /\ \A n \in Nat : st(n) = IF n + 1 \in 1 .. m THEN w[n + 1] ELSE l
      /\ \A n \in Nat : st(n) = l <=> n >= m
  <2>1. \A n \in Nat : st(n) = IF n + 1 \in 1 .. m THEN w[n + 1] ELSE l
    BY <1>1 DEF Nth
  <2>2. ASSUME NEW n \in Nat
        PROVE  st(n) = l <=> n >= m
    <3>1. n + 1 \in 1 .. m <=> ~ (n >= m)
      BY <1>1
    <3> QED BY <1>2, <2>1, <3>1
  <2>3. f[Nth(l, w, 0)] = Nth(l, w, 0 + 1)
    <3>1. 0 \in 0 .. m
      BY <1>1
    <3> QED BY <1>1, <3>1 DEF Chain
  <2> QED BY <2>1, <2>2, <2>3, NthNodes
<1>4. ASSUME NEW n \in Nat \ {0}
      PROVE  st(n) = IF st(n - 1) = l THEN l ELSE f[st(n - 1)]
  <2>1. n - 1 \in Nat /\ n - 1 + 1 = n /\ n \in Nat
    OBVIOUS
  <2>2. CASE n - 1 >= m
    BY <1>1, <1>3, <2>1, <2>2
  <2>3. CASE ~ (n - 1 >= m)
    <3>1. n \in 0 .. m
      BY <1>1, <2>3
    <3>2. f[Nth(l, w, n)] = Nth(l, w, n + 1)
      BY <1>1, <3>1 DEF Chain
    <3>3. st(n - 1) = Nth(l, w, n) /\ st(n - 1) # l
      BY <1>3, <2>1, <2>3
    <3> QED BY <3>2, <3>3
  <2> QED BY <2>2, <2>3
<1>5. \E at : IsWalk(at, f, l, c)
  <2>1. PICK at : at = [n \in 0 .. c |-> st(n)]
    OBVIOUS
  <2>2. ASSUME NEW n \in 0 .. c
        PROVE  at[n] = IF n = 0 THEN f[l] ELSE IF at[n - 1] = l THEN l ELSE f[at[n - 1]]
    <3>1. CASE n = 0
      BY <1>3, <2>1, <3>1
    <3>2. CASE n # 0
      <4>1. n \in Nat \ {0} /\ n - 1 \in 0 .. c
        BY <3>2
      <4>2. at[n - 1] = st(n - 1) /\ at[n] = st(n)
        BY <2>1, <4>1
      <4> QED BY <1>4, <3>2, <4>1, <4>2
    <3> QED BY <3>1, <3>2
  <2>3. at = [n \in 0 .. c |-> IF n = 0 THEN f[l] ELSE IF at[n - 1] = l THEN l ELSE f[at[n - 1]]]
    BY <2>1, <2>2
  <2> QED BY <2>3 DEF IsWalk
<1>6. ASSUME NEW at, IsWalk(at, f, l, c)
      PROVE  /\ \A n \in 0 .. c : at[n] = st(n)
             /\ [i \in 1 .. Cardinality({n \in DOMAIN at : at[n] # l}) |-> at[i - 1]] = w
  <2>1. /\ DOMAIN at = 0 .. c
        /\ \A n \in 0 .. c :
             at[n] = IF n = 0 THEN f[l] ELSE IF at[n - 1] = l THEN l ELSE f[at[n - 1]]
    BY <1>6 DEF IsWalk
  <2>2. \A n \in 0 .. c : at[n] = st(n)
    <3> DEFINE Bad == {n \in 0 .. c : at[n] # st(n)}
    <3>1. SUFFICES ASSUME Bad # {} PROVE FALSE
      OBVIOUS
    <3>2. PICK n \in Bad : \A j \in Bad : n <= j
      <4>1. Bad \in SUBSET Nat
        OBVIOUS
      <4> HIDE DEF Bad
      <4> QED BY <3>1, <4>1, LeastNat
    <3>3. n \in 0 .. c /\ n # 0
      BY <1>3, <2>1
    <3>4. n - 1 \in 0 .. c /\ n \in Nat \ {0} /\ ~ (n <= n - 1)
      BY <3>3
    <3>5. at[n - 1] = st(n - 1)
      BY <3>2, <3>4
    <3>6. at[n] = st(n)
      BY <1>4, <2>1, <3>3, <3>4, <3>5
    <3> QED BY <3>6
  <2>3. {n \in DOMAIN at : at[n] # l} = 0 .. m - 1
    <3>1. ASSUME NEW n \in 0 .. c
          PROVE  at[n] # l <=> n \in 0 .. m - 1
      <4>1. st(n) = l <=> n >= m
        BY <1>3
      <4>2. at[n] = st(n)
        BY <2>2
      <4>3. n >= m <=> n \notin 0 .. m - 1
        BY <1>1
      <4> QED BY <4>1, <4>2, <4>3
    <3>2. 0 .. m - 1 \subseteq 0 .. c
      BY <1>1
    <3> QED BY <2>1, <3>1, <3>2
  <2>4. Cardinality(0 .. m - 1) = m
    <3>1. Cardinality(0 .. m - 1) = IF 0 > m - 1 THEN 0 ELSE m - 1 - 0 + 1
      BY FS_Interval
    <3> QED BY <1>1, <3>1
  <2>5. ASSUME NEW i \in 1 .. m
        PROVE  at[i - 1] = w[i]
    <3>1. i - 1 \in 0 .. c /\ i - 1 \in Nat /\ i - 1 + 1 = i
      BY <1>1
    <3> QED BY <1>3, <2>2, <3>1
  <2>6. PICK q : q = [i \in 1 .. m |-> at[i - 1]]
    OBVIOUS
  <2>7. q = w
    BY <1>2, <2>5, <2>6
  <2>8. Cardinality({n \in DOMAIN at : at[n] # l}) = m
    BY <2>3, <2>4
  <2> QED BY <2>2, <2>6, <2>7, <2>8
<1> QED BY <1>5, <1>6

\* The node before a head is the last one of its list.
Closes(g, h, l) == g[l] = Nth(l, h[l], Len(h[l]))

LEMMA LastNode ==
  ASSUME NEW H, NEW I, NEW f, NEW g, NEW h, NEW l, H \cap I = {}, Linked(f, g, h, H, I),
         l \in H
  PROVE  Closes(g, h, l)
<1>0. PICK w : w = h[l]
  OBVIOUS
<1>1. PICK n \in Nat : w = h[l] /\ n = Len(w)
  BY <1>0 DEF Linked
<1>2. /\ w \in Seq(H \cup I) /\ l \in H \cup I /\ Chain(f, l, w) /\ BothWays(f, g, H \cup I)
  <2>1. Linked(f, g, h, H, I) /\ H \cap I = {}
    OBVIOUS
  <2>2. h[l] \in Seq(H \cup I) /\ l \in H \cup I
    BY ONLY <2>1, Rings, l \in H
  <2>3. Chain(f, l, h[l]) /\ BothWays(f, g, H \cup I)
    BY DEF Linked
  <2> QED BY <1>1, <2>2, <2>3
<1>3. f[Nth(l, w, n)] = Nth(l, w, n + 1)
  BY <1>1, <1>2 DEF Chain
<1>4. Nth(l, w, n + 1) = l /\ Nth(l, w, n) \in H \cup I
  BY <1>1, <1>2, NthNodes
<1> QED BY <1>1, <1>2, <1>3, <1>4 DEF BothWays, Closes

\* An element taken out of the middle, and one put at the end.
LEMMA Middle ==
  ASSUME NEW S, NEW y \in Seq(S), NEW z \in S, NEW t \in Seq(S)
  PROVE  /\ Drops(y \o t, y \o (<<z>> \o t), Len(y) + 1)
         /\ (y \o (<<z>> \o t))[Len(y) + 1] = z
         /\ Append(y, z) \o t = y \o (<<z>> \o t)
<1>1. PICK m \in Nat, n \in Nat : m = Len(y) /\ n = Len(t)
  OBVIOUS
<1>2. PICK c, r, q, e : /\ c = <<z>> \o t /\ r = y \o c /\ q = y \o t /\ e = Append(y, z) \o t
  OBVIOUS
<1>3. /\ c \in Seq(S) /\ Len(c) = n + 1
      /\ \A i \in 1 .. n + 1 : c[i] = IF i = 1 THEN z ELSE t[i - 1]
  <2>1. <<z>> \in Seq(S) /\ Len(<<z>>) = 1 /\ (<<z>>)[1] = z
    OBVIOUS
  <2>2. /\ c \in Seq(S) /\ Len(c) = 1 + n
        /\ \A i \in 1 .. 1 + n : c[i] = IF i <= 1 THEN (<<z>>)[i] ELSE t[i - 1]
    BY <1>1, <1>2, <2>1, ConcatProperties
  <2> QED BY <1>1, <2>1, <2>2
<1>4. /\ r \in Seq(S) /\ Len(r) = m + n + 1
      /\ \A i \in 1 .. m + n + 1 : r[i] = IF i <= m THEN y[i] ELSE c[i - m]
  BY <1>1, <1>2, <1>3, ConcatProperties
<1>5. /\ q \in Seq(S) /\ Len(q) = m + n
      /\ \A i \in 1 .. m + n : q[i] = IF i <= m THEN y[i] ELSE t[i - m]
  BY <1>1, <1>2, ConcatProperties
<1>6. /\ e \in Seq(S) /\ Len(e) = m + n + 1
      /\ \A i \in 1 .. m + n + 1 : e[i] = IF i <= m + 1 THEN Append(y, z)[i] ELSE t[i - (m + 1)]
  <2>1. Append(y, z) \in Seq(S) /\ Len(Append(y, z)) = m + 1
    BY <1>1
  <2> QED BY <1>1, <1>2, <2>1, ConcatProperties
<1>7. r[m + 1] = z
  <2>1. m + 1 \in 1 .. m + n + 1 /\ ~ (m + 1 <= m) /\ m + 1 - m = 1 /\ 1 \in 1 .. n + 1
    BY <1>1
  <2> QED BY <1>3, <1>4, <2>1
<1>8. ASSUME NEW i \in 1 .. m + n
      PROVE  q[i] = IF i < m + 1 THEN r[i] ELSE r[i + 1]
  <2>1. CASE i <= m
    <3>1. i < m + 1 /\ i \in 1 .. m + n + 1
      BY <1>1, <2>1
    <3> QED BY <1>4, <1>5, <2>1, <3>1
  <2>2. CASE ~ (i <= m)
    <3>1. PICK j, k : j = i + 1 /\ k = j - m
      OBVIOUS
    <3>2. /\ ~ (i < m + 1) /\ j \in 1 .. m + n + 1 /\ ~ (j <= m) /\ k \in 1 .. n + 1 /\ k # 1
          /\ k - 1 = i - m
      BY <1>1, <2>2, <3>1
    <3>3. r[j] = c[k] /\ c[k] = t[k - 1]
      BY <1>3, <1>4, <3>1, <3>2
    <3> QED BY <1>5, <2>2, <3>1, <3>2, <3>3
  <2> QED BY <2>1, <2>2
<1>9. e = r
  <2>1. ASSUME NEW i \in 1 .. m + n + 1
        PROVE  e[i] = r[i]
    <3>1. CASE i <= m
      <4>1. i <= m + 1 /\ Append(y, z)[i] = y[i]
        BY <1>1, <3>1
      <4> QED BY <1>4, <1>6, <3>1, <4>1
    <3>2. CASE i = m + 1
      <4>1. i <= m + 1 /\ Append(y, z)[i] = z
        BY <1>1, <3>2
      <4> QED BY <1>6, <1>7, <3>2, <4>1
    <3>3. CASE i > m + 1
      <4>1. PICK k : k = i - m
        OBVIOUS
      <4>2. /\ ~ (i <= m + 1) /\ ~ (i <= m) /\ k \in 1 .. n + 1 /\ k # 1 /\ k - 1 = i - (m + 1)
        BY <1>1, <3>3, <4>1
      <4>3. r[i] = c[k] /\ c[k] = t[k - 1] /\ e[i] = t[i - (m + 1)]
        BY <1>3, <1>4, <1>6, <4>1, <4>2
      <4> QED BY <4>2, <4>3
    <3> QED BY <1>1, <3>1, <3>2, <3>3
  <2>2. Len(e) = Len(r) /\ \A i \in 1 .. Len(e) : e[i] = r[i]
    BY <1>4, <1>6, <2>1
  <2> QED BY <1>4, <1>6, <2>2, SeqEqual
<1>10. Drops(q, r, m + 1)
  <2>1. m + 1 \in 1 .. Len(r) /\ Len(q) = Len(r) - 1 /\ Len(r) - 1 = m + n
    BY <1>1, <1>4, <1>5
  <2> QED BY <1>8, <2>1 DEF Drops
<1> QED BY <1>1, <1>2, <1>7, <1>9, <1>10

\* What the operations insert.
LEMMA EndElements ==
  ASSUME NEW S, NEW w \in Seq(S), NEW z \in S
  PROVE  /\ Merges(<<z>> \o w, w, <<>>, z, 0) /\ <<z>> \o w \in Seq(S)
         /\ Merges(Append(w, z), w, <<>>, z, Len(w)) /\ Append(w, z) \in Seq(S)
         /\ w \o <<z>> = Append(w, z)
<1>0. PICK e : e = <<>>
  OBVIOUS
<1>1. PICK n \in Nat : n = Len(w) /\ e = <<>>
  BY <1>0
<1>2. Len(e) = 0
  BY <1>1
<1>3. PICK r, c : r = <<z>> \o w /\ c = Append(w, z)
  OBVIOUS
<1>4. /\ r \in Seq(S) /\ Len(r) = n + 1 /\ r[1] = z /\ \A j \in 1 .. n : r[j + 1] = w[j]
  BY <1>1, <1>3, PrependElement
<1>5. /\ c \in Seq(S) /\ Len(c) = n + 1 /\ c[n + 1] = z /\ \A j \in 1 .. n : c[j] = w[j]
  BY <1>1, <1>3
<1>6. Merges(r, w, e, z, 0)
  <2>1. ASSUME NEW j \in 1 .. n + 0 + 1
        PROVE  r[j] = IF j <= 0 THEN w[j] ELSE IF j <= 0 + 0 THEN e[j - 0]
                      ELSE IF j = 0 + 0 + 1 THEN z ELSE w[j - 0 - 1]
    <3>1. CASE j = 1
      BY <1>4, <3>1
    <3>2. CASE j # 1
      <4>1. PICK i : i = j - 1
        OBVIOUS
      <4>2. /\ i \in 1 .. n /\ j = i + 1 /\ ~ (j <= 0) /\ ~ (j <= 0 + 0)
              /\ j # 0 + 0 + 1 /\ j - 0 - 1 = i
        BY <1>1, <3>2, <4>1
      <4> QED BY <1>4, <4>2
    <3> QED BY <3>1, <3>2
  <2>2. Len(r) = n + 0 + 1 /\ 0 \in 0 .. n
    BY <1>1, <1>4
  <2> QED BY <1>1, <1>2, <2>1, <2>2 DEF Merges
<1>7. Merges(c, w, e, z, n)
  <2>1. ASSUME NEW j \in 1 .. n + 0 + 1
        PROVE  c[j] = IF j <= n THEN w[j] ELSE IF j <= n + 0 THEN e[j - n]
                      ELSE IF j = n + 0 + 1 THEN z ELSE w[j - 0 - 1]
    <3>1. CASE j <= n
      BY <1>1, <1>5, <3>1
    <3>2. CASE j = n + 1
      <4>1. ~ (j <= n) /\ ~ (j <= n + 0) /\ j = n + 0 + 1
        BY <1>1, <3>2
      <4> QED BY <1>5, <3>2, <4>1
    <3> QED BY <1>1, <3>1, <3>2
  <2>2. Len(c) = n + 0 + 1 /\ n \in 0 .. n
    BY <1>1, <1>5
  <2> QED BY <1>1, <1>2, <2>1, <2>2 DEF Merges
<1>8. w \o <<z>> = c
  <2>1. PICK q : q = w \o <<z>>
    OBVIOUS
  <2>2. <<z>> \in Seq(S) /\ Len(<<z>>) = 1 /\ (<<z>>)[1] = z
    OBVIOUS
  <2>3. /\ q \in Seq(S) /\ Len(q) = n + 1
        /\ \A i \in 1 .. n + 1 : q[i] = IF i <= n THEN w[i] ELSE (<<z>>)[i - n]
    BY <1>1, <2>1, <2>2, ConcatProperties
  <2>4. ASSUME NEW i \in 1 .. n + 1
        PROVE  q[i] = c[i]
    <3>1. CASE i <= n
      BY <1>1, <1>5, <2>3, <3>1
    <3>2. CASE i = n + 1
      <4>1. ~ (i <= n) /\ i - n = 1
        BY <1>1, <3>2
      <4> QED BY <1>5, <2>2, <2>3, <3>2, <4>1
    <3> QED BY <1>1, <3>1, <3>2
  <2> QED BY <1>5, <2>1, <2>3, <2>4, SeqEqual
<1> QED BY <1>1, <1>3, <1>4, <1>5, <1>6, <1>7, <1>8

LEMMA PushLinked ==
  ASSUME NEW H, NEW I, NEW p, NEW h, NEW d, NEW z, H \cap I = {},
         Linked(p.next, p.prev, h, H, I), d \in H, z \in I, \A l \in H : z \notin ToSet(h[l])
  PROVE  Linked(Pushed(p, d, z).next, Pushed(p, d, z).prev, [h EXCEPT ![d] = Append(@, z)], H, I)
<1>1. PICK f, g, w, u, k, a : /\ f = p.next /\ g = p.prev /\ w = h[d] /\ u = Append(w, z)
                              /\ k = Len(w) /\ a = Nth(d, w, k)
  OBVIOUS
<1>2. w \in Seq(I) /\ h \in [H -> Seq(I)]
  BY <1>1 DEF Linked
<1>3. Merges(u, w, <<>>, z, k) /\ u \in Seq(I)
  BY <1>1, <1>2, EndElements
<1>4. a = g[d]
  <2>1. Linked(f, g, h, H, I) /\ H \cap I = {} /\ d \in H
    BY <1>1
  <2>2. Closes(g, h, d)
    BY ONLY <2>1, LastNode
  <2> QED BY <1>1, <2>2 DEF Closes
<1>5. Linked(Swapped(f, a, z), Swapped(g, f[a], f[z]), PutOne(h, d, u), H, I)
  <2>1. Putting(f, g, h, H, I, d, z, u, k, a)
    BY <1>1, <1>3 DEF Putting
  <2> QED BY ONLY <2>1, InsertLinked
<1>6. PutOne(h, d, u) = [h EXCEPT ![d] = Append(@, z)]
  BY <1>1, <1>2 DEF PutOne
<1>7. Pushed(p, d, z).next = Swapped(f, a, z) /\ Pushed(p, d, z).prev = Swapped(g, f[a], f[z])
  BY <1>1, <1>4 DEF Pushed, Splice
<1> QED BY <1>5, <1>6, <1>7

\* One step of rlist_select.
LEMMA MoveLinked ==
  ASSUME NEW H, NEW I, NEW p, NEW h, NEW d, NEW s, NEW z, NEW y, NEW t, NEW q, H \cap I = {},
         Linked(p.next, p.prev, h, H, I), d \in H, s \in H, d # s, z \in I, y \in Seq(I),
         t \in Seq(I), h[s] = y \o (<<z>> \o t), q = Pushed(Unlinked(p, z), d, z)
  PROVE  Linked(q.next, q.prev, [h EXCEPT ![d] = Append(@, z), ![s] = y \o t], H, I)
<1>1. PICK f, g, w, v, k, r, e :
        /\ f = p.next /\ g = p.prev /\ w = h[s] /\ v = y \o t /\ k = Len(y) + 1
        /\ r = Unlinked(p, z) /\ e = [h EXCEPT ![s] = v]
  OBVIOUS
<1>2. v \in Seq(I) /\ Drops(v, w, k) /\ z = w[k]
  BY <1>1, Middle
<1>3. h \in [H -> Seq(I)]
  BY DEF Linked
<1>4. /\ ToSet(v) = ToSet(w) \ {z}
      /\ Linked(Swapped(f, z, g[z]), Swapped(g, f[z], f[g[z]]), e, H, I)
  <2>1. Taking(f, g, h, H, I, s, v, k, z)
    BY <1>1, <1>2 DEF Taking
  <2>2. /\ ToSet(v) = ToSet(h[s]) \ {z}
        /\ Linked(Swapped(f, z, g[z]), Swapped(g, f[z], f[g[z]]), PutOne(h, s, v), H, I)
    BY ONLY <2>1, RemoveLinked
  <2> QED BY <1>1, <2>2 DEF PutOne
<1>5. \A l \in H : z \notin ToSet(e[l])
  <2>1. z \in ToSet(h[s])
    <3>1. k \in DOMAIN w
      BY <1>2 DEF Drops
    <3> QED BY <1>1, <1>2, <3>1 DEF ToSet
  <2>2. \A l \in H \ {s} : z \notin ToSet(h[l])
    BY <2>1 DEF Linked
  <2> QED BY <1>1, <1>3, <1>4, <2>2
<1>6. Linked(r.next, r.prev, e, H, I)
  <2>1. r.next = Swapped(f, z, g[z]) /\ r.prev = Swapped(g, f[z], f[g[z]])
    BY <1>1 DEF Unlinked, Splice
  <2> QED BY <1>4, <2>1
<1>7. Linked(q.next, q.prev, [e EXCEPT ![d] = Append(@, z)], H, I)
  <2>1. q = Pushed(r, d, z)
    BY <1>1
  <2>2. Linked(Pushed(r, d, z).next, Pushed(r, d, z).prev, [e EXCEPT ![d] = Append(@, z)], H, I)
    BY ONLY <1>5, <1>6, H \cap I = {}, d \in H, z \in I, PushLinked
  <2> QED BY <2>1, <2>2
<1>8. [e EXCEPT ![d] = Append(@, z)] = [h EXCEPT ![d] = Append(@, z), ![s] = v]
  BY <1>1, <1>3
<1> QED BY <1>1, <1>7, <1>8

\* The recursion of rlist_select along w: the nodes in S go to the end of d.
IsSelect(q, p, w, d, S) ==
  q = [i \in 0 .. Len(w) |->
         IF i = 0 THEN p
         ELSE IF w[i] \in S THEN Pushed(Unlinked(q[i - 1], w[i]), d, w[i]) ELSE q[i - 1]]

SelectsTo(q, p, w, d, S, n) ==
  q = [i \in 0 .. n |->
         IF i = 0 THEN p
         ELSE IF w[i] \in S THEN Pushed(Unlinked(q[i - 1], w[i]), d, w[i]) ELSE q[i - 1]]

LEMMA SelectExists ==
  ASSUME NEW p, NEW w, NEW d, NEW S, NEW n \in Nat
  PROVE  \E q : SelectsTo(q, p, w, d, S, n)
<1> DEFINE step(f, i) == IF i = 0 THEN p
                         ELSE IF w[i] \in S THEN Pushed(Unlinked(f[i - 1], w[i]), d, w[i])
                         ELSE f[i - 1]
           Is(f, m) == f = [i \in 0 .. m |-> step(f, i)]
           Bad == {m \in Nat : ~ \E f : Is(f, m)}
<1>1. \E f : Is(f, 0)
  <2> DEFINE g == [i \in 0 .. 0 |-> p]
  <2>1. \A i \in 0 .. 0 : step(g, i) = p
    OBVIOUS
  <2>2. Is(g, 0)
    BY <2>1
  <2> QED BY <2>2
<1>2. ASSUME NEW m \in Nat, NEW f, Is(f, m)
      PROVE  \E g : Is(g, m + 1)
  <2> DEFINE g == [i \in 0 .. m + 1 |-> IF i <= m THEN f[i] ELSE step(f, i)]
  <2>1. \A i \in 0 .. m : f[i] = step(f, i)
    BY <1>2
  <2>2. ASSUME NEW i \in 0 .. m + 1
        PROVE  step(f, i) = step(g, i) /\ g[i] = step(f, i)
    <3>1. i # 0 => i - 1 \in 0 .. m + 1 /\ i - 1 <= m
      OBVIOUS
    <3>2. i # 0 => g[i - 1] = f[i - 1]
      BY <3>1
    <3>3. g[i] = step(f, i)
      BY <2>1
    <3> QED BY <3>2, <3>3
  <2>3. Is(g, m + 1)
    BY <2>2
  <2> QED BY <2>3
<1> HIDE DEF Is
<1>3. Bad = {}
  <2>1. SUFFICES ASSUME Bad # {} PROVE FALSE
    OBVIOUS
  <2>2. PICK m \in Bad : \A j \in Bad : m <= j
    <3>1. Bad \in SUBSET Nat
      OBVIOUS
    <3> HIDE DEF Bad
    <3> QED BY <2>1, <3>1, LeastNat
  <2>3. m \in Nat /\ m # 0
    BY <1>1
  <2>4. m - 1 \in Nat /\ m - 1 + 1 = m /\ m - 1 \notin Bad
    BY <2>2, <2>3
  <2>5. \E f : Is(f, m - 1)
    BY <2>4
  <2>6. \E g : Is(g, m)
    BY <1>2, <2>4, <2>5
  <2> QED BY <2>6
<1>4. \E f : Is(f, n)
  BY <1>3
<1> QED BY <1>4 DEF Is, SelectsTo

\* What Kept has kept after each element of the list.
KeptUpto(f, s, S) ==
  /\ f[0] = <<>> /\ Kept(s, S) = f[Len(s)]
  /\ \A i \in 1 .. Len(s) : f[i] = IF s[i] \in S THEN Append(f[i - 1], s[i]) ELSE f[i - 1]

LEMMA KeptSteps ==
  ASSUME NEW T, NEW s \in Seq(T), NEW S
  PROVE  \E f : KeptUpto(f, s, S) /\ \A i \in 0 .. Len(s) : f[i] \in Seq(T)
<1> DEFINE n == Len(s)
           f == CHOOSE g : g = [i \in 0 .. n |->
                  IF i = 0 THEN <<>>
                  ELSE IF s[i] \in S THEN Append(g[i - 1], s[i]) ELSE g[i - 1]]
           Bad == {i \in 0 .. n : f[i] \notin Seq(T)}
<1>1. n \in Nat /\ DOMAIN s = 1 .. n /\ \A i \in 1 .. n : s[i] \in T
  OBVIOUS
<1>2. f = [i \in 0 .. n |->
             IF i = 0 THEN <<>>
             ELSE IF s[i] \in S THEN Append(f[i - 1], s[i]) ELSE f[i - 1]]
  <2>1. PICK m \in Nat : m = n
    BY <1>1
  <2>2. \E g : IsKept(g, s, S, m)
    BY KeptExists
  <2>3. \E g : g = [i \in 0 .. n |->
                  IF i = 0 THEN <<>>
                  ELSE IF s[i] \in S THEN Append(g[i - 1], s[i]) ELSE g[i - 1]]
    BY <2>1, <2>2, Zenon DEF IsKept
  <2> QED BY <2>3, Zenon
<1>3. Kept(s, S) = f[n]
  BY DEF Kept
<1> HIDE DEF f, n
<1>4. f[0] = <<>>
  BY <1>1, <1>2
<1>5. \A i \in 1 .. n : f[i] = IF s[i] \in S THEN Append(f[i - 1], s[i]) ELSE f[i - 1]
  <2>1. \A i \in 1 .. n : i \in 0 .. n /\ i # 0
    OBVIOUS
  <2> QED BY <1>2, <2>1
<1>6. Bad = {}
  <2>1. SUFFICES ASSUME Bad # {} PROVE FALSE
    OBVIOUS
  <2>2. PICK m \in Bad : \A j \in Bad : m <= j
    <3>1. Bad \in SUBSET Nat
      BY <1>1
    <3> HIDE DEF Bad
    <3> QED BY <2>1, <3>1, LeastNat
  <2>3. m \in 0 .. n /\ m # 0 /\ f[m] \notin Seq(T)
    BY <1>4, EmptyElements
  <2>4. m \in 1 .. n /\ m - 1 \in 0 .. n /\ ~ (m <= m - 1)
    BY <1>1, <2>3
  <2>5. f[m - 1] \in Seq(T) /\ s[m] \in T
    BY <1>1, <2>2, <2>4
  <2>6. Append(f[m - 1], s[m]) \in Seq(T)
    BY <2>5
  <2> QED BY <1>5, <2>3, <2>4, <2>5, <2>6
<1>7. KeptUpto(f, s, S)
  BY <1>3, <1>4, <1>5 DEF KeptUpto, n
<1>8. \A i \in 0 .. n : f[i] \in Seq(T)
  BY <1>6
<1> QED BY <1>7, <1>8 DEF n

\* The pointers are all there is.
Pair(p) == p = [next |-> p.next, prev |-> p.prev]

Selecting(p, h, H, I, d, s, S, w, q, r) ==
  /\ H \cap I = {} /\ Linked(p.next, p.prev, h, H, I) /\ d \in H /\ s \in H /\ d # s
  /\ Pair(p) /\ w = h[s] /\ IsSelect(q, p, w, d, S) /\ r = q[Len(w)]

\* rlist_select: the picked nodes are at the end of d, the others stay in s.
LEMMA SelectLinked ==
  ASSUME NEW H, NEW I, NEW p, NEW h, NEW d, NEW s, NEW S, NEW w, NEW q, NEW r,
         Selecting(p, h, H, I, d, s, S, w, q, r)
  PROVE  /\ Pair(r)
         /\ Linked(r.next, r.prev, PutTwo(h, d, h[d] \o Kept(w, S), s, Kept(w, I \ S)), H, I)
<1> USE DEF Selecting
<1>1. PICK n, v : n = Len(w) /\ v = h[d]
  OBVIOUS
<1>2. /\ h \in [H -> Seq(I)] /\ w \in Seq(I) /\ v \in Seq(I) /\ n \in Nat
      /\ \A i \in 1 .. n : w[i] \in I
  BY <1>1 DEF Linked
<1>3. PICK a : KeptUpto(a, w, S) /\ \A i \in 0 .. n : a[i] \in Seq(I)
  BY <1>1, <1>2, KeptSteps
<1>4. PICK b : KeptUpto(b, w, I \ S) /\ \A i \in 0 .. n : b[i] \in Seq(I)
  BY <1>1, <1>2, KeptSteps
<1>5. /\ a[0] = <<>> /\ Kept(w, S) = a[n] /\ b[0] = <<>> /\ Kept(w, I \ S) = b[n]
      /\ \A i \in 1 .. n : /\ a[i] = IF w[i] \in S THEN Append(a[i - 1], w[i]) ELSE a[i - 1]
                           /\ b[i] = IF w[i] \in S THEN b[i - 1] ELSE Append(b[i - 1], w[i])
  BY <1>1, <1>2, <1>3, <1>4 DEF KeptUpto
<1>6. /\ q[0] = p
      /\ \A i \in 1 .. n : q[i] = IF w[i] \in S THEN Pushed(Unlinked(q[i - 1], w[i]), d, w[i])
                                  ELSE q[i - 1]
  <2>1. q = [i \in 0 .. n |->
               IF i = 0 THEN p
               ELSE IF w[i] \in S THEN Pushed(Unlinked(q[i - 1], w[i]), d, w[i]) ELSE q[i - 1]]
    BY <1>1 DEF IsSelect
  <2>2. 0 \in 0 .. n /\ \A i \in 1 .. n : i \in 0 .. n /\ i # 0
    BY <1>2
  <2> QED BY <2>1, <2>2
<1> DEFINE t(i) == SubSeq(w, i + 1, n)
           K(i) == [h EXCEPT ![d] = v \o a[i], ![s] = b[i] \o t(i)]
           Good(i) == Pair(q[i]) /\ Linked(q[i].next, q[i].prev, K(i), H, I)
           Bad == {i \in 0 .. n : ~ Good(i)}
<1>7. /\ \A i \in 0 .. n : t(i) \in Seq(I)
      /\ t(0) = w /\ t(n) = <<>>
      /\ \A i \in 1 .. n : t(i - 1) = <<w[i]>> \o t(i)
  <2>1. \A i \in 0 .. n : t(i) \in Seq(I)
    BY <1>1, <1>2
  <2>2. t(0) = w /\ t(n) = <<>>
    BY <1>1, <1>2
  <2>3. ASSUME NEW i \in 1 .. n
        PROVE  t(i - 1) = <<w[i]>> \o t(i)
    <3>1. /\ i \in 1 .. Len(w) + 1 /\ i \in i - 1 .. Len(w) /\ Len(w) \in i .. Len(w) /\ n = Len(w)
          /\ i - 1 + 1 = i
      BY <1>1, <1>2
    <3>2. SubSeq(w, i, i) \o SubSeq(w, i + 1, n) = SubSeq(w, i, n)
      BY <1>2, <3>1, ConcatAdjacentSubSeq
    <3>3. SubSeq(w, i, i) = <<w[i]>>
      <4>1. PICK x, y : x = SubSeq(w, i, i) /\ y = <<w[i]>>
        OBVIOUS
      <4>2. y \in Seq(I) /\ Len(y) = 1 /\ y[1] = w[i]
        BY <1>2, <4>1
      <4>3. x \in Seq(I) /\ Len(x) = 1 /\ x[1] = w[i]
        BY <1>2, <3>1, <4>1
      <4>4. Len(x) = Len(y) /\ \A j \in 1 .. Len(x) : x[j] = y[j]
        BY <4>2, <4>3
      <4> QED BY <4>1, <4>2, <4>3, <4>4, SeqEqual
    <3> QED BY <3>1, <3>2, <3>3
  <2> QED BY <2>1, <2>2, <2>3
<1>8. Good(0)
  <2>1. v \o a[0] = v /\ b[0] \o t(0) = w
    BY <1>2, <1>5, <1>7, ConcatEmptySeq
  <2>2. K(0) = h
    BY <1>1, <1>2, <2>1
  <2> QED BY <1>6, <2>2
<1> HIDE DEF t
<1>9. ASSUME NEW i \in 1 .. n, Good(i - 1)
      PROVE  Good(i)
  <2>1. PICK z, x, y, c, k, e, m :
          /\ z = w[i] /\ x = a[i - 1] /\ y = b[i - 1] /\ c = t(i) /\ k = K(i - 1) /\ e = K(i)
          /\ m = q[i - 1]
    OBVIOUS
  <2>2. /\ z \in I /\ x \in Seq(I) /\ y \in Seq(I) /\ c \in Seq(I) /\ i - 1 \in 0 .. n
    <3>1. i \in 0 .. n /\ i - 1 \in 0 .. n
      BY <1>2
    <3> QED BY <1>2, <1>3, <1>4, <1>7, <2>1, <3>1
  <2>3. /\ k \in [H -> Seq(I)] /\ k[d] = v \o x /\ k[s] = y \o (<<z>> \o c)
        /\ k = [h EXCEPT ![d] = v \o x, ![s] = y \o (<<z>> \o c)]
    <3>1. k = [h EXCEPT ![d] = v \o x, ![s] = y \o (<<z>> \o c)]
      BY <1>7, <2>1
    <3>2. v \o x \in Seq(I)
      BY <1>2, <2>2
    <3>3. <<z>> \o c \in Seq(I)
      BY <2>2
    <3>4. y \o (<<z>> \o c) \in Seq(I)
      BY <2>2, <3>3
    <3> QED BY <1>2, <3>1, <3>2, <3>4
  <2>4. Pair(m) /\ Linked(m.next, m.prev, k, H, I)
    BY <1>9, <2>1
  <2>5. CASE z \in S
    <3>1. a[i] = Append(x, z) /\ b[i] = y /\ q[i] = Pushed(Unlinked(m, z), d, z)
      BY <1>5, <1>6, <2>1, <2>5
    <3>2. PICK o : o = Pushed(Unlinked(m, z), d, z)
      OBVIOUS
    <3>3. Linked(o.next, o.prev, [k EXCEPT ![d] = Append(@, z), ![s] = y \o c], H, I)
      <4>1. /\ H \cap I = {} /\ Linked(m.next, m.prev, k, H, I) /\ d \in H /\ s \in H /\ d # s
            /\ z \in I /\ y \in Seq(I) /\ c \in Seq(I) /\ k[s] = y \o (<<z>> \o c)
            /\ o = Pushed(Unlinked(m, z), d, z)
        BY <2>2, <2>3, <2>4, <3>2
      <4> QED BY ONLY <4>1, MoveLinked
    <3>4. Append(v \o x, z) = v \o Append(x, z)
      <4>1. v \o x \in Seq(I) /\ <<z>> \in Seq(I)
        BY <1>2, <2>2
      <4>2. Append(v \o x, z) = (v \o x) \o <<z>> /\ Append(x, z) = x \o <<z>>
        BY <2>2, <4>1, AppendIsConcat
      <4>3. v \in Seq(I) /\ x \in Seq(I) /\ <<z>> \in Seq(I)
        BY <1>2, <2>2, <4>1
      <4>4. (v \o x) \o <<z>> = v \o (x \o <<z>>)
        BY ONLY <4>3, ConcatAssociative
      <4> QED BY <4>2, <4>4
    <3>5. [k EXCEPT ![d] = Append(@, z), ![s] = y \o c] = e
      <4>1. e = [h EXCEPT ![d] = v \o Append(x, z), ![s] = y \o c]
        BY <2>1, <3>1
      <4>2. [k EXCEPT ![d] = Append(@, z), ![s] = y \o c]
              = [k EXCEPT ![d] = v \o Append(x, z), ![s] = y \o c]
        BY <2>3, <3>4
      <4>3. [k EXCEPT ![d] = v \o Append(x, z), ![s] = y \o c]
              = [h EXCEPT ![d] = v \o Append(x, z), ![s] = y \o c]
        <5>1. PICK A, B : A = v \o Append(x, z) /\ B = y \o c
          OBVIOUS
        <5>2. [k EXCEPT ![d] = A, ![s] = B] = [h EXCEPT ![d] = A, ![s] = B]
          BY <1>2, <2>3
        <5> QED BY <5>1, <5>2
      <4> QED BY <4>1, <4>2, <4>3
    <3>6. q[i] = o
      BY <3>1, <3>2
    <3>7. Pair(o) /\ Linked(o.next, o.prev, e, H, I)
      BY <3>2, <3>3, <3>5 DEF Pair, Pushed, Splice
    <3> QED BY <2>1, <3>6, <3>7
  <2>6. CASE z \notin S
    <3>1. a[i] = x /\ b[i] = Append(y, z) /\ q[i] = m
      BY <1>5, <1>6, <2>1, <2>6
    <3>2. Append(y, z) \o c = y \o (<<z>> \o c)
      BY <2>2, Middle
    <3>3. e = [h EXCEPT ![d] = v \o x, ![s] = Append(y, z) \o c]
      BY <2>1, <3>1
    <3>4. e = k
      BY <2>3, <3>2, <3>3
    <3>5. Pair(m) /\ Linked(m.next, m.prev, e, H, I)
      BY <2>4, <3>4
    <3> QED BY <2>1, <3>1, <3>5
  <2> QED BY <2>5, <2>6
<1> HIDE DEF Good
<1>10. Bad = {}
  <2>1. SUFFICES ASSUME Bad # {} PROVE FALSE
    OBVIOUS
  <2>2. PICK i \in Bad : \A j \in Bad : i <= j
    <3>1. Bad \in SUBSET Nat
      BY <1>2
    <3> HIDE DEF Bad
    <3> QED BY <2>1, <3>1, LeastNat
  <2>3. i \in 0 .. n /\ i # 0 /\ ~ Good(i)
    BY <1>8
  <2>4. i \in 1 .. n /\ i - 1 \in 0 .. n /\ ~ (i <= i - 1)
    BY <1>2, <2>3
  <2>5. Good(i - 1)
    BY <2>2, <2>4
  <2> QED BY <1>9, <2>3, <2>4, <2>5
<1>11. Good(n)
  <2>1. n \in 0 .. n
    BY <1>2
  <2> QED BY <1>10, <2>1
<1>12. K(n) = PutTwo(h, d, h[d] \o Kept(w, S), s, Kept(w, I \ S))
  <2>1. b[n] \o t(n) = b[n]
    <3>1. n \in 0 .. n
      BY <1>2
    <3> QED BY <1>4, <1>7, <3>1, ConcatEmptySeq
  <2>2. v \o a[n] = h[d] \o Kept(w, S) /\ b[n] \o t(n) = Kept(w, I \ S)
    BY <1>1, <1>5, <2>1
  <2> QED BY <1>2, <2>2 DEF PutTwo
<1> QED BY <1>1, <1>11, <1>12 DEF Good
=============================================================================
