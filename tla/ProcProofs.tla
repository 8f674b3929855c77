----------------------------- MODULE ProcProofs -----------------------------
(***************************************************************************)
(* Proofs about Proc, for any number of processes of which each has one    *)
(* thread that makes the calls: the lists, the parent fields, the free     *)
(* list and the sleepers agree, and the process table implements ProcTree. *)
(***************************************************************************)
EXTENDS Proc, ListLemmas

-----------------------------------------------------------------------------
(* The inductive invariant.                                                *)

\* The free list as a sequence: linked through the parent fields.
IsFreeList(fl) ==
  /\ fl \in Seq(Procs) /\ IsInjective(fl)
  /\ ToSet(fl) = {p \in Procs : pstate[p] = "FREE"}
  /\ pcb_freelist = IF fl = <<>> THEN NULL ELSE fl[1]
  /\ \A i \in 1 .. Len(fl) : parent[fl[i]] = IF i = Len(fl) THEN NULL ELSE fl[i + 1]

FreeLinks == \E fl : IsFreeList(fl)

\* The initial process is the root.
RootInv ==
  /\ parent[1] = NULL /\ pstate[1] \in {"ALIVE", "ZOMBIE"}
  /\ \A c \in Procs : c # 1 /\ pstate[c] # "FREE" => parent[c] \in Procs

\* There are no cycles: each process is deeper than its parent.
Deeper(d) ==
  /\ d \in [Procs -> Nat]
  /\ \A c \in Procs : c # 1 /\ pstate[c] # "FREE" => d[parent[c]] < d[c]

DepthInv == \E d : Deeper(d)

\* What a thread in a call relies on when it is woken.
CallInv ==
  \A t \in Threads :
    /\ asleep[t] => pc[t] # "run"
    /\ pc[t] # "run" => pstate[t[1]] = "ALIVE"
    /\ pc[t] = "child" => /\ wanted[t] \in Procs /\ pstate[wanted[t]] # "FREE"
                          /\ parent[wanted[t]] = t[1]
    /\ pc[t] \in {"any", "exit"} => children_list[t[1]] # <<>>
    /\ pc[t] = "exit" => t[1] = 1 /\ wanted[t] \in ExitValues

IInv == /\ K = 1 /\ TypeOK /\ TreeInv /\ FreeLinks /\ RootInv /\ DepthInv
        /\ CallInv /\ SleepInv

\* The constants: process 1, and the finite set of process numbers.
LEMMA ProcFacts == /\ 1 \in Procs /\ NULL \notin Procs /\ Procs \subseteq Nat
                   /\ 0 \in ExitValues /\ IsFiniteSet(Procs) /\ Cardinality(Procs) = N
<1>1. N \in Nat /\ N >= 1
  BY ProcAssumption
<1>2. IsFiniteSet(1 .. N) /\ Cardinality(1 .. N) = N
  BY <1>1, FS_Interval
<1> QED BY <1>1, <1>2, ProcAssumption DEF Procs, NULL

\* The thread of a process.
LEMMA OneThread ==
  ASSUME K = 1
  PROVE  /\ \A t \in Threads : t[1] \in Procs /\ t = <<t[1], 1>>
         /\ \A t, u \in Threads : t[1] = u[1] => t = u
BY DEF Threads

-----------------------------------------------------------------------------
(* The free list.                                                          *)

\* A free list as a sequence is what FreeListInv finds when it follows the links.
LEMMA FreeLinksImply ==
  ASSUME NEW fl, IsFreeList(fl)
  PROVE  FreeListInv
<1>0. PICK m : m = Len(fl)
  OBVIOUS
<1>1. /\ fl \in Seq(Procs) /\ m \in 0 .. N /\ DOMAIN fl = 1 .. m /\ N \in Nat
      /\ \A i \in 1 .. m : fl[i] \in Procs
  <2>1. fl \in Seq(Procs) /\ IsInjective(fl) /\ ToSet(fl) \subseteq Procs
    BY DEF IsFreeList
  <2>2. Cardinality(ToSet(fl)) = Len(fl)
    BY <2>1, CountElements
  <2>3. Cardinality(ToSet(fl)) <= Cardinality(Procs)
    BY <2>1, ProcFacts, FS_Subset
  <2> QED BY <1>0, <2>1, <2>2, <2>3, ProcFacts, ProcAssumption
<1>2. /\ pcb_freelist = IF m = 0 THEN NULL ELSE fl[1]
      /\ \A i \in 1 .. m : parent[fl[i]] = IF i = m THEN NULL ELSE fl[i + 1]
      /\ ToSet(fl) = {p \in Procs : pstate[p] = "FREE"}
  BY <1>0, <1>1 DEF IsFreeList
<1> DEFINE step(h, n) == IF n = 1 THEN pcb_freelist
                         ELSE IF h[n - 1] = NULL THEN NULL ELSE parent[h[n - 1]]
           g == [n \in 1 .. N + 1 |-> IF n <= m THEN fl[n] ELSE NULL]
           F == FreeChain
<1>3. ASSUME NEW n \in 1 .. N + 1
      PROVE  step(g, n) = g[n]
  <2>1. CASE n = 1
    BY <1>1, <1>2, <2>1
  <2>2. CASE n # 1 /\ n - 1 <= m
    <3>1. n - 1 \in 1 .. m /\ g[n - 1] = fl[n - 1] /\ fl[n - 1] \in Procs
      BY <1>1, <2>2
    <3>2. g[n - 1] # NULL
      BY <3>1, ProcFacts
    <3>3. parent[fl[n - 1]] = IF n - 1 = m THEN NULL ELSE fl[n - 1 + 1]
      BY <1>2, <3>1
    <3> QED BY <1>1, <2>2, <3>1, <3>2, <3>3
  <2>3. CASE n # 1 /\ ~ (n - 1 <= m)
    BY <1>1, <2>3
  <2> QED BY <2>1, <2>2, <2>3
<1>4. F = [n \in 1 .. N + 1 |-> step(F, n)]
  <2>1. g = [n \in 1 .. N + 1 |-> step(g, n)]
    BY <1>3
  <2>2. \E h : h = [n \in 1 .. N + 1 |-> step(h, n)]
    BY <2>1
  <2>3. \E h : h = [n \in 1 .. N + 1 |->
                      IF n = 1 THEN pcb_freelist
                      ELSE IF h[n - 1] = NULL THEN NULL ELSE parent[h[n - 1]]]
    BY <2>2, Zenon
  <2> QED BY <2>3, Zenon DEF FreeChain
<1>5. PICK f : f = F
  OBVIOUS
<1>6. \A n \in 1 .. N + 1 : f[n] = step(f, n) /\ g[n] = step(g, n)
  <2>1. f = [n \in 1 .. N + 1 |-> step(f, n)]
    BY <1>4, <1>5
  <2>2. \A n \in 1 .. N + 1 : f[n] = step(f, n)
    BY <2>1
  <2> QED BY <1>3, <2>2
<1> HIDE DEF F
<1>7. \A n \in 1 .. N + 1 : f[n] = g[n]
  <2> DEFINE Bad == {n \in 1 .. N + 1 : f[n] # g[n]}
  <2>1. SUFFICES ASSUME Bad # {} PROVE FALSE
    OBVIOUS
  <2>2. PICK n \in Bad : \A j \in Bad : n <= j
    <3>1. Bad \in SUBSET Nat
      BY <1>1
    <3> HIDE DEF Bad
    <3> QED BY <2>1, <3>1, LeastNat
  <2>3. n \in 1 .. N + 1 /\ f[n] # g[n] /\ n - 1 \notin Bad
    BY <1>1, <2>2
  <2>4. f[n] = step(f, n) /\ g[n] = step(g, n)
    BY <1>6, <2>3
  <2>5. n # 1 => f[n - 1] = g[n - 1]
    BY <1>1, <2>3
  <2>6. step(f, n) = step(g, n)
    BY <2>5
  <2> QED BY <2>3, <2>4, <2>6
<1>8. f[N + 1] = NULL
  BY <1>1, <1>7
<1>9. {f[n] : n \in 1 .. N} \ {NULL} = {p \in Procs : pstate[p] = "FREE"}
  <2>1. ToSet(fl) = {fl[i] : i \in 1 .. m}
    BY <1>1 DEF ToSet
  <2>2. \A i \in 1 .. m : i \in 1 .. N /\ f[i] = fl[i] /\ fl[i] # NULL
    BY <1>1, <1>7, ProcFacts
  <2>3. \A i \in 1 .. N : f[i] = IF i <= m THEN fl[i] ELSE NULL
    BY <1>1, <1>7
  <2>4. ASSUME NEW n \in 1 .. N, f[n] # NULL
        PROVE  f[n] \in {p \in Procs : pstate[p] = "FREE"}
    <3>1. n \in 1 .. m /\ f[n] = fl[n]
      BY <1>1, <2>3, <2>4
    <3> QED BY <1>2, <2>1, <3>1
  <2>5. ASSUME NEW p \in {q \in Procs : pstate[q] = "FREE"}
        PROVE  p # NULL /\ \E n \in 1 .. N : f[n] = p
    <3>1. PICK i \in 1 .. m : fl[i] = p
      BY <1>2, <2>1
    <3> QED BY <2>2, <3>1
  <2> QED BY <2>4, <2>5
<1> QED BY <1>5, <1>8, <1>9 DEF FreeListInv, F

-----------------------------------------------------------------------------
(* The pieces of the calls.                                                *)

\* release_PCB of each of zs: they come to the front of the free list.
LEMMA FreeMore ==
  ASSUME FreeLinks, parent \in [Procs -> Procs \cup {NULL}],
         NEW zs \in Seq(Procs), IsInjective(zs), \A c \in ToSet(zs) : pstate[c] # "FREE",
         \A c \in Procs : pstate'[c] = "FREE" <=> pstate[c] = "FREE" \/ c \in ToSet(zs),
         parent' = [c \in Procs |-> IF c \in ToSet(zs) THEN Link(zs, c) ELSE parent[c]],
         pcb_freelist' = IF zs = <<>> THEN pcb_freelist ELSE zs[Len(zs)]
  PROVE  FreeLinks' /\ parent' \in [Procs -> Procs \cup {NULL}]
         /\ pcb_freelist' \in Procs \cup {NULL}
<1>1. PICK fl : IsFreeList(fl)
  BY DEF FreeLinks
<1>2. PICK n, m : n = Len(zs) /\ m = Len(fl)
  OBVIOUS
<1>3. PICK r : r = Reverse(zs)
  OBVIOUS
<1>4. /\ n \in Nat /\ DOMAIN zs = 1 .. n /\ (zs = <<>> <=> n = 0)
      /\ m \in Nat /\ DOMAIN fl = 1 .. m /\ (fl = <<>> <=> m = 0)
      /\ \A i \in 1 .. n : zs[i] \in Procs /\ zs[i] \in ToSet(zs)
      /\ \A i \in 1 .. m : fl[i] \in Procs /\ fl[i] \in ToSet(fl)
      /\ fl \in Seq(Procs) /\ IsInjective(fl)
  <2>1. fl \in Seq(Procs) /\ IsInjective(fl)
    BY <1>1 DEF IsFreeList
  <2> QED BY <1>2, <2>1 DEF ToSet
<1>5. /\ pcb_freelist = IF m = 0 THEN NULL ELSE fl[1]
      /\ \A i \in 1 .. m : parent[fl[i]] = IF i = m THEN NULL ELSE fl[i + 1]
      /\ ToSet(fl) = {p \in Procs : pstate[p] = "FREE"}
  BY <1>1, <1>2, <1>4 DEF IsFreeList
<1>6. /\ r \in Seq(Procs) /\ Len(r) = n /\ ToSet(r) = ToSet(zs) /\ IsInjective(r)
      /\ \A i \in 1 .. n : r[i] = zs[n - i + 1]
  BY <1>2, <1>3, ReverseElements
<1> DEFINE new == r \o fl
<1>7. /\ new \in Seq(Procs) /\ Len(new) = n + m /\ IsInjective(new)
      /\ ToSet(new) = ToSet(zs) \cup ToSet(fl)
      /\ \A i \in 1 .. n + m : new[i] = IF i <= n THEN r[i] ELSE fl[i - n]
  <2>1. ToSet(r) \cap ToSet(fl) = {}
    BY <1>5, <1>6
  <2>2. /\ new \in Seq(Procs) /\ Len(new) = Len(r) + Len(fl)
        /\ ToSet(new) = ToSet(r) \cup ToSet(fl)
        /\ (IsInjective(r) /\ IsInjective(fl) /\ ToSet(r) \cap ToSet(fl) = {}
              => IsInjective(new))
    <3>1. r \in Seq(Procs) /\ fl \in Seq(Procs)
      BY <1>4, <1>6
    <3> QED BY <3>1, ConcatElements
  <2>3. \A i \in 1 .. Len(r) + Len(fl) :
           new[i] = IF i <= Len(r) THEN r[i] ELSE fl[i - Len(r)]
    BY <1>4, <1>6, ConcatProperties
  <2> HIDE DEF new
  <2> QED BY <1>2, <1>4, <1>6, <2>1, <2>2, <2>3
<1>8. \A j \in 1 .. n : Link(zs, zs[j]) = IF j = 1 THEN pcb_freelist ELSE zs[j - 1]
  <2>1. ASSUME NEW j \in 1 .. n
        PROVE  Link(zs, zs[j]) = IF j = 1 THEN pcb_freelist ELSE zs[j - 1]
    <3>0. PICK c : c = zs[j]
      OBVIOUS
    <3>1. PICK k : k = CHOOSE i \in DOMAIN zs : zs[i] = c
      OBVIOUS
    <3>2. k \in DOMAIN zs /\ zs[k] = c
      BY <1>4, <3>0, <3>1
    <3>3. k = j
      BY <1>4, <3>0, <3>2 DEF IsInjective
    <3>4. Link(zs, c) = IF k = 1 THEN pcb_freelist ELSE zs[k - 1]
      BY <3>1 DEF Link
    <3> QED BY <3>0, <3>3, <3>4
  <2> QED BY <2>1
<1>9. /\ pcb_freelist' = IF n + m = 0 THEN NULL ELSE new[1]
      /\ pcb_freelist \in Procs \cup {NULL} /\ pcb_freelist' \in Procs \cup {NULL}
  <2> HIDE DEF new
  <2>1. pcb_freelist \in Procs \cup {NULL}
    <3>1. m # 0 => 1 \in 1 .. m
      BY <1>4
    <3> QED BY <1>4, <1>5, <3>1
  <2>2. CASE n = 0
    <3>1. pcb_freelist' = pcb_freelist
      BY <1>4, <2>2
    <3>2. m # 0 => new[1] = fl[1]
      BY <1>4, <1>7, <2>2
    <3> QED BY <1>4, <1>5, <2>1, <2>2, <3>1, <3>2
  <2>3. CASE n # 0
    <3>1. pcb_freelist' = zs[n] /\ n \in 1 .. n /\ 1 \in 1 .. n /\ n - 1 + 1 = n
      BY <1>2, <1>4, <2>3
    <3>2. new[1] = zs[n]
      BY <1>4, <1>6, <1>7, <3>1
    <3> QED BY <1>4, <2>1, <2>3, <3>1, <3>2
  <2> QED BY <2>2, <2>3
<1>10. /\ \A c \in ToSet(zs) : parent'[c] \in Procs \cup {NULL}
       /\ parent' \in [Procs -> Procs \cup {NULL}]
  <2>1. ASSUME NEW c \in ToSet(zs)
        PROVE  Link(zs, c) \in Procs \cup {NULL}
    <3>1. PICK j \in 1 .. n : c = zs[j]
      BY <1>4 DEF ToSet
    <3>2. j # 1 => zs[j - 1] \in Procs
      BY <1>4
    <3>3. Link(zs, zs[j]) \in Procs \cup {NULL}
      BY <1>8, <1>9, <3>2
    <3> QED BY <3>1, <3>3
  <2>2. \A c \in Procs : parent'[c] \in Procs \cup {NULL}
    BY <2>1
  <2>3. ToSet(zs) \subseteq Procs
    BY <1>4 DEF ToSet
  <2> QED BY <2>2, <2>3
<1>11. \A i \in 1 .. n + m : parent'[new[i]] = IF i = n + m THEN NULL ELSE new[i + 1]
  <2> HIDE DEF new
  <2>1. ASSUME NEW i \in 1 .. n + m, i <= n
        PROVE  parent'[new[i]] = IF i = n + m THEN NULL ELSE new[i + 1]
    <3>1. /\ i \in 1 .. n /\ n - i + 1 \in 1 .. n /\ new[i] = zs[n - i + 1]
      BY <1>4, <1>6, <1>7, <2>1
    <3>2. parent'[new[i]] = IF n - i + 1 = 1 THEN pcb_freelist ELSE zs[n - i + 1 - 1]
      BY <1>4, <1>8, <3>1
    <3>3. CASE i = n
      <4>1. parent'[new[i]] = pcb_freelist
        BY <1>4, <3>2, <3>3
      <4>2. m # 0 => new[i + 1] = fl[1]
        BY <1>4, <1>7, <3>3
      <4> QED BY <1>4, <1>5, <3>3, <4>1, <4>2
    <3>4. CASE i # n
      <4>1. parent'[new[i]] = zs[n - i]
        BY <1>4, <3>1, <3>2, <3>4
      <4>2. i + 1 \in 1 .. n /\ n - (i + 1) + 1 = n - i
        BY <1>4, <3>1, <3>4
      <4>3. new[i + 1] = zs[n - i]
        BY <1>4, <1>6, <1>7, <4>2
      <4> QED BY <1>4, <3>1, <3>4, <4>1, <4>3
    <3> QED BY <3>3, <3>4
  <2>2. ASSUME NEW i \in 1 .. n + m, ~ (i <= n)
        PROVE  parent'[new[i]] = IF i = n + m THEN NULL ELSE new[i + 1]
    <3>1. i - n \in 1 .. m /\ new[i] = fl[i - n]
      BY <1>4, <1>7, <2>2
    <3>2. new[i] \in Procs /\ new[i] \notin ToSet(zs)
      BY <1>4, <1>5, <3>1
    <3>3. parent'[new[i]] = IF i - n = m THEN NULL ELSE fl[i - n + 1]
      BY <1>5, <3>1, <3>2
    <3>4. i # n + m => new[i + 1] = fl[i - n + 1]
      BY <1>4, <1>7, <2>2
    <3> QED BY <1>4, <3>1, <3>3, <3>4
  <2> QED BY <2>1, <2>2
<1>12. ToSet(new) = {p \in Procs : pstate'[p] = "FREE"}
  <2>1. ToSet(zs) \subseteq Procs
    BY <1>4 DEF ToSet
  <2> QED BY <1>5, <1>7, <2>1
<1>13. new = <<>> <=> n + m = 0
  <2>1. new \in Seq(Procs) /\ Len(new) = n + m
    BY <1>7
  <2> HIDE DEF new
  <2> QED BY <1>4, <2>1
<1>14. IsFreeList(new)'
  <2> HIDE DEF new
  <2> QED BY <1>7, <1>9, <1>11, <1>12, <1>13 DEF IsFreeList
<1> QED BY <1>9, <1>10, <1>14 DEF FreeLinks

\* acquire_PCB: the first of the free list.
LEMMA FreeLess ==
  ASSUME FreeLinks, parent \in [Procs -> Procs \cup {NULL}], pcb_freelist # NULL,
         NEW p \in Procs,
         \A c \in Procs : pstate'[c] = "FREE" <=> pstate[c] = "FREE" /\ c # pcb_freelist,
         parent' = [parent EXCEPT ![pcb_freelist] = p],
         pcb_freelist' = parent[pcb_freelist]
  PROVE  /\ FreeLinks' /\ parent' \in [Procs -> Procs \cup {NULL}]
         /\ pcb_freelist \in Procs /\ pcb_freelist' \in Procs \cup {NULL}
         /\ pstate[pcb_freelist] = "FREE"
<1>1. PICK fl : IsFreeList(fl)
  BY DEF FreeLinks
<1>2. PICK m : m = Len(fl)
  OBVIOUS
<1>3. /\ fl \in Seq(Procs) /\ fl # <<>> /\ IsInjective(fl) /\ pcb_freelist = fl[1]
      /\ m \in Nat /\ m # 0 /\ DOMAIN fl = 1 .. m
      /\ ToSet(fl) = {c \in Procs : pstate[c] = "FREE"}
      /\ \A i \in 1 .. m : parent[fl[i]] = IF i = m THEN NULL ELSE fl[i + 1]
  BY <1>1, <1>2 DEF IsFreeList
<1>4. PICK r : r = Tail(fl)
  OBVIOUS
<1>5. /\ r \in Seq(Procs) /\ Len(r) = m - 1 /\ IsInjective(r)
      /\ ToSet(r) = ToSet(fl) \ {fl[1]} /\ fl[1] \in ToSet(fl)
      /\ \A i \in 1 .. m - 1 : r[i] = fl[i + 1]
  <2>1. /\ Tail(fl) \in Seq(Procs) /\ Len(Tail(fl)) = Len(fl) - 1 /\ Head(fl) = fl[1]
        /\ Head(fl) \in ToSet(fl) /\ ToSet(Tail(fl)) = ToSet(fl) \ {Head(fl)}
        /\ IsInjective(Tail(fl))
    BY <1>3, TailElements
  <2>2. \A i \in 1 .. m - 1 : Tail(fl)[i] = fl[i + 1]
    BY <1>2, <1>3
  <2> QED BY <1>2, <1>4, <2>1, <2>2
<1>6. r = <<>> <=> m = 1
  BY <1>3, <1>5
<1>7. pcb_freelist' = IF r = <<>> THEN NULL ELSE r[1]
  BY <1>3, <1>5, <1>6
<1>8. \A i \in 1 .. m - 1 : parent'[r[i]] = IF i = m - 1 THEN NULL ELSE r[i + 1]
  <2>1. ASSUME NEW i \in 1 .. m - 1
        PROVE  parent'[r[i]] = IF i = m - 1 THEN NULL ELSE r[i + 1]
    <3>1. i + 1 \in 1 .. m /\ r[i] = fl[i + 1] /\ r[i] \in Procs
      BY <1>3, <1>5
    <3>2. fl[i + 1] # fl[1]
      <4>1. 1 \in DOMAIN fl /\ i + 1 \in DOMAIN fl /\ i + 1 # 1
        BY <1>3, <3>1
      <4> QED BY <1>3, <4>1 DEF IsInjective
    <3>3. parent'[r[i]] = parent[r[i]]
      BY <1>3, <3>1, <3>2
    <3>4. parent[fl[i + 1]] = IF i + 1 = m THEN NULL ELSE fl[i + 1 + 1]
      BY <1>3, <3>1
    <3>5. i # m - 1 => r[i + 1] = fl[i + 1 + 1]
      BY <1>3, <1>5
    <3> QED BY <1>3, <3>1, <3>3, <3>4, <3>5
  <2> QED BY <2>1
<1>9. ToSet(r) = {c \in Procs : pstate'[c] = "FREE"}
  BY <1>3, <1>5
<1>10. IsFreeList(r)'
  BY <1>5, <1>7, <1>8, <1>9 DEF IsFreeList
<1>11. pcb_freelist \in Procs /\ pstate[pcb_freelist] = "FREE"
  BY <1>3, <1>5
<1>12. parent' \in [Procs -> Procs \cup {NULL}] /\ pcb_freelist' \in Procs \cup {NULL}
  BY <1>11
<1> QED BY <1>10, <1>11, <1>12 DEF FreeLinks

\* A step that frees nothing and takes nothing.
LEMMA FreeSame ==
  ASSUME FreeLinks, pcb_freelist' = pcb_freelist,
         \A c \in Procs : pstate'[c] = "FREE" <=> pstate[c] = "FREE",
         \A c \in Procs : pstate[c] = "FREE" => parent'[c] = parent[c]
  PROVE  FreeLinks'
<1>1. PICK fl : IsFreeList(fl)
  BY DEF FreeLinks
<1>2. /\ fl \in Seq(Procs) /\ IsInjective(fl)
      /\ ToSet(fl) = {c \in Procs : pstate[c] = "FREE"}
      /\ \A i \in 1 .. Len(fl) : fl[i] \in ToSet(fl)
  BY <1>1 DEF IsFreeList, ToSet
<1>3. \A i \in 1 .. Len(fl) : parent'[fl[i]] = parent[fl[i]]
  BY <1>2
<1>4. {c \in Procs : pstate'[c] = "FREE"} = {c \in Procs : pstate[c] = "FREE"}
  OBVIOUS
<1>5. IsFreeList(fl)'
  BY <1>1, <1>3, <1>4 DEF IsFreeList
<1> QED BY <1>5 DEF FreeLinks

\* Every process in use hangs below the initial process, through living ones.
LEMMA Rooted ==
  ASSUME TypeOK, TreeInv, RootInv, DepthInv
  PROVE  /\ \A q \in Procs : q # 1 /\ pstate[q] # "FREE" =>
              /\ pstate[1] = "ALIVE"
              /\ parent[q] \in Procs /\ parent[q] # q /\ pstate[parent[q]] = "ALIVE"
              /\ q \in ToSet(children_list[parent[q]])
         /\ \A q \in Procs : q # 1 /\ pstate[q] = "ALIVE" =>
              \E c \in ToSet(children_list[1]) : pstate[c] = "ALIVE"
<1>1. PICK d : Deeper(d)
  BY DEF DepthInv
<1>2. ASSUME NEW q \in Procs, q # 1, pstate[q] # "FREE"
      PROVE  /\ parent[q] \in Procs /\ pstate[parent[q]] = "ALIVE"
             /\ q \in ToSet(children_list[parent[q]])
             /\ d[parent[q]] \in Nat /\ d[q] \in Nat /\ d[parent[q]] < d[q]
  <2>1. parent[q] \in Procs /\ d[parent[q]] \in Nat /\ d[q] \in Nat /\ d[parent[q]] < d[q]
    BY <1>1, <1>2 DEF RootInv, Deeper
  <2>2. q \in ToSet(children_list[parent[q]])
    BY <1>2, <2>1 DEF TreeInv
  <2>3. children_list[parent[q]] # <<>>
    BY <2>2, EmptyElements
  <2> QED BY <2>1, <2>2, <2>3 DEF TreeInv
<1> DEFINE A == {q \in Procs : q # 1 /\ pstate[q] = "ALIVE"}
<1>3. ASSUME A # {}
      PROVE  pstate[1] = "ALIVE" /\ \E c \in ToSet(children_list[1]) : pstate[c] = "ALIVE"
  <2> DEFINE D == {d[q] : q \in A}
  <2>1. PICK x \in D : \A y \in D : x <= y
    <3>1. D \in SUBSET Nat /\ D # {}
      BY <1>1, <1>3 DEF Deeper
    <3> HIDE DEF D
    <3> QED BY <3>1, LeastNat
  <2>2. PICK q \in A : \A y \in A : d[q] <= d[y]
    BY <2>1
  <2>3. q \in Procs /\ q # 1 /\ pstate[q] = "ALIVE"
    BY <2>2
  <2>4. /\ parent[q] \in Procs /\ pstate[parent[q]] = "ALIVE"
        /\ q \in ToSet(children_list[parent[q]])
        /\ d[parent[q]] \in Nat /\ d[q] \in Nat /\ d[parent[q]] < d[q]
    BY <1>2, <2>3
  <2>5. parent[q] \notin A
    <3>1. ~ (d[q] <= d[parent[q]])
      BY <2>4
    <3> QED BY <2>2, <3>1
  <2>6. parent[q] = 1
    BY <2>4, <2>5
  <2> QED BY <2>3, <2>4, <2>6
<1>4. ASSUME NEW q \in Procs, q # 1, pstate[q] # "FREE"
      PROVE  pstate[1] = "ALIVE"
  <2>1. parent[q] = 1 \/ parent[q] \in A
    BY <1>2, <1>4
  <2> QED BY <1>2, <1>3, <1>4, <2>1
<1>5. ASSUME NEW q \in Procs, q # 1, pstate[q] # "FREE"
      PROVE  parent[q] # q
  BY <1>2, <1>5
<1> QED BY <1>2, <1>3, <1>4, <1>5

-----------------------------------------------------------------------------
(* The steps.                                                              *)

\* initialize_processes leaves the first process alone in the tree.
LEMMA InitInv ==
  ASSUME Init, K = 1
  PROVE  IInv
<1>1. /\ \A p \in Procs : /\ pstate[p] = IF p = 1 THEN "ALIVE" ELSE "FREE"
                          /\ parent[p] = IF p \in {1, N} THEN NULL ELSE p + 1
                          /\ children_list[p] = <<>> /\ exited_list[p] = <<>>
      /\ pcb_freelist = IF N = 1 THEN NULL ELSE 2
      /\ \A t \in Threads : pc[t] = "run" /\ ~ asleep[t]
  BY DEF Init
<1>2. N \in Nat /\ N >= 1 /\ Procs = 1 .. N
  BY ProcAssumption DEF Procs
<1>3. \A p \in Procs : parent[p] \in Procs \cup {NULL}
  BY <1>1, <1>2
<1>4. TypeOK
  <2>1. /\ pstate \in [Procs -> {"FREE", "ALIVE", "ZOMBIE"}]
        /\ exitval \in [Procs -> ExitValues] /\ out = <<>>
    BY ProcFacts DEF Init
  <2>2. parent \in [Procs -> Procs \cup {NULL}]
    BY <1>3 DEF Init
  <2>3. children_list \in [Procs -> Seq(Procs)] /\ exited_list \in [Procs -> Seq(Procs)]
    BY EmptyElements DEF Init
  <2>4. /\ pc \in [Threads -> {"run", "child", "any", "exit"}]
        /\ wanted \in [Threads -> Procs \cup ExitValues \cup {NULL}]
        /\ asleep \in [Threads -> BOOLEAN]
    BY DEF Init
  <2>5. pcb_freelist \in Procs \cup {NULL}
    BY <1>1, <1>2
  <2> QED BY <2>1, <2>2, <2>3, <2>4, <2>5 DEF TypeOK
<1>5. TreeInv
  <2>1. \A p, c \in Procs : ~ (pstate[c] # "FREE" /\ parent[c] = p)
    BY <1>1, ProcFacts
  <2> QED BY <1>1, <2>1, EmptyElements DEF TreeInv
<1>6. FreeLinks
  <2> DEFINE fl == [i \in 1 .. N - 1 |-> i + 1]
  <2>1. /\ fl \in Seq(Procs) /\ DOMAIN fl = 1 .. N - 1 /\ Len(fl) = N - 1
        /\ \A i \in 1 .. N - 1 : fl[i] = i + 1
    BY <1>2
  <2> HIDE DEF fl
  <2>2. IsInjective(fl)
    BY <1>2, <2>1 DEF IsInjective
  <2>3. ToSet(fl) = {p \in Procs : pstate[p] = "FREE"}
    <3>1. \A p \in Procs : p # 1 => p - 1 \in 1 .. N - 1 /\ p = p - 1 + 1
      BY <1>2
    <3>2. \A i \in 1 .. N - 1 : i + 1 \in Procs /\ i + 1 # 1
      BY <1>2
    <3> QED BY <1>1, <2>1, <3>1, <3>2 DEF ToSet
  <2>4. pcb_freelist = IF fl = <<>> THEN NULL ELSE fl[1]
    BY <1>1, <1>2, <2>1
  <2>5. ASSUME NEW i \in 1 .. Len(fl)
        PROVE  parent[fl[i]] = IF i = Len(fl) THEN NULL ELSE fl[i + 1]
    <3>1. i \in 1 .. N - 1 /\ fl[i] = i + 1 /\ i + 1 \in Procs /\ i + 1 # 1
      BY <1>2, <2>1
    <3>2. parent[i + 1] = IF i + 1 = N THEN NULL ELSE i + 1 + 1
      BY <1>1, <3>1
    <3>3. i # N - 1 => fl[i + 1] = i + 1 + 1
      BY <1>2, <2>1
    <3> QED BY <1>2, <2>1, <3>1, <3>2, <3>3
  <2> QED BY <2>1, <2>2, <2>3, <2>4, <2>5 DEF FreeLinks, IsFreeList
<1>7. RootInv
  BY <1>1, ProcFacts DEF RootInv
<1>8. DepthInv
  <2>1. Deeper([p \in Procs |-> 0])
    BY <1>1 DEF Deeper
  <2> QED BY <2>1 DEF DepthInv
<1>9. CallInv /\ SleepInv
  BY <1>1 DEF CallInv, SleepInv
<1> QED BY <1>4, <1>5, <1>6, <1>7, <1>8, <1>9 DEF IInv

\* The parts that a step of thread t need not touch.
LEMMA ExecInv ==
  ASSUME IInv, NEW t \in Threads, sys_Exec(t)
  PROVE  IInv'
<1>1. PICK cur, new : cur = t[1] /\ new = pcb_freelist
  OBVIOUS
<1>2. /\ K = 1 /\ TypeOK /\ TreeInv /\ FreeLinks /\ RootInv /\ DepthInv /\ CallInv /\ SleepInv
      /\ cur \in Procs /\ pstate[cur] = "ALIVE" /\ new # NULL
  BY <1>1, OneThread DEF IInv, sys_Exec, Running
<1>3. /\ pcb_freelist' = parent[new]
      /\ pstate' = [pstate EXCEPT ![new] = "ALIVE"]
      /\ parent' = [parent EXCEPT ![new] = cur]
      /\ children_list' = [children_list EXCEPT ![cur] = <<new>> \o @]
      /\ out' = <<>>
      /\ UNCHANGED <<exitval, exited_list, pc, wanted, asleep>>
  BY <1>1 DEF sys_Exec
<1>4. parent \in [Procs -> Procs \cup {NULL}] /\ new \in Procs \cup {NULL}
  BY <1>1, <1>2 DEF TypeOK
<1>5. /\ FreeLinks' /\ parent' \in [Procs -> Procs \cup {NULL}]
      /\ new \in Procs /\ pcb_freelist' \in Procs \cup {NULL} /\ pstate[new] = "FREE"
  <2>1. \A c \in Procs : pstate'[c] = "FREE" <=> pstate[c] = "FREE" /\ c # new
    BY <1>2, <1>3, <1>4 DEF TypeOK
  <2> QED BY <1>1, <1>2, <1>3, <1>4, <2>1, FreeLess
<1>6. /\ new # 1 /\ new # cur
      /\ \A c \in Procs : pstate'[c] = IF c = new THEN "ALIVE" ELSE pstate[c]
      /\ \A c \in Procs : parent'[c] = IF c = new THEN cur ELSE parent[c]
      /\ \A c \in Procs : children_list[c] \in Seq(Procs) /\ exited_list[c] \in Seq(Procs)
  BY <1>2, <1>3, <1>5 DEF TypeOK, RootInv
<1>7. PICK cl : cl = <<new>> \o children_list[cur]
  OBVIOUS
<1>8. /\ \A p \in Procs : children_list'[p] = IF p = cur THEN cl ELSE children_list[p]
      /\ cl \in Seq(Procs) /\ cl # <<>> /\ IsInjective(cl)
      /\ ToSet(cl) = ToSet(children_list[cur]) \cup {new}
      /\ children_list' \in [Procs -> Seq(Procs)]
  <2>1. new \notin ToSet(children_list[cur]) /\ IsInjective(children_list[cur])
    BY <1>2, <1>5 DEF TreeInv
  <2>2. children_list[cur] \in Seq(Procs)
    BY <1>2, <1>6
  <2>3. /\ <<new>> \o children_list[cur] \in Seq(Procs)
        /\ ToSet(<<new>> \o children_list[cur]) = ToSet(children_list[cur]) \cup {new}
        /\ <<new>> \o children_list[cur] # <<>>
        /\ IsInjective(<<new>> \o children_list[cur])
    BY <1>5, <2>1, <2>2, PrependElement
  <2>4. cl \in Seq(Procs) /\ children_list \in [Procs -> Seq(Procs)]
    BY <1>2, <1>7, <2>3 DEF TypeOK
  <2>5. children_list' = [children_list EXCEPT ![cur] = cl]
    BY <1>3, <1>7
  <2> QED BY <1>2, <1>7, <2>3, <2>4, <2>5
<1>9. TypeOK'
  <2>1. pstate' \in [Procs -> {"FREE", "ALIVE", "ZOMBIE"}]
    BY <1>2, <1>3 DEF TypeOK
  <2> QED BY <1>2, <1>3, <1>5, <1>8, <2>1 DEF TypeOK
<1>10. TreeInv'
  <2>1. ASSUME NEW p \in Procs
        PROVE  /\ IsInjective(children_list'[p]) /\ IsInjective(exited_list[p])
               /\ ToSet(children_list'[p]) =
                    {c \in Procs : pstate'[c] # "FREE" /\ parent'[c] = p}
               /\ ToSet(exited_list[p]) =
                    {c \in ToSet(children_list'[p]) : pstate'[c] = "ZOMBIE"}
               /\ children_list'[p] # <<>> => pstate'[p] = "ALIVE"
    <3>1. /\ IsInjective(children_list[p]) /\ IsInjective(exited_list[p])
          /\ ToSet(children_list[p]) = {c \in Procs : pstate[c] # "FREE" /\ parent[c] = p}
          /\ ToSet(exited_list[p]) =
               {c \in ToSet(children_list[p]) : pstate[c] = "ZOMBIE"}
          /\ children_list[p] # <<>> => pstate[p] = "ALIVE"
      BY <1>2 DEF TreeInv
    <3>2. ToSet(children_list'[p]) =
            IF p = cur THEN ToSet(children_list[p]) \cup {new} ELSE ToSet(children_list[p])
      BY <1>8
    <3>3. ToSet(children_list'[p]) = {c \in Procs : pstate'[c] # "FREE" /\ parent'[c] = p}
      BY <1>5, <1>6, <3>1, <3>2
    <3>4. ToSet(exited_list[p]) = {c \in ToSet(children_list'[p]) : pstate'[c] = "ZOMBIE"}
      BY <1>5, <1>6, <3>1, <3>2
    <3>5. IsInjective(children_list'[p])
      BY <1>8, <3>1
    <3>6. children_list'[p] # <<>> => pstate'[p] = "ALIVE"
      BY <1>2, <1>6, <1>8, <3>1
    <3> QED BY <3>1, <3>3, <3>4, <3>5, <3>6
  <2>2. exited_list' = exited_list
    BY <1>3
  <2> QED BY <2>1, <2>2 DEF TreeInv
<1>11. RootInv'
  BY <1>2, <1>6, ProcFacts DEF RootInv
<1>12. DepthInv'
  <2>1. PICK d : Deeper(d)
    BY <1>2 DEF DepthInv
  <2>2. PICK n \in Nat : n = d[cur]
    BY <1>2, <2>1 DEF Deeper
  <2> DEFINE e == [d EXCEPT ![new] = n + 1]
  <2>3. d \in [Procs -> Nat] /\ e \in [Procs -> Nat]
    <3>1. d \in [Procs -> Nat]
      BY <2>1 DEF Deeper
    <3>2. n + 1 \in Nat
      BY <2>2
    <3> QED BY <3>1, <3>2
  <2>4. ASSUME NEW c \in Procs, c # 1, pstate'[c] # "FREE"
        PROVE  e[parent'[c]] < e[c]
    <3>1. CASE c = new
      BY <1>2, <1>5, <1>6, <2>2, <2>3, <3>1
    <3>2. CASE c # new
      <4>1. parent[c] \in Procs /\ pstate[parent[c]] = "ALIVE" /\ d[parent[c]] < d[c]
        BY <1>2, <1>6, <2>1, <2>4, <3>2, Rooted DEF Deeper
      <4> QED BY <1>5, <1>6, <2>3, <3>2, <4>1
    <3> QED BY <3>1, <3>2
  <2>5. Deeper(e)'
    BY <2>3, <2>4 DEF Deeper
  <2> QED BY <2>5 DEF DepthInv
<1>13. CallInv'
  <2>1. ASSUME NEW u \in Threads
        PROVE  /\ asleep[u] => pc[u] # "run"
               /\ pc[u] # "run" => pstate'[u[1]] = "ALIVE"
               /\ pc[u] = "child" => /\ wanted[u] \in Procs /\ pstate'[wanted[u]] # "FREE"
                                     /\ parent'[wanted[u]] = u[1]
               /\ pc[u] \in {"any", "exit"} => children_list'[u[1]] # <<>>
               /\ pc[u] = "exit" => u[1] = 1 /\ wanted[u] \in ExitValues
    <3>1. u[1] \in Procs
      BY <1>2, OneThread
    <3>2. /\ asleep[u] => pc[u] # "run"
          /\ pc[u] # "run" => pstate[u[1]] = "ALIVE"
          /\ pc[u] = "child" => /\ wanted[u] \in Procs /\ pstate[wanted[u]] # "FREE"
                                /\ parent[wanted[u]] = u[1]
          /\ pc[u] \in {"any", "exit"} => children_list[u[1]] # <<>>
          /\ pc[u] = "exit" => u[1] = 1 /\ wanted[u] \in ExitValues
      BY <1>2 DEF CallInv
    <3>3. pc[u] # "run" => pstate'[u[1]] = "ALIVE"
      BY <1>6, <3>1, <3>2
    <3>4. pc[u] = "child" => pstate'[wanted[u]] # "FREE" /\ parent'[wanted[u]] = u[1]
      BY <1>5, <1>6, <3>1, <3>2
    <3>5. pc[u] \in {"any", "exit"} => children_list'[u[1]] # <<>>
      BY <1>8, <3>1, <3>2
    <3> QED BY <3>2, <3>3, <3>4, <3>5
  <2>2. UNCHANGED <<pc, wanted, asleep>>
    BY <1>3
  <2> QED BY <2>1, <2>2 DEF CallInv
<1>14. SleepInv'
  <2>1. ASSUME NEW u \in Threads, asleep[u]
        PROVE  /\ pstate'[u[1]] = "ALIVE"
               /\ pc[u] = "child" => pstate'[wanted[u]] = "ALIVE" /\ parent'[wanted[u]] = u[1]
               /\ pc[u] \in {"any", "exit"} =>
                    children_list'[u[1]] # <<>> /\ exited_list[u[1]] = <<>>
    <3>1. u[1] \in Procs /\ (pc[u] = "child" => wanted[u] \in Procs)
      BY <1>2, OneThread DEF CallInv
    <3>2. /\ pstate[u[1]] = "ALIVE"
          /\ pc[u] = "child" => pstate[wanted[u]] = "ALIVE" /\ parent[wanted[u]] = u[1]
          /\ pc[u] \in {"any", "exit"} =>
               children_list[u[1]] # <<>> /\ exited_list[u[1]] = <<>>
      BY <1>2, <2>1 DEF SleepInv
    <3> QED BY <1>5, <1>6, <1>8, <3>1, <3>2
  <2>2. UNCHANGED <<pc, wanted, asleep, exited_list>>
    BY <1>3
  <2> QED BY <2>1, <2>2 DEF SleepInv
<1> QED BY <1>2, <1>5, <1>9, <1>10, <1>11, <1>12, <1>13, <1>14 DEF IInv

\* What cleanup_zombie of some zombies leaves, when they become FREE and the
\* initial process at most ends.
Cleaned(Z) ==
  /\ \A p \in Procs : /\ children_list'[p] \in Seq(Procs) /\ exited_list'[p] \in Seq(Procs)
                      /\ ToSet(children_list'[p]) = ToSet(children_list[p]) \ Z
                      /\ ToSet(exited_list'[p]) = ToSet(exited_list[p]) \ Z
  /\ \A c \in Procs \ Z : parent'[c] = parent[c]
  /\ TreeInv' /\ FreeLinks' /\ RootInv' /\ DepthInv'
  /\ parent' \in [Procs -> Procs \cup {NULL}] /\ pcb_freelist' \in Procs \cup {NULL}
  /\ children_list' \in [Procs -> Seq(Procs)] /\ exited_list' \in [Procs -> Seq(Procs)]

\* cleanup_zombie of several zombies at once leaves the tree and the free list.
LEMMA CleanUp ==
  ASSUME TypeOK, TreeInv, FreeLinks, RootInv, DepthInv,
         NEW zs \in Seq(Procs), IsInjective(zs), cleanup_zombie(zs),
         \A c \in ToSet(zs) : pstate[c] = "ZOMBIE" /\ c # 1,
         \A c \in Procs : pstate'[c] = IF c \in ToSet(zs) THEN "FREE"
                                       ELSE IF c = 1 THEN pstate'[1] ELSE pstate[c],
         \/ pstate'[1] = pstate[1]
         \/ pstate'[1] = "ZOMBIE" /\ ToSet(children_list[1]) \subseteq ToSet(zs)
  PROVE  Cleaned(ToSet(zs))
<1>1. PICK Z : Z = ToSet(zs)
  OBVIOUS
<1>2. /\ children_list' = [p \in Procs |-> Kept(children_list[p], Procs \ Z)]
      /\ exited_list' = [p \in Procs |-> Kept(exited_list[p], Procs \ Z)]
      /\ parent' = [c \in Procs |-> IF c \in ToSet(zs) THEN Link(zs, c) ELSE parent[c]]
      /\ pcb_freelist' = IF zs = <<>> THEN pcb_freelist ELSE zs[Len(zs)]
  BY <1>1 DEF cleanup_zombie, RemoveExited
<1>3. /\ \A p \in Procs : children_list[p] \in Seq(Procs) /\ exited_list[p] \in Seq(Procs)
      /\ parent \in [Procs -> Procs \cup {NULL}]
      /\ \A c \in Z : c \in Procs /\ pstate[c] = "ZOMBIE" /\ c # 1
      /\ \A c \in Procs : pstate'[c] = IF c \in Z THEN "FREE"
                                       ELSE IF c = 1 THEN pstate'[1] ELSE pstate[c]
      /\ \A c \in Procs \ Z : parent'[c] = parent[c]
      /\ 1 \in Procs /\ 1 \notin Z
      /\ pstate[1] \in {"ALIVE", "ZOMBIE"} /\ pstate'[1] \in {"ALIVE", "ZOMBIE"}
      /\ parent[1] = NULL
  BY <1>1, <1>2, ElementsType, ProcFacts DEF TypeOK, RootInv
<1>4. ASSUME NEW p \in Procs
      PROVE  /\ children_list'[p] \in Seq(Procs) /\ exited_list'[p] \in Seq(Procs)
             /\ ToSet(children_list'[p]) = ToSet(children_list[p]) \ Z
             /\ ToSet(exited_list'[p]) = ToSet(exited_list[p]) \ Z
             /\ IsInjective(children_list'[p]) /\ IsInjective(exited_list'[p])
  <2>1. /\ Kept(children_list[p], Procs \ Z) \in Seq(Procs)
        /\ ToSet(Kept(children_list[p], Procs \ Z)) = ToSet(children_list[p]) \cap (Procs \ Z)
        /\ (IsInjective(children_list[p]) => IsInjective(Kept(children_list[p], Procs \ Z)))
    BY <1>3, KeptElements
  <2>2. /\ Kept(exited_list[p], Procs \ Z) \in Seq(Procs)
        /\ ToSet(Kept(exited_list[p], Procs \ Z)) = ToSet(exited_list[p]) \cap (Procs \ Z)
        /\ (IsInjective(exited_list[p]) => IsInjective(Kept(exited_list[p], Procs \ Z)))
    BY <1>3, KeptElements
  <2>3. /\ children_list'[p] = Kept(children_list[p], Procs \ Z)
        /\ exited_list'[p] = Kept(exited_list[p], Procs \ Z)
    BY <1>2
  <2>4. IsInjective(children_list[p]) /\ IsInjective(exited_list[p])
    BY DEF TreeInv
  <2>5. ToSet(children_list[p]) \subseteq Procs /\ ToSet(exited_list[p]) \subseteq Procs
    BY <1>3, ElementsType
  <2> QED BY <2>1, <2>2, <2>3, <2>4, <2>5
<1>5. /\ FreeLinks' /\ parent' \in [Procs -> Procs \cup {NULL}]
      /\ pcb_freelist' \in Procs \cup {NULL}
  <2>1. \A c \in ToSet(zs) : pstate[c] # "FREE"
    OBVIOUS
  <2>2. \A c \in Procs : pstate'[c] = "FREE" <=> pstate[c] = "FREE" \/ c \in ToSet(zs)
    BY <1>1, <1>3
  <2> QED BY <1>2, <1>3, <2>1, <2>2, FreeMore
<1>6. TreeInv'
  <2>1. ASSUME NEW p \in Procs
        PROVE  /\ ToSet(children_list'[p]) =
                    {c \in Procs : pstate'[c] # "FREE" /\ parent'[c] = p}
               /\ ToSet(exited_list'[p]) =
                    {c \in ToSet(children_list'[p]) : pstate'[c] = "ZOMBIE"}
               /\ children_list'[p] # <<>> => pstate'[p] = "ALIVE"
    <3>1. /\ ToSet(children_list[p]) = {c \in Procs : pstate[c] # "FREE" /\ parent[c] = p}
          /\ ToSet(exited_list[p]) =
               {c \in ToSet(children_list[p]) : pstate[c] = "ZOMBIE"}
          /\ children_list[p] # <<>> => pstate[p] = "ALIVE"
      BY DEF TreeInv
    <3>2. \A c \in ToSet(children_list[p]) : c # 1 /\ c \in Procs
      BY <1>3, <3>1, ProcFacts
    <3>3. ASSUME NEW c \in Procs
          PROVE  c \in ToSet(children_list'[p]) <=> pstate'[c] # "FREE" /\ parent'[c] = p
      <4>1. CASE c \in Z
        BY <1>3, <1>4, <4>1
      <4>2. CASE c = 1
        BY <1>3, <1>4, <3>2, <4>2, ProcFacts
      <4>3. CASE c \notin Z /\ c # 1
        BY <1>3, <1>4, <3>1, <4>3
      <4> QED BY <4>1, <4>2, <4>3
    <3>4. ToSet(children_list'[p]) \subseteq Procs
      BY <1>4, <3>2
    <3>5. ToSet(exited_list'[p]) = {c \in ToSet(children_list'[p]) : pstate'[c] = "ZOMBIE"}
      <4>1. /\ ToSet(children_list'[p]) = ToSet(children_list[p]) \ Z
            /\ ToSet(exited_list'[p]) = ToSet(exited_list[p]) \ Z
        BY <1>4
      <4>2. ASSUME NEW c \in ToSet(children_list[p]), c \notin Z
            PROVE  pstate'[c] = pstate[c]
        BY <1>3, <3>2, <4>2
      <4>3. ToSet(exited_list[p]) \ Z =
              {c \in ToSet(children_list[p]) \ Z : pstate[c] = "ZOMBIE"}
        BY <3>1
      <4> QED BY <4>1, <4>2, <4>3
    <3>6. ASSUME children_list'[p] # <<>>
          PROVE  pstate'[p] = "ALIVE"
      <4>1. ToSet(children_list'[p]) # {}
        BY <1>4, <3>6, NoElements
      <4>2. PICK c \in ToSet(children_list[p]) : c \notin Z
        BY <1>4, <4>1
      <4>3. children_list[p] # <<>>
        BY <4>2, EmptyElements
      <4>4. pstate[p] = "ALIVE"
        BY <3>1, <4>3
      <4>5. p = 1 => pstate'[1] = pstate[1]
        BY <1>1, <4>2
      <4> QED BY <1>3, <4>4, <4>5
    <3> QED BY <3>3, <3>4, <3>5, <3>6
  <2> QED BY <1>4, <2>1 DEF TreeInv
<1>7. RootInv'
  BY <1>3 DEF RootInv
<1>8. DepthInv'
  <2>1. PICK d : Deeper(d)
    BY DEF DepthInv
  <2>2. Deeper(d)'
    BY <1>3, <2>1 DEF Deeper
  <2> QED BY <2>2 DEF DepthInv
<1>9. children_list' \in [Procs -> Seq(Procs)] /\ exited_list' \in [Procs -> Seq(Procs)]
  BY <1>2, <1>4
<1> QED BY <1>1, <1>3, <1>4, <1>5, <1>6, <1>7, <1>8, <1>9 DEF Cleaned

\* WaitChild returns a zombie of the caller.
LEMMA CollectInv ==
  ASSUME IInv, NEW t \in Threads, NEW c \in Procs, Collect(t, c),
         pstate[c] = "ZOMBIE", parent[c] = t[1], ~ asleep[t], pstate[t[1]] = "ALIVE"
  PROVE  IInv'
<1>1. PICK p : p = t[1]
  OBVIOUS
<1>2. /\ K = 1 /\ TypeOK /\ TreeInv /\ FreeLinks /\ RootInv /\ DepthInv /\ CallInv /\ SleepInv
      /\ p \in Procs /\ c # 1
  BY <1>1, OneThread, ProcFacts DEF IInv, RootInv
<1>3. /\ cleanup_zombie(<<c>>)
      /\ pstate' = [pstate EXCEPT ![c] = "FREE"]
      /\ out' = <<t[1], c, exitval[c]>>
      /\ pc' = [pc EXCEPT ![t] = "run"]
      /\ wanted' = [wanted EXCEPT ![t] = NULL]
      /\ UNCHANGED <<exitval, asleep>>
  BY DEF Collect
<1>4. \A x \in Procs : pstate'[x] = IF x = c THEN "FREE" ELSE pstate[x]
  BY <1>2, <1>3 DEF TypeOK
<1>5. Cleaned({c})
  <2>1. <<c>> \in Seq(Procs) /\ IsInjective(<<c>>) /\ ToSet(<<c>>) = {c}
    BY DEF ToSet, IsInjective
  <2>2. /\ \A x \in ToSet(<<c>>) : pstate[x] = "ZOMBIE" /\ x # 1
        /\ \A x \in Procs : pstate'[x] = IF x \in ToSet(<<c>>) THEN "FREE"
                                         ELSE IF x = 1 THEN pstate'[1] ELSE pstate[x]
        /\ pstate'[1] = pstate[1]
    BY <1>2, <1>4, <2>1, ProcFacts
  <2>3. Cleaned(ToSet(<<c>>))
    BY <1>2, <1>3, <2>1, <2>2, CleanUp
  <2> QED BY <2>1, <2>3
<1>6. TypeOK'
  <2>1. pstate' \in [Procs -> {"FREE", "ALIVE", "ZOMBIE"}]
    BY <1>2, <1>3 DEF TypeOK
  <2>2. /\ pc' \in [Threads -> {"run", "child", "any", "exit"}]
        /\ wanted' \in [Threads -> Procs \cup ExitValues \cup {NULL}]
    BY <1>2, <1>3 DEF TypeOK
  <2>3. out' \in Procs \X Procs \X ExitValues
    BY <1>1, <1>2, <1>3 DEF TypeOK
  <2> QED BY <1>2, <1>3, <1>5, <2>1, <2>2, <2>3 DEF TypeOK, Cleaned
\* A thread of another process: its lists are the same sets.
<1>7. ASSUME NEW u \in Threads, u # t
      PROVE  /\ u[1] \in Procs /\ u[1] # p /\ pc'[u] = pc[u] /\ wanted'[u] = wanted[u]
             /\ children_list'[u[1]] = <<>> <=> children_list[u[1]] = <<>>
             /\ exited_list'[u[1]] = <<>> <=> exited_list[u[1]] = <<>>
             /\ pstate[u[1]] = "ALIVE" => pstate'[u[1]] = "ALIVE"
             /\ \A w \in Procs : parent[w] = u[1] =>
                                   parent'[w] = parent[w] /\ pstate'[w] = pstate[w]
  <2>1. u[1] \in Procs /\ u[1] # p
    BY <1>1, <1>2, <1>7, OneThread
  <2>2. pc'[u] = pc[u] /\ wanted'[u] = wanted[u]
    BY <1>2, <1>3, <1>7 DEF TypeOK
  <2>3. c \notin ToSet(children_list[u[1]]) /\ c \notin ToSet(exited_list[u[1]])
    BY <1>1, <1>2, <2>1 DEF TreeInv
  <2>4. /\ children_list'[u[1]] \in Seq(Procs) /\ children_list[u[1]] \in Seq(Procs)
        /\ exited_list'[u[1]] \in Seq(Procs) /\ exited_list[u[1]] \in Seq(Procs)
        /\ ToSet(children_list'[u[1]]) = ToSet(children_list[u[1]])
        /\ ToSet(exited_list'[u[1]]) = ToSet(exited_list[u[1]])
    <3>1. children_list[u[1]] \in Seq(Procs) /\ exited_list[u[1]] \in Seq(Procs)
      BY <1>2, <2>1 DEF TypeOK
    <3>2. /\ children_list'[u[1]] \in Seq(Procs) /\ exited_list'[u[1]] \in Seq(Procs)
          /\ ToSet(children_list'[u[1]]) = ToSet(children_list[u[1]]) \ {c}
          /\ ToSet(exited_list'[u[1]]) = ToSet(exited_list[u[1]]) \ {c}
      BY <1>5, <2>1 DEF Cleaned
    <3> QED BY <2>3, <3>1, <3>2
  <2>5. /\ children_list'[u[1]] = <<>> <=> children_list[u[1]] = <<>>
        /\ exited_list'[u[1]] = <<>> <=> exited_list[u[1]] = <<>>
    BY <2>4, NoElements
  <2>6. pstate[u[1]] = "ALIVE" => pstate'[u[1]] = "ALIVE"
    BY <1>4, <2>1
  <2>7. ASSUME NEW w \in Procs, parent[w] = u[1]
        PROVE  parent'[w] = parent[w] /\ pstate'[w] = pstate[w]
    <3>1. w # c
      BY <1>1, <2>1, <2>7
    <3> QED BY <1>4, <1>5, <3>1 DEF Cleaned
  <2> QED BY <2>1, <2>2, <2>5, <2>6, <2>7
<1>8. pc'[t] = "run" /\ asleep' = asleep
  BY <1>2, <1>3 DEF TypeOK
<1>9. CallInv'
  <2>1. ASSUME NEW u \in Threads
        PROVE  /\ asleep[u] => pc'[u] # "run"
               /\ pc'[u] # "run" => pstate'[u[1]] = "ALIVE"
               /\ pc'[u] = "child" => /\ wanted'[u] \in Procs /\ pstate'[wanted'[u]] # "FREE"
                                      /\ parent'[wanted'[u]] = u[1]
               /\ pc'[u] \in {"any", "exit"} => children_list'[u[1]] # <<>>
               /\ pc'[u] = "exit" => u[1] = 1 /\ wanted'[u] \in ExitValues
    <3>1. CASE u = t
      BY <1>8, <3>1
    <3>2. CASE u # t
      <4>1. /\ asleep[u] => pc[u] # "run"
            /\ pc[u] # "run" => pstate[u[1]] = "ALIVE"
            /\ pc[u] = "child" => /\ wanted[u] \in Procs /\ pstate[wanted[u]] # "FREE"
                                  /\ parent[wanted[u]] = u[1]
            /\ pc[u] \in {"any", "exit"} => children_list[u[1]] # <<>>
            /\ pc[u] = "exit" => u[1] = 1 /\ wanted[u] \in ExitValues
        BY <1>2 DEF CallInv
      <4> QED BY <1>7, <3>2, <4>1
    <3> QED BY <3>1, <3>2
  <2> QED BY <1>8, <2>1 DEF CallInv
<1>10. SleepInv'
  <2>1. ASSUME NEW u \in Threads, asleep[u]
        PROVE  /\ pstate'[u[1]] = "ALIVE"
               /\ pc'[u] = "child" =>
                    pstate'[wanted'[u]] = "ALIVE" /\ parent'[wanted'[u]] = u[1]
               /\ pc'[u] \in {"any", "exit"} =>
                    children_list'[u[1]] # <<>> /\ exited_list'[u[1]] = <<>>
    <3>1. u # t
      BY <2>1
    <3>2. /\ pstate[u[1]] = "ALIVE"
          /\ pc[u] = "child" => pstate[wanted[u]] = "ALIVE" /\ parent[wanted[u]] = u[1]
          /\ pc[u] \in {"any", "exit"} =>
               children_list[u[1]] # <<>> /\ exited_list[u[1]] = <<>>
      BY <1>2, <2>1 DEF SleepInv
    <3>3. pc[u] = "child" => wanted[u] \in Procs
      BY <1>2 DEF CallInv
    <3> QED BY <1>7, <3>1, <3>2, <3>3
  <2> QED BY <1>8, <2>1 DEF SleepInv
<1> QED BY <1>2, <1>5, <1>6, <1>9, <1>10 DEF IInv, Cleaned

\* WaitChild goes to sleep where it has to.
LEMMA WaitInv ==
  ASSUME IInv, NEW t \in Threads, NEW call \in {"child", "any"}, NEW c \in Procs \cup {NULL},
         Wait(t, call, c), pstate[t[1]] = "ALIVE",
         call = "child" => c \in Procs /\ pstate[c] = "ALIVE" /\ parent[c] = t[1],
         call = "any" => children_list[t[1]] # <<>> /\ exited_list[t[1]] = <<>>
  PROVE  IInv'
<1>1. /\ K = 1 /\ TypeOK /\ TreeInv /\ FreeLinks /\ RootInv /\ DepthInv /\ CallInv /\ SleepInv
  BY DEF IInv
<1>2. /\ pc' = [pc EXCEPT ![t] = call] /\ wanted' = [wanted EXCEPT ![t] = c]
      /\ asleep' = [asleep EXCEPT ![t] = TRUE] /\ out' = <<>>
  BY DEF Wait
<1>3. UNCHANGED <<pstate, parent, exitval, children_list, exited_list, pcb_freelist>>
  BY DEF Wait, pcbs
<1>4. TypeOK'
  <2>1. /\ pc' \in [Threads -> {"run", "child", "any", "exit"}]
        /\ wanted' \in [Threads -> Procs \cup ExitValues \cup {NULL}]
        /\ asleep' \in [Threads -> BOOLEAN]
    BY <1>1, <1>2 DEF TypeOK
  <2> QED BY <1>1, <1>2, <1>3, <2>1 DEF TypeOK
<1>5. TreeInv' /\ RootInv' /\ DepthInv'
  BY <1>1, <1>3 DEF TreeInv, RootInv, DepthInv, Deeper
<1>6. FreeLinks'
  BY <1>1, <1>3, FreeSame
<1>7. \A u \in Threads : /\ pc'[u] = IF u = t THEN call ELSE pc[u]
                         /\ wanted'[u] = IF u = t THEN c ELSE wanted[u]
                         /\ asleep'[u] = IF u = t THEN TRUE ELSE asleep[u]
  BY <1>1, <1>2 DEF TypeOK
<1>8. CallInv'
  <2>1. ASSUME NEW u \in Threads
        PROVE  /\ asleep'[u] => pc'[u] # "run"
               /\ pc'[u] # "run" => pstate[u[1]] = "ALIVE"
               /\ pc'[u] = "child" => /\ wanted'[u] \in Procs /\ pstate[wanted'[u]] # "FREE"
                                      /\ parent[wanted'[u]] = u[1]
               /\ pc'[u] \in {"any", "exit"} => children_list[u[1]] # <<>>
               /\ pc'[u] = "exit" => u[1] = 1 /\ wanted'[u] \in ExitValues
    <3>1. CASE u = t
      BY <1>7, <3>1
    <3>2. CASE u # t
      BY <1>1, <1>7, <3>2 DEF CallInv
    <3> QED BY <3>1, <3>2
  <2> QED BY <1>3, <2>1 DEF CallInv
<1>9. SleepInv'
  <2>1. ASSUME NEW u \in Threads, asleep'[u]
        PROVE  /\ pstate[u[1]] = "ALIVE"
               /\ pc'[u] = "child" => pstate[wanted'[u]] = "ALIVE" /\ parent[wanted'[u]] = u[1]
               /\ pc'[u] \in {"any", "exit"} =>
                    children_list[u[1]] # <<>> /\ exited_list[u[1]] = <<>>
    <3>1. CASE u = t
      BY <1>7, <3>1
    <3>2. CASE u # t
      BY <1>1, <1>7, <2>1, <3>2 DEF SleepInv
    <3> QED BY <3>1, <3>2
  <2> QED BY <1>3, <2>1 DEF SleepInv
<1> QED BY <1>1, <1>4, <1>5, <1>6, <1>8, <1>9 DEF IInv

\* wait_for_specific_child, for a child.
LEMMA SpecificInv ==
  ASSUME IInv, NEW t \in Threads, NEW c \in Procs, SpecificChild(t, c),
         pstate[t[1]] = "ALIVE", ~ asleep[t], pstate[c] # "FREE", parent[c] = t[1]
  PROVE  IInv'
<1>1. CASE pstate[c] = "ALIVE" /\ Wait(t, "child", c)
  BY <1>1, WaitInv
<1>2. CASE pstate[c] # "ALIVE" /\ Collect(t, c)
  <2>1. pstate[c] = "ZOMBIE"
    BY <1>2 DEF IInv, TypeOK
  <2> QED BY <1>2, <2>1, CollectInv
<1> QED BY <1>1, <1>2 DEF SpecificChild

\* The first of the exited list is a zombie of its owner.
LEMMA ExitedChild ==
  ASSUME TypeOK, TreeInv, NEW p \in Procs, exited_list[p] # <<>>
  PROVE  /\ Head(exited_list[p]) \in Procs /\ pstate[Head(exited_list[p])] = "ZOMBIE"
         /\ parent[Head(exited_list[p])] = p
<1>1. Head(exited_list[p]) \in ToSet(exited_list[p])
  BY TailElements DEF TypeOK
<1> QED BY <1>1 DEF TreeInv

\* wait_for_any_child, with children.
LEMMA AnyInv ==
  ASSUME IInv, NEW t \in Threads, AnyChild(t),
         pstate[t[1]] = "ALIVE", ~ asleep[t], children_list[t[1]] # <<>>
  PROVE  IInv'
<1>1. CASE exited_list[t[1]] = <<>> /\ Wait(t, "any", NULL)
  BY <1>1, WaitInv
<1>2. CASE exited_list[t[1]] # <<>> /\ Collect(t, Head(exited_list[t[1]]))
  <2>1. t[1] \in Procs /\ TypeOK /\ TreeInv
    BY OneThread DEF IInv
  <2>2. PICK c : c = Head(exited_list[t[1]])
    OBVIOUS
  <2>3. c \in Procs /\ pstate[c] = "ZOMBIE" /\ parent[c] = t[1]
    BY <1>2, <2>1, <2>2, ExitedChild
  <2> QED BY <1>2, <2>2, <2>3, CollectInv
<1> QED BY <1>1, <1>2 DEF AnyChild

\* sys_WaitChild with an argument it accepts.
LEMMA WaitChildInv ==
  ASSUME IInv, NEW t \in Threads, sys_WaitChild(t)
  PROVE  IInv'
<1>1. pstate[t[1]] = "ALIVE" /\ ~ asleep[t]
  BY DEF sys_WaitChild, Running, IInv, CallInv
<1>2. CASE \E c \in Procs : Legal(t, c) /\ SpecificChild(t, c)
  BY <1>1, <1>2, SpecificInv DEF Legal
<1>3. CASE children_list[t[1]] # <<>> /\ AnyChild(t)
  BY <1>1, <1>3, AnyInv
<1> QED BY <1>2, <1>3 DEF sys_WaitChild

\* A woken WaitChild looks again, at a child that is still its own.
LEMMA ResumeInv ==
  ASSUME IInv, NEW t \in Threads, Resume(t)
  PROVE  IInv'
<1>1. /\ ~ asleep[t]
      /\ pc[t] # "run" => pstate[t[1]] = "ALIVE"
      /\ pc[t] = "child" => /\ wanted[t] \in Procs /\ pstate[wanted[t]] # "FREE"
                            /\ parent[wanted[t]] = t[1]
      /\ pc[t] \in {"any", "exit"} => children_list[t[1]] # <<>>
  BY DEF IInv, CallInv, Resume
<1>2. CASE pc[t] = "child" /\ SpecificChild(t, wanted[t])
  BY <1>1, <1>2, SpecificInv
<1>3. CASE pc[t] = "any" /\ AnyChild(t)
  BY <1>1, <1>3, AnyInv
<1> QED BY <1>2, <1>3 DEF Resume

-----------------------------------------------------------------------------
(* Exit.                                                                   *)

\* When every child of the initial process has exited, the others are gone.
LEMMA LastOnes ==
  ASSUME TypeOK, TreeInv, RootInv, DepthInv,
         ToSet(children_list[1]) \subseteq ToSet(exited_list[1])
  PROVE  \A q \in Procs : q # 1 => pstate[q] = "FREE" \/ q \in ToSet(exited_list[1])
<1>1. 1 \in Procs
  BY ProcFacts
<1>2. ToSet(exited_list[1]) = {c \in ToSet(children_list[1]) : pstate[c] = "ZOMBIE"}
  BY <1>1 DEF TreeInv
<1>3. \A q \in Procs : q # 1 => pstate[q] # "ALIVE"
  BY <1>2, Rooted
<1>4. ASSUME NEW q \in Procs, q # 1, pstate[q] # "FREE"
      PROVE  q \in ToSet(exited_list[1])
  <2>1. parent[q] = 1 /\ q \in ToSet(children_list[parent[q]])
    BY <1>3, <1>4, Rooted
  <2> QED BY <2>1
<1> QED BY <1>4

\* The initial process exits when it is the last.
LEMMA InitDieInv ==
  ASSUME IInv, NEW t \in Threads, NEW v \in ExitValues, Die(t, v),
         t[1] = 1, ~ asleep[t], children_list[1] = <<>>, exited_list[1] = <<>>
  PROVE  IInv'
<1>1. /\ K = 1 /\ TypeOK /\ TreeInv /\ FreeLinks /\ RootInv /\ DepthInv /\ CallInv /\ SleepInv
      /\ 1 \in Procs
  BY ProcFacts DEF IInv
<1>2. parent[1] = NULL
  BY <1>1 DEF RootInv
<1>3. \A q \in Procs : q # 1 => pstate[q] = "FREE"
  BY <1>1, LastOnes, EmptyElements
<1>4. Reverse(<<>>) \in Seq(Procs) /\ Len(Reverse(<<>>)) = 0
  <2>1. <<>> \in Seq(Procs) /\ Len(<<>>) = 0
    OBVIOUS
  <2> QED BY <2>1, ReverseElements
<1>5. /\ children_list \in [Procs -> Seq(Procs)] /\ exited_list \in [Procs -> Seq(Procs)]
      /\ pstate \in [Procs -> {"FREE", "ALIVE", "ZOMBIE"}]
      /\ parent \in [Procs -> Procs \cup {NULL}]
  BY <1>1 DEF TypeOK
<1>6. parent' = parent
  <2>1. parent' = [c \in Procs |-> IF c \in ToSet(children_list[1]) THEN 1 ELSE parent[c]]
    BY DEF Die, Reparent
  <2> QED BY <1>5, <2>1, EmptyElements
<1>7. children_list' = children_list
  <2>1. children_list' = [children_list EXCEPT ![1] = Reverse(children_list[1]) \o @,
                                               ![1] = <<>>]
    BY DEF Die
  <2>2. \A r \in Procs : children_list'[r] = IF r = 1 THEN <<>> ELSE children_list[r]
    BY <1>1, <1>5, <2>1
  <2>3. DOMAIN children_list' = Procs /\ children_list' = [r \in Procs |-> children_list'[r]]
    BY <1>5, <2>1
  <2> QED BY <1>5, <2>2, <2>3
<1>8. exited_list' = exited_list
  <2>1. exited_list' = [exited_list EXCEPT ![1] = @ \o exited_list[1], ![1] = <<>>]
    BY <1>2 DEF Die
  <2>2. \A r \in Procs : exited_list'[r] = IF r = 1 THEN <<>> ELSE exited_list[r]
    BY <1>1, <1>5, <2>1
  <2>3. DOMAIN exited_list' = Procs /\ exited_list' = [r \in Procs |-> exited_list'[r]]
    BY <1>5, <2>1
  <2> QED BY <1>5, <2>2, <2>3
<1>9. /\ pstate' = [pstate EXCEPT ![1] = "ZOMBIE"]
      /\ exitval' = [exitval EXCEPT ![1] = v]
      /\ pc' = [pc EXCEPT ![t] = "run"] /\ wanted' = [wanted EXCEPT ![t] = NULL]
      /\ out' = <<>> /\ pcb_freelist' = pcb_freelist
      /\ Broadcast(Told(1))
  BY DEF Die
<1>10. \A q \in Procs : pstate'[q] = IF q = 1 THEN "ZOMBIE" ELSE pstate[q]
  BY <1>5, <1>9
<1>11. \A u \in Threads : ~ asleep'[u] /\ pc'[u] = "run"
  <2>1. ASSUME NEW u \in Threads
        PROVE  pc'[u] = "run" /\ ~ asleep[u]
    <3>1. CASE u = t
      BY <1>1, <1>9, <3>1 DEF TypeOK
    <3>2. CASE u # t
      <4>1. u[1] \in Procs /\ u[1] # 1
        BY <1>1, <3>2, OneThread
      <4>2. pc[u] = "run" /\ ~ asleep[u]
        BY <1>1, <1>3, <4>1 DEF CallInv
      <4> QED BY <1>1, <1>9, <3>2, <4>2 DEF TypeOK
    <3> QED BY <3>1, <3>2
  <2> QED BY <1>9, <2>1 DEF Broadcast
<1>12. TypeOK'
  <2>1. /\ pc' \in [Threads -> {"run", "child", "any", "exit"}]
        /\ wanted' \in [Threads -> Procs \cup ExitValues \cup {NULL}]
        /\ exitval' \in [Procs -> ExitValues]
        /\ pstate' \in [Procs -> {"FREE", "ALIVE", "ZOMBIE"}]
    BY <1>1, <1>9 DEF TypeOK
  <2>2. asleep' \in [Threads -> BOOLEAN]
    BY <1>9 DEF Broadcast
  <2> QED BY <1>1, <1>6, <1>7, <1>8, <1>9, <2>1, <2>2 DEF TypeOK
<1>13. TreeInv'
  <2>1. ASSUME NEW p \in Procs
        PROVE  /\ children_list[p] = <<>> /\ exited_list[p] = <<>>
               /\ {c \in Procs : pstate'[c] # "FREE" /\ parent[c] = p} = {}
    <3>1. ToSet(children_list[p]) = {c \in Procs : pstate[c] # "FREE" /\ parent[c] = p}
      BY <1>1 DEF TreeInv
    <3>2. ToSet(exited_list[p]) \subseteq ToSet(children_list[p])
      BY <1>1 DEF TreeInv
    <3>3. \A c \in Procs : ~ (pstate[c] # "FREE" /\ parent[c] = p)
      BY <1>2, <1>3, ProcFacts
    <3>4. \A c \in Procs : ~ (pstate'[c] # "FREE" /\ parent[c] = p)
      BY <1>2, <1>3, <1>10, ProcFacts
    <3>5. ToSet(children_list[p]) = {} /\ ToSet(exited_list[p]) = {}
      BY <3>1, <3>2, <3>3
    <3>6. children_list[p] \in Seq(Procs) /\ exited_list[p] \in Seq(Procs)
      BY <1>5
    <3>7. children_list[p] = <<>> /\ exited_list[p] = <<>>
      BY <3>5, <3>6, NoElements
    <3> QED BY <3>4, <3>7
  <2> QED BY <1>6, <1>7, <1>8, <2>1, EmptyElements DEF TreeInv
<1>14. FreeLinks'
  <2>1. pstate[1] # "FREE"
    BY <1>1 DEF RootInv
  <2>2. \A c \in Procs : pstate'[c] = "FREE" <=> pstate[c] = "FREE"
    BY <1>10, <2>1
  <2> QED BY <1>1, <1>6, <1>9, <2>2, FreeSame
<1>15. RootInv' /\ DepthInv'
  <2>1. RootInv'
    BY <1>1, <1>6, <1>10 DEF RootInv
  <2>2. PICK d : Deeper(d)
    BY <1>1 DEF DepthInv
  <2>3. Deeper(d)'
    BY <1>6, <1>10, <2>2 DEF Deeper
  <2> QED BY <2>1, <2>3 DEF DepthInv
<1>16. CallInv' /\ SleepInv'
  BY <1>11 DEF CallInv, SleepInv
<1> QED BY <1>1, <1>12, <1>13, <1>14, <1>15, <1>16 DEF IInv

\* What Die leaves: the children of p go to the initial process, those that
\* have exited also to its exited list, and p to its parent's.
Died(p) ==
  /\ p \in Procs /\ 1 \in Procs /\ pstate[1] = "ALIVE"
  /\ parent[p] \in Procs /\ parent[p] # p /\ pstate[parent[p]] = "ALIVE"
  /\ \A c \in Procs : pstate'[c] = IF c = p THEN "ZOMBIE" ELSE pstate[c]
  /\ \A c \in Procs : parent'[c] = IF c \in ToSet(children_list[p]) THEN 1 ELSE parent[c]
  /\ \A r \in Procs :
       /\ children_list'[r] \in Seq(Procs) /\ exited_list'[r] \in Seq(Procs)
       /\ IsInjective(children_list'[r]) /\ IsInjective(exited_list'[r])
       /\ ToSet(children_list'[r]) =
            IF r = p THEN {}
            ELSE IF r = 1 THEN ToSet(children_list[1]) \cup ToSet(children_list[p])
            ELSE ToSet(children_list[r])
       /\ ToSet(exited_list'[r]) =
            IF r = p THEN {}
            ELSE (IF r = 1 THEN ToSet(exited_list[1]) \cup ToSet(exited_list[p])
                  ELSE ToSet(exited_list[r]))
                 \cup (IF r = parent[p] THEN {p} ELSE {})
  /\ parent' \in [Procs -> Procs \cup {NULL}]
  /\ children_list' \in [Procs -> Seq(Procs)] /\ exited_list' \in [Procs -> Seq(Procs)]

\* The lists and fields after the end of sys_Exit.
LEMMA DieLists ==
  ASSUME IInv, NEW t \in Threads, NEW v \in ExitValues, Die(t, v),
         t[1] # 1, pstate[t[1]] = "ALIVE"
  PROVE  Died(t[1])
<1> SUFFICES ASSUME NEW p, p = t[1], p # 1, pstate[p] = "ALIVE"
             PROVE  Died(p)
  OBVIOUS
<1>1. /\ K = 1 /\ TypeOK /\ TreeInv /\ RootInv /\ DepthInv /\ p \in Procs /\ 1 \in Procs
  BY OneThread, ProcFacts DEF IInv
<1>2. PICK q : q = parent[p]
  OBVIOUS
<1>3. q \in Procs /\ q # p /\ pstate[q] = "ALIVE" /\ pstate[1] = "ALIVE" /\ q # NULL
  BY <1>1, <1>2, Rooted, ProcFacts
<1>4. /\ children_list \in [Procs -> Seq(Procs)] /\ exited_list \in [Procs -> Seq(Procs)]
      /\ pstate \in [Procs -> {"FREE", "ALIVE", "ZOMBIE"}]
      /\ parent \in [Procs -> Procs \cup {NULL}]
  BY <1>1 DEF TypeOK
<1>5. PICK ch1, ex1, exq :
        /\ ch1 = Reverse(children_list[p]) \o children_list[1]
        /\ ex1 = exited_list[1] \o exited_list[p]
        /\ exq = <<p>> \o (IF q = 1 THEN ex1 ELSE exited_list[q])
  OBVIOUS
<1>6. /\ parent' = [c \in Procs |-> IF c \in ToSet(children_list[p]) THEN 1 ELSE parent[c]]
      /\ pstate' = [pstate EXCEPT ![p] = "ZOMBIE"]
  BY DEF Die, Reparent
<1>7. children_list' = [children_list EXCEPT ![1] = ch1, ![p] = <<>>]
  <2>1. children_list' = [children_list EXCEPT ![1] = Reverse(children_list[p]) \o @,
                                               ![p] = <<>>]
    BY DEF Die
  <2> QED BY <1>1, <1>4, <1>5, <2>1
<1>8. exited_list' = [[exited_list EXCEPT ![1] = ex1, ![p] = <<>>] EXCEPT ![q] = exq]
  <2>1. exited_list' =
          [[exited_list EXCEPT ![1] = @ \o exited_list[p], ![p] = <<>>]
             EXCEPT ![q] = <<p>> \o @]
    BY <1>2, <1>3 DEF Die
  <2>2. [exited_list EXCEPT ![1] = @ \o exited_list[p], ![p] = <<>>]
          = [exited_list EXCEPT ![1] = ex1, ![p] = <<>>]
    BY <1>1, <1>4, <1>5
  <2>3. [exited_list EXCEPT ![1] = ex1, ![p] = <<>>][q] = IF q = 1 THEN ex1 ELSE exited_list[q]
    BY <1>1, <1>3, <1>4
  <2> QED BY <1>5, <2>1, <2>2, <2>3
<1>9. \A r \in Procs : /\ children_list[r] \in Seq(Procs) /\ exited_list[r] \in Seq(Procs)
                       /\ IsInjective(children_list[r]) /\ IsInjective(exited_list[r])
                       /\ ToSet(children_list[r]) =
                            {c \in Procs : pstate[c] # "FREE" /\ parent[c] = r}
                       /\ ToSet(exited_list[r]) =
                            {c \in ToSet(children_list[r]) : pstate[c] = "ZOMBIE"}
  BY <1>1, <1>4 DEF TreeInv
<1>10. /\ ch1 \in Seq(Procs) /\ IsInjective(ch1)
       /\ ToSet(ch1) = ToSet(children_list[1]) \cup ToSet(children_list[p])
  <2>1. PICK rv : rv = Reverse(children_list[p])
    OBVIOUS
  <2>2. rv \in Seq(Procs) /\ IsInjective(rv) /\ ToSet(rv) = ToSet(children_list[p])
    BY <1>1, <1>9, <2>1, ReverseElements
  <2>3. ToSet(rv) \cap ToSet(children_list[1]) = {}
    <3>1. /\ \A c \in ToSet(children_list[p]) : parent[c] = p
          /\ \A c \in ToSet(children_list[1]) : parent[c] = 1
      BY <1>1, <1>9
    <3>2. \A c \in ToSet(children_list[p]) : c \notin ToSet(children_list[1])
      BY <3>1
    <3> QED BY <2>2, <3>2
  <2>4. /\ rv \o children_list[1] \in Seq(Procs)
        /\ ToSet(rv \o children_list[1]) = ToSet(rv) \cup ToSet(children_list[1])
        /\ (IsInjective(rv) /\ IsInjective(children_list[1])
              /\ ToSet(rv) \cap ToSet(children_list[1]) = {}
              => IsInjective(rv \o children_list[1]))
    BY <1>1, <1>9, <2>2, ConcatElements
  <2>5. ch1 = rv \o children_list[1]
    BY <1>5, <2>1
  <2>6. IsInjective(children_list[1])
    BY <1>1, <1>9
  <2> QED BY <2>2, <2>3, <2>4, <2>5, <2>6
<1>11. /\ ex1 \in Seq(Procs) /\ IsInjective(ex1)
       /\ ToSet(ex1) = ToSet(exited_list[1]) \cup ToSet(exited_list[p])
  <2>1. ToSet(exited_list[1]) \cap ToSet(exited_list[p]) = {}
    BY <1>1, <1>9
  <2>2. /\ exited_list[1] \o exited_list[p] \in Seq(Procs)
        /\ ToSet(exited_list[1] \o exited_list[p]) =
             ToSet(exited_list[1]) \cup ToSet(exited_list[p])
        /\ (IsInjective(exited_list[1]) /\ IsInjective(exited_list[p])
              /\ ToSet(exited_list[1]) \cap ToSet(exited_list[p]) = {}
              => IsInjective(exited_list[1] \o exited_list[p]))
    BY <1>1, <1>9, ConcatElements
  <2>3. IsInjective(exited_list[1]) /\ IsInjective(exited_list[p])
    BY <1>1, <1>9
  <2> QED BY <1>5, <2>1, <2>2, <2>3
<1>12. /\ exq \in Seq(Procs) /\ IsInjective(exq)
       /\ ToSet(exq) = (IF q = 1 THEN ToSet(exited_list[1]) \cup ToSet(exited_list[p])
                        ELSE ToSet(exited_list[q])) \cup {p}
  <2>1. PICK s : s = IF q = 1 THEN ex1 ELSE exited_list[q]
    OBVIOUS
  <2>2. /\ s \in Seq(Procs) /\ IsInjective(s)
        /\ ToSet(s) = IF q = 1 THEN ToSet(exited_list[1]) \cup ToSet(exited_list[p])
                      ELSE ToSet(exited_list[q])
    BY <1>3, <1>9, <1>11, <2>1
  <2>3. p \notin ToSet(s)
    <3>1. \A r \in Procs : p \notin ToSet(exited_list[r])
      BY <1>9
    <3> QED BY <1>1, <1>3, <2>2, <3>1
  <2>4. /\ <<p>> \o s \in Seq(Procs) /\ ToSet(<<p>> \o s) = ToSet(s) \cup {p}
        /\ IsInjective(<<p>> \o s)
    BY <1>1, <2>2, <2>3, PrependElement
  <2>5. exq = <<p>> \o s
    BY <1>5, <2>1
  <2> QED BY <2>2, <2>4, <2>5
<1>13. ASSUME NEW r \in Procs
       PROVE  /\ children_list'[r] = IF r = p THEN <<>> ELSE IF r = 1 THEN ch1
                                     ELSE children_list[r]
              /\ exited_list'[r] = IF r = p THEN <<>> ELSE IF r = q THEN exq
                                   ELSE IF r = 1 THEN ex1 ELSE exited_list[r]
  <2>1. children_list'[r] = IF r = p THEN <<>> ELSE IF r = 1 THEN ch1 ELSE children_list[r]
    BY <1>1, <1>4, <1>7
  <2>2. PICK h : h = [exited_list EXCEPT ![1] = ex1, ![p] = <<>>]
    OBVIOUS
  <2>3. DOMAIN h = Procs /\ h[r] = IF r = p THEN <<>> ELSE IF r = 1 THEN ex1 ELSE exited_list[r]
    BY <1>1, <1>4, <2>2
  <2>4. exited_list' = [h EXCEPT ![q] = exq]
    BY <1>8, <2>2
  <2>5. exited_list'[r] = IF r = q THEN exq ELSE h[r]
    BY <2>3, <2>4
  <2> QED BY <1>3, <2>1, <2>3, <2>5
<1>14. ASSUME NEW r \in Procs
       PROVE  /\ children_list'[r] \in Seq(Procs) /\ IsInjective(children_list'[r])
              /\ ToSet(children_list'[r]) =
                   IF r = p THEN {}
                   ELSE IF r = 1 THEN ToSet(children_list[1]) \cup ToSet(children_list[p])
                   ELSE ToSet(children_list[r])
  BY <1>9, <1>10, <1>13, EmptyElements
<1>15. ASSUME NEW r \in Procs
       PROVE  /\ exited_list'[r] \in Seq(Procs) /\ IsInjective(exited_list'[r])
              /\ ToSet(exited_list'[r]) =
                   IF r = p THEN {}
                   ELSE (IF r = 1 THEN ToSet(exited_list[1]) \cup ToSet(exited_list[p])
                         ELSE ToSet(exited_list[r]))
                        \cup (IF r = q THEN {p} ELSE {})
  <2>1. CASE r = p
    BY <1>13, <2>1, EmptyElements
  <2>2. CASE r # p /\ r = q
    BY <1>12, <1>13, <2>2
  <2>3. CASE r # p /\ r # q
    BY <1>9, <1>11, <1>13, <2>3
  <2> QED BY <2>1, <2>2, <2>3
<1>16. /\ \A c \in Procs : pstate'[c] = IF c = p THEN "ZOMBIE" ELSE pstate[c]
       /\ \A c \in Procs : parent'[c] = IF c \in ToSet(children_list[p]) THEN 1 ELSE parent[c]
       /\ parent' \in [Procs -> Procs \cup {NULL}]
  BY <1>1, <1>4, <1>6
<1>17. children_list' \in [Procs -> Seq(Procs)] /\ exited_list' \in [Procs -> Seq(Procs)]
  <2>1. /\ children_list' = [r \in Procs |-> children_list'[r]]
        /\ exited_list' = [r \in Procs |-> exited_list'[r]]
    BY <1>4, <1>7, <1>8
  <2> QED BY <1>14, <1>15, <2>1
<1> QED BY <1>1, <1>2, <1>3, <1>14, <1>15, <1>16, <1>17 DEF Died

\* A process exits: its children go to the initial process, it to its parent.
LEMMA DieInv ==
  ASSUME IInv, NEW t \in Threads, NEW v \in ExitValues, Die(t, v),
         t[1] # 1, pstate[t[1]] = "ALIVE", ~ asleep[t]
  PROVE  IInv'
<1>1. PICK p : p = t[1]
  OBVIOUS
<1>2. /\ K = 1 /\ TypeOK /\ TreeInv /\ FreeLinks /\ RootInv /\ DepthInv /\ CallInv /\ SleepInv
      /\ p # 1 /\ pstate[p] = "ALIVE"
  BY <1>1 DEF IInv
<1>3. PICK q : q = parent[p]
  OBVIOUS
<1>4. /\ p \in Procs /\ 1 \in Procs /\ pstate[1] = "ALIVE"
      /\ q \in Procs /\ q # p /\ pstate[q] = "ALIVE"
      /\ \A c \in Procs : pstate'[c] = IF c = p THEN "ZOMBIE" ELSE pstate[c]
      /\ \A c \in Procs : parent'[c] = IF c \in ToSet(children_list[p]) THEN 1 ELSE parent[c]
      /\ \A r \in Procs :
           /\ children_list'[r] \in Seq(Procs) /\ exited_list'[r] \in Seq(Procs)
           /\ IsInjective(children_list'[r]) /\ IsInjective(exited_list'[r])
           /\ ToSet(children_list'[r]) =
                IF r = p THEN {}
                ELSE IF r = 1 THEN ToSet(children_list[1]) \cup ToSet(children_list[p])
                ELSE ToSet(children_list[r])
           /\ ToSet(exited_list'[r]) =
                IF r = p THEN {}
                ELSE (IF r = 1 THEN ToSet(exited_list[1]) \cup ToSet(exited_list[p])
                      ELSE ToSet(exited_list[r]))
                     \cup (IF r = q THEN {p} ELSE {})
      /\ parent' \in [Procs -> Procs \cup {NULL}]
      /\ children_list' \in [Procs -> Seq(Procs)] /\ exited_list' \in [Procs -> Seq(Procs)]
  <2>1. Died(t[1])
    BY DieLists
  <2>2. Died(p)
    BY <1>1, <2>1
  <2> QED BY <1>2, <1>3, <2>2 DEF Died
<1>5. /\ pstate' = [pstate EXCEPT ![p] = "ZOMBIE"]
      /\ exitval' = [exitval EXCEPT ![p] = v]
      /\ pc' = [pc EXCEPT ![t] = "run"] /\ wanted' = [wanted EXCEPT ![t] = NULL]
      /\ out' = <<>> /\ pcb_freelist' = pcb_freelist
      /\ Broadcast(Told(p))
  BY <1>1 DEF Die
<1>6. \A r \in Procs : /\ children_list[r] \in Seq(Procs) /\ exited_list[r] \in Seq(Procs)
                       /\ ToSet(children_list[r]) =
                            {c \in Procs : pstate[c] # "FREE" /\ parent[c] = r}
                       /\ ToSet(exited_list[r]) =
                            {c \in ToSet(children_list[r]) : pstate[c] = "ZOMBIE"}
                       /\ children_list[r] # <<>> => pstate[r] = "ALIVE"
  BY <1>2 DEF TreeInv, TypeOK
<1>7. /\ \A c \in Procs : c \in ToSet(children_list[p]) <=> pstate[c] # "FREE" /\ parent[c] = p
      /\ p \notin ToSet(children_list[p]) /\ 1 \notin ToSet(children_list[p])
  BY <1>2, <1>3, <1>4, <1>6, ProcFacts DEF RootInv
<1>8. TypeOK'
  <2>1. /\ pc' \in [Threads -> {"run", "child", "any", "exit"}]
        /\ wanted' \in [Threads -> Procs \cup ExitValues \cup {NULL}]
        /\ exitval' \in [Procs -> ExitValues]
        /\ pstate' \in [Procs -> {"FREE", "ALIVE", "ZOMBIE"}]
    BY <1>2, <1>5 DEF TypeOK
  <2>2. asleep' \in [Threads -> BOOLEAN]
    BY <1>5 DEF Broadcast
  <2> QED BY <1>2, <1>4, <1>5, <2>1, <2>2 DEF TypeOK
<1>9. TreeInv'
  <2>1. ASSUME NEW r \in Procs
        PROVE  /\ ToSet(children_list'[r]) =
                    {c \in Procs : pstate'[c] # "FREE" /\ parent'[c] = r}
               /\ ToSet(exited_list'[r]) =
                    {c \in ToSet(children_list'[r]) : pstate'[c] = "ZOMBIE"}
               /\ children_list'[r] # <<>> => pstate'[r] = "ALIVE"
    <3>1. \A x \in Procs : /\ ToSet(children_list[x]) \subseteq Procs
                           /\ ToSet(exited_list[x]) \subseteq Procs
      BY <1>6, ElementsType
    <3>2. ToSet(children_list'[r]) \subseteq Procs /\ ToSet(exited_list'[r]) \subseteq Procs
      BY <1>4, ElementsType
    <3>3. \A c \in Procs : pstate'[c] # "FREE" <=> pstate[c] # "FREE"
      BY <1>2, <1>4
    <3>4. ASSUME NEW c \in Procs
          PROVE  c \in ToSet(children_list'[r]) <=> pstate[c] # "FREE" /\ parent'[c] = r
      <4>1. /\ c \in ToSet(children_list'[r]) <=>
                 /\ r # p
                 /\ \/ c \in ToSet(children_list[r])
                    \/ r = 1 /\ c \in ToSet(children_list[p])
            /\ \A x \in Procs : c \in ToSet(children_list[x])
                                  <=> pstate[c] # "FREE" /\ parent[c] = x
            /\ parent'[c] = IF c \in ToSet(children_list[p]) THEN 1 ELSE parent[c]
        <5>1. ToSet(children_list'[r]) =
                IF r = p THEN {}
                ELSE IF r = 1 THEN ToSet(children_list[1]) \cup ToSet(children_list[p])
                ELSE ToSet(children_list[r])
          BY <1>4
        <5>2. \A x \in Procs : ToSet(children_list[x]) =
                                 {y \in Procs : pstate[y] # "FREE" /\ parent[y] = x}
          BY <1>6
        <5>3. c \in ToSet(children_list'[r]) <=>
                 /\ r # p
                 /\ \/ c \in ToSet(children_list[r])
                    \/ r = 1 /\ c \in ToSet(children_list[p])
          BY <5>1
        <5>4. \A x \in Procs : c \in ToSet(children_list[x])
                                  <=> pstate[c] # "FREE" /\ parent[c] = x
          BY <5>2
        <5>5. parent'[c] = IF c \in ToSet(children_list[p]) THEN 1 ELSE parent[c]
          BY <1>4
        <5> QED BY <5>3, <5>4, <5>5
      <4> QED BY <1>2, <1>4, <4>1
    <3>5. ASSUME NEW c \in Procs
          PROVE  c \in ToSet(exited_list'[r])
                   <=> c \in ToSet(children_list'[r]) /\ pstate'[c] = "ZOMBIE"
      <4>1. CASE c = p
        <5>1. c \in ToSet(children_list'[r]) <=> r = q
          BY <1>2, <1>3, <1>4, <1>7, <3>4, <4>1
        <5>2. c \in ToSet(exited_list'[r]) <=> r = q
          <6>1. \A x \in Procs : p \notin ToSet(exited_list[x])
            BY <1>2, <1>6
          <6> QED BY <1>2, <1>4, <4>1, <6>1
        <5> QED BY <1>4, <4>1, <5>1, <5>2
      <4>2. CASE c # p
        <5>1. \A x \in Procs : c \in ToSet(exited_list[x])
                 <=> c \in ToSet(children_list[x]) /\ pstate[c] = "ZOMBIE"
          BY <1>6
        <5>2. pstate'[c] = pstate[c]
          BY <1>4, <4>2
        <5>3. /\ c \in ToSet(children_list'[r]) <=>
                   /\ r # p
                   /\ \/ c \in ToSet(children_list[r])
                      \/ r = 1 /\ c \in ToSet(children_list[p])
              /\ c \in ToSet(exited_list'[r]) <=>
                   /\ r # p
                   /\ \/ c \in ToSet(exited_list[r])
                      \/ r = 1 /\ c \in ToSet(exited_list[p])
          <6>1. /\ ToSet(children_list'[r]) =
                     IF r = p THEN {}
                     ELSE IF r = 1 THEN ToSet(children_list[1]) \cup ToSet(children_list[p])
                     ELSE ToSet(children_list[r])
                /\ ToSet(exited_list'[r]) =
                     IF r = p THEN {}
                     ELSE (IF r = 1 THEN ToSet(exited_list[1]) \cup ToSet(exited_list[p])
                           ELSE ToSet(exited_list[r]))
                          \cup (IF r = q THEN {p} ELSE {})
            BY <1>4
          <6> QED BY <4>2, <6>1
        <5> QED BY <1>4, <5>1, <5>2, <5>3
      <4> QED BY <4>1, <4>2
    <3>6. ASSUME children_list'[r] # <<>>
          PROVE  pstate'[r] = "ALIVE"
      <4>1. ToSet(children_list'[r]) # {}
        BY <1>4, <3>6, NoElements
      <4>2. r # p
        BY <1>4, <4>1
      <4>3. r # 1 => ToSet(children_list[r]) # {}
        BY <1>4, <4>1, <4>2
      <4>4. r # 1 => children_list[r] # <<>>
        BY <4>3, EmptyElements
      <4> QED BY <1>4, <1>6, <4>2, <4>4
    <3> QED BY <3>2, <3>3, <3>4, <3>5, <3>6
  <2> QED BY <1>4, <2>1 DEF TreeInv
<1>10. FreeLinks'
  <2>1. \A c \in Procs : pstate'[c] = "FREE" <=> pstate[c] = "FREE"
    BY <1>2, <1>4
  <2>2. \A c \in Procs : pstate[c] = "FREE" => parent'[c] = parent[c]
    BY <1>4, <1>7
  <2> QED BY <1>2, <1>5, <2>1, <2>2, FreeSame
<1>11. RootInv'
  BY <1>2, <1>4, <1>7 DEF RootInv
<1>12. DepthInv'
  <2>1. PICK d : Deeper(d)
    BY <1>2 DEF DepthInv
  <2>2. d \in [Procs -> Nat]
    BY <2>1 DEF Deeper
  <2> DEFINE e == [d EXCEPT ![1] = 0]
  <2>3. e \in [Procs -> Nat] /\ \A c \in Procs : e[c] = IF c = 1 THEN 0 ELSE d[c]
    BY <2>2
  <2> HIDE DEF e
  <2>4. ASSUME NEW c \in Procs, c # 1, pstate'[c] # "FREE"
        PROVE  e[parent'[c]] < e[c]
    <3>1. /\ parent[c] \in Procs /\ d[parent[c]] < d[c]
          /\ d[parent[c]] \in Nat /\ d[c] \in Nat /\ e[c] = d[c]
      <4>1. pstate[c] # "FREE"
        BY <1>2, <1>4, <2>4
      <4> QED BY <1>2, <2>1, <2>2, <2>3, <2>4, <4>1 DEF Deeper, RootInv
    <3>2. parent'[c] = 1 \/ parent'[c] = parent[c]
      BY <1>4
    <3>3. e[parent'[c]] = 0 \/ e[parent'[c]] = d[parent[c]]
      BY <1>4, <2>3, <3>1, <3>2
    <3>4. d[c] > 0
      BY <3>1
    <3> QED BY <3>1, <3>3, <3>4
  <2>5. Deeper(e)'
    BY <2>3, <2>4 DEF Deeper
  <2> QED BY <2>5 DEF DepthInv
\* A thread of another process.
<1>13. ASSUME NEW u \in Threads, u # t
       PROVE  /\ u[1] \in Procs /\ u[1] # p /\ pc'[u] = pc[u] /\ wanted'[u] = wanted[u]
              /\ children_list[u[1]] # <<>> => children_list'[u[1]] # <<>>
              /\ pstate'[u[1]] = pstate[u[1]]
              /\ \A w \in Procs : parent[w] = u[1] => parent'[w] = u[1]
              /\ asleep'[u] => /\ asleep[u] /\ u[1] # q
                               /\ exited_list[u[1]] = <<>> => exited_list'[u[1]] = <<>>
  <2>1. u[1] \in Procs /\ u[1] # p
    BY <1>1, <1>2, <1>13, OneThread
  <2>2. pc'[u] = pc[u] /\ wanted'[u] = wanted[u]
    BY <1>2, <1>5, <1>13 DEF TypeOK
  <2>3. ToSet(children_list[u[1]]) \subseteq ToSet(children_list'[u[1]])
    BY <1>4, <2>1
  <2>4. children_list[u[1]] # <<>> => children_list'[u[1]] # <<>>
    <3>1. children_list[u[1]] \in Seq(Procs) /\ children_list'[u[1]] \in Seq(Procs)
      BY <1>4, <1>6, <2>1
    <3> QED BY <2>3, <3>1, NoElements
  <2>5. \A w \in Procs : parent[w] = u[1] => parent'[w] = u[1]
    BY <1>4, <1>7, <2>1
  <2>6. ASSUME asleep'[u]
        PROVE  /\ asleep[u] /\ u[1] # q
               /\ exited_list[u[1]] = <<>> => exited_list'[u[1]] = <<>>
    <3>1. asleep[u] /\ u[1] \notin Told(p)
      BY <1>5, <2>6 DEF Broadcast
    <3>2. u[1] # q /\ (u[1] = 1 => exited_list[p] = <<>>)
      <4>1. q # NULL
        BY <1>4, ProcFacts
      <4> QED BY <1>3, <3>1, <4>1 DEF Told
    <3>3. ASSUME exited_list[u[1]] = <<>>
          PROVE  exited_list'[u[1]] = <<>>
      <4>1. ToSet(exited_list[u[1]]) = {} /\ (u[1] = 1 => ToSet(exited_list[p]) = {})
        BY <3>2, <3>3, EmptyElements
      <4>2. ToSet(exited_list'[u[1]]) =
              (IF u[1] = 1 THEN ToSet(exited_list[1]) \cup ToSet(exited_list[p])
               ELSE ToSet(exited_list[u[1]])) \cup (IF u[1] = q THEN {p} ELSE {})
        BY <1>4, <2>1
      <4>3. ToSet(exited_list'[u[1]]) = {} /\ exited_list'[u[1]] \in Seq(Procs)
        BY <1>4, <2>1, <3>2, <4>1, <4>2
      <4> QED BY <4>3, NoElements
    <3> QED BY <3>1, <3>2, <3>3
  <2> QED BY <1>4, <2>1, <2>2, <2>4, <2>5, <2>6
<1>14. pc'[t] = "run" /\ ~ asleep'[t]
  BY <1>2, <1>5 DEF TypeOK, Broadcast
<1>15. CallInv'
  <2>1. ASSUME NEW u \in Threads
        PROVE  /\ asleep'[u] => pc'[u] # "run"
               /\ pc'[u] # "run" => pstate'[u[1]] = "ALIVE"
               /\ pc'[u] = "child" => /\ wanted'[u] \in Procs /\ pstate'[wanted'[u]] # "FREE"
                                      /\ parent'[wanted'[u]] = u[1]
               /\ pc'[u] \in {"any", "exit"} => children_list'[u[1]] # <<>>
               /\ pc'[u] = "exit" => u[1] = 1 /\ wanted'[u] \in ExitValues
    <3>1. CASE u = t
      BY <1>14, <3>1
    <3>2. CASE u # t
      <4>1. /\ asleep[u] => pc[u] # "run"
            /\ pc[u] # "run" => pstate[u[1]] = "ALIVE"
            /\ pc[u] = "child" => /\ wanted[u] \in Procs /\ pstate[wanted[u]] # "FREE"
                                  /\ parent[wanted[u]] = u[1]
            /\ pc[u] \in {"any", "exit"} => children_list[u[1]] # <<>>
            /\ pc[u] = "exit" => u[1] = 1 /\ wanted[u] \in ExitValues
        BY <1>2 DEF CallInv
      <4>2. \A c \in Procs : pstate[c] # "FREE" => pstate'[c] # "FREE"
        BY <1>4
      <4> QED BY <1>13, <3>2, <4>1, <4>2
    <3> QED BY <3>1, <3>2
  <2> QED BY <2>1 DEF CallInv
<1>16. SleepInv'
  <2>1. ASSUME NEW u \in Threads, asleep'[u]
        PROVE  /\ pstate'[u[1]] = "ALIVE"
               /\ pc'[u] = "child" =>
                    pstate'[wanted'[u]] = "ALIVE" /\ parent'[wanted'[u]] = u[1]
               /\ pc'[u] \in {"any", "exit"} =>
                    children_list'[u[1]] # <<>> /\ exited_list'[u[1]] = <<>>
    <3>1. u # t
      BY <1>14, <2>1
    <3>2. asleep[u] /\ u[1] # q
      BY <1>13, <2>1, <3>1
    <3>3. /\ pstate[u[1]] = "ALIVE"
          /\ pc[u] = "child" => pstate[wanted[u]] = "ALIVE" /\ parent[wanted[u]] = u[1]
          /\ pc[u] \in {"any", "exit"} =>
               children_list[u[1]] # <<>> /\ exited_list[u[1]] = <<>>
      BY <1>2, <3>2 DEF SleepInv
    <3>4. pc[u] = "child" => wanted[u] \in Procs
      BY <1>2 DEF CallInv
    <3>5. pc[u] = "child" => wanted[u] # p
      BY <1>3, <3>2, <3>3
    <3>6. pc[u] = "child" => pstate'[wanted[u]] = "ALIVE" /\ parent'[wanted[u]] = u[1]
      BY <1>4, <1>13, <3>1, <3>3, <3>4, <3>5
    <3> QED BY <1>13, <2>1, <3>1, <3>3, <3>6
  <2> QED BY <2>1 DEF SleepInv
<1> QED BY <1>2, <1>8, <1>9, <1>10, <1>11, <1>12, <1>15, <1>16 DEF IInv

\* The initial process collects what has exited, and ends or goes on waiting.
LEMMA InitLoopInv ==
  ASSUME IInv, NEW t \in Threads, NEW v \in ExitValues, InitLoop(t, v),
         t[1] = 1, ~ asleep[t], pstate[1] = "ALIVE"
  PROVE  IInv'
<1>1. /\ K = 1 /\ TypeOK /\ TreeInv /\ FreeLinks /\ RootInv /\ DepthInv /\ CallInv /\ SleepInv
      /\ 1 \in Procs
  BY ProcFacts DEF IInv
<1>2. PICK zs, Z, left : /\ zs = exited_list[1] /\ Z = ToSet(zs)
                         /\ left = ToSet(children_list[1]) \ Z
  OBVIOUS
<1>3. /\ children_list[1] \in Seq(Procs) /\ zs \in Seq(Procs) /\ IsInjective(zs)
      /\ ToSet(children_list[1]) = {c \in Procs : pstate[c] # "FREE" /\ parent[c] = 1}
      /\ Z = {c \in ToSet(children_list[1]) : pstate[c] = "ZOMBIE"}
  BY <1>1, <1>2 DEF TypeOK, TreeInv
<1>4. /\ \A c \in Z : c \in Procs /\ pstate[c] = "ZOMBIE" /\ parent[c] = 1 /\ c # 1
      /\ 1 \notin Z
  BY <1>1, <1>3
<1>5. CASE left = {} /\ zs = <<>>
  <2>1. Die(t, v)
    BY <1>2, <1>5 DEF InitLoop
  <2>2. children_list[1] = <<>>
    <3>1. ToSet(children_list[1]) = {}
      BY <1>2, <1>5, EmptyElements
    <3> QED BY <1>3, <3>1, NoElements
  <2> QED BY <1>2, <1>5, <2>1, <2>2, InitDieInv
<1>6. CASE ~ (left = {} /\ zs = <<>>)
  <2>1. /\ cleanup_zombie(zs)
        /\ pstate' = [p \in Procs |-> IF p \in Z THEN "FREE"
                                      ELSE IF p = 1 /\ left = {} THEN "ZOMBIE" ELSE pstate[p]]
        /\ exitval' = IF left = {} THEN [exitval EXCEPT ![1] = v] ELSE exitval
        /\ pc' = [pc EXCEPT ![t] = IF left = {} THEN "run" ELSE "exit"]
        /\ wanted' = [wanted EXCEPT ![t] = IF left = {} THEN NULL ELSE v]
        /\ asleep' = [asleep EXCEPT ![t] = left # {}]
        /\ out' = <<>>
    BY <1>2, <1>6 DEF InitLoop
  <2>2. /\ \A c \in Procs : pstate'[c] = IF c \in Z THEN "FREE"
                                         ELSE IF c = 1 THEN pstate'[1] ELSE pstate[c]
        /\ pstate'[1] = IF left = {} THEN "ZOMBIE" ELSE "ALIVE"
    BY <1>1, <1>4, <2>1
  <2>3. Cleaned(Z)
    <3>1. /\ \A c \in ToSet(zs) : pstate[c] = "ZOMBIE" /\ c # 1
          /\ \A c \in Procs : pstate'[c] = IF c \in ToSet(zs) THEN "FREE"
                                           ELSE IF c = 1 THEN pstate'[1] ELSE pstate[c]
          /\ \/ pstate'[1] = pstate[1]
             \/ pstate'[1] = "ZOMBIE" /\ ToSet(children_list[1]) \subseteq ToSet(zs)
      BY <1>2, <1>4, <2>2
    <3>2. Cleaned(ToSet(zs))
      BY <1>1, <1>3, <2>1, <3>1, CleanUp
    <3> QED BY <1>2, <3>2
  <2>4. TypeOK'
    <3>1. /\ pstate' \in [Procs -> {"FREE", "ALIVE", "ZOMBIE"}]
          /\ exitval' \in [Procs -> ExitValues]
          /\ asleep' \in [Threads -> BOOLEAN]
      BY <1>1, <2>1 DEF TypeOK
    <3>2. pc' \in [Threads -> {"run", "child", "any", "exit"}]
      BY <1>1, <2>1 DEF TypeOK
    <3>3. wanted' \in [Threads -> Procs \cup ExitValues \cup {NULL}]
      BY <1>1, <2>1 DEF TypeOK
    <3> QED BY <1>1, <2>1, <2>3, <3>1, <3>2, <3>3 DEF TypeOK, Cleaned
  <2>5. \A u \in Threads : /\ pc'[u] = IF u = t THEN (IF left = {} THEN "run" ELSE "exit")
                                       ELSE pc[u]
                           /\ wanted'[u] = IF u = t THEN (IF left = {} THEN NULL ELSE v)
                                           ELSE wanted[u]
                           /\ asleep'[u] = IF u = t THEN left # {} ELSE asleep[u]
    <3>1. /\ \A u \in Threads : pc'[u] = IF u = t THEN (IF left = {} THEN "run" ELSE "exit")
                                       ELSE pc[u]
          /\ \A u \in Threads : wanted'[u] = IF u = t THEN (IF left = {} THEN NULL ELSE v)
                                           ELSE wanted[u]
      BY <1>1, <2>1 DEF TypeOK
    <3>2. \A u \in Threads : asleep'[u] = IF u = t THEN left # {} ELSE asleep[u]
      BY <1>1, <2>1, Zenon DEF TypeOK
    <3> QED BY <3>1, <3>2
  <2>6. CASE left = {}
    <3>1. ASSUME NEW u \in Threads
          PROVE  pc'[u] = "run" /\ ~ asleep'[u]
      <4>1. CASE u = t
        BY <2>5, <2>6, <4>1
      <4>2. CASE u # t
        <5>1. u[1] \in Procs /\ u[1] # 1
          BY <1>1, <4>2, OneThread
        <5>2. ToSet(children_list[1]) \subseteq ToSet(exited_list[1])
          BY <1>2, <2>6
        <5>3. pstate[u[1]] = "FREE" \/ u[1] \in Z
          BY <1>1, <1>2, <5>1, <5>2, LastOnes
        <5>4. pstate[u[1]] # "ALIVE"
          BY <1>4, <5>3
        <5>5. pc[u] = "run" /\ ~ asleep[u]
          BY <1>1, <5>4 DEF CallInv
        <5> QED BY <2>5, <4>2, <5>5
      <4> QED BY <4>1, <4>2
    <3>2. CallInv' /\ SleepInv'
      BY <3>1 DEF CallInv, SleepInv
    <3> QED BY <1>1, <2>3, <2>4, <3>2 DEF IInv, Cleaned
  <2>7. CASE left # {}
    <3>1. /\ pc'[t] = "exit" /\ wanted'[t] = v /\ pstate'[1] = "ALIVE"
          /\ children_list'[1] # <<>> /\ exited_list'[1] = <<>>
      <4>1. /\ children_list'[1] \in Seq(Procs) /\ exited_list'[1] \in Seq(Procs)
            /\ ToSet(children_list'[1]) = ToSet(children_list[1]) \ Z
            /\ ToSet(exited_list'[1]) = ToSet(exited_list[1]) \ Z
        BY <1>1, <2>3 DEF Cleaned
      <4>2. ToSet(children_list'[1]) # {} /\ ToSet(exited_list'[1]) = {}
        BY <1>2, <2>7, <4>1
      <4>3. children_list'[1] # <<>> /\ exited_list'[1] = <<>>
        BY <4>1, <4>2, NoElements
      <4> QED BY <2>2, <2>5, <2>7, <4>3
    <3>2. ASSUME NEW u \in Threads, u # t
          PROVE  /\ u[1] \in Procs /\ u[1] # 1
                 /\ pc'[u] = pc[u] /\ wanted'[u] = wanted[u] /\ asleep'[u] = asleep[u]
                 /\ children_list'[u[1]] = <<>> <=> children_list[u[1]] = <<>>
                 /\ exited_list'[u[1]] = <<>> <=> exited_list[u[1]] = <<>>
                 /\ pstate[u[1]] = "ALIVE" => pstate'[u[1]] = "ALIVE"
                 /\ \A w \in Procs : parent[w] = u[1] =>
                                       parent'[w] = parent[w] /\ pstate'[w] = pstate[w]
      <4>1. u[1] \in Procs /\ u[1] # 1
        BY <1>1, <3>2, OneThread
      <4>2. pc'[u] = pc[u] /\ wanted'[u] = wanted[u] /\ asleep'[u] = asleep[u]
        BY <2>5, <3>2
      <4>3. /\ children_list[u[1]] \in Seq(Procs) /\ exited_list[u[1]] \in Seq(Procs)
            /\ \A c \in ToSet(children_list[u[1]]) : parent[c] = u[1]
            /\ ToSet(exited_list[u[1]]) \subseteq ToSet(children_list[u[1]])
        BY <1>1, <4>1 DEF TypeOK, TreeInv
      <4>4. /\ children_list'[u[1]] \in Seq(Procs) /\ exited_list'[u[1]] \in Seq(Procs)
            /\ ToSet(children_list'[u[1]]) = ToSet(children_list[u[1]]) \ Z
            /\ ToSet(exited_list'[u[1]]) = ToSet(exited_list[u[1]]) \ Z
        BY <2>3, <4>1 DEF Cleaned
      <4>5. \A c \in ToSet(children_list[u[1]]) : c \notin Z
        BY <1>4, <4>1, <4>3
      <4>6. /\ ToSet(children_list'[u[1]]) = ToSet(children_list[u[1]])
            /\ ToSet(exited_list'[u[1]]) = ToSet(exited_list[u[1]])
        BY <4>3, <4>4, <4>5
      <4>7. /\ children_list'[u[1]] = <<>> <=> children_list[u[1]] = <<>>
            /\ exited_list'[u[1]] = <<>> <=> exited_list[u[1]] = <<>>
        BY <4>3, <4>4, <4>6, NoElements
      <4>8. pstate[u[1]] = "ALIVE" => pstate'[u[1]] = "ALIVE"
        BY <1>4, <2>2, <4>1
      <4>9. ASSUME NEW w \in Procs, parent[w] = u[1]
            PROVE  parent'[w] = parent[w] /\ pstate'[w] = pstate[w]
        <5>1. w \notin Z /\ w # 1
          BY <1>1, <1>4, <4>1, <4>9, ProcFacts DEF RootInv
        <5> QED BY <2>2, <2>3, <5>1 DEF Cleaned
      <4> QED BY <4>1, <4>2, <4>7, <4>8, <4>9
    <3>3. CallInv'
      <4>1. ASSUME NEW u \in Threads
            PROVE  /\ asleep'[u] => pc'[u] # "run"
                   /\ pc'[u] # "run" => pstate'[u[1]] = "ALIVE"
                   /\ pc'[u] = "child" =>
                        /\ wanted'[u] \in Procs /\ pstate'[wanted'[u]] # "FREE"
                        /\ parent'[wanted'[u]] = u[1]
                   /\ pc'[u] \in {"any", "exit"} => children_list'[u[1]] # <<>>
                   /\ pc'[u] = "exit" => u[1] = 1 /\ wanted'[u] \in ExitValues
        <5>1. CASE u = t
          BY <3>1, <5>1
        <5>2. CASE u # t
          <6>1. /\ asleep[u] => pc[u] # "run"
                /\ pc[u] # "run" => pstate[u[1]] = "ALIVE"
                /\ pc[u] = "child" => /\ wanted[u] \in Procs /\ pstate[wanted[u]] # "FREE"
                                      /\ parent[wanted[u]] = u[1]
                /\ pc[u] \in {"any", "exit"} => children_list[u[1]] # <<>>
                /\ pc[u] = "exit" => u[1] = 1 /\ wanted[u] \in ExitValues
            BY <1>1 DEF CallInv
          <6> QED BY <3>2, <5>2, <6>1
        <5> QED BY <5>1, <5>2
      <4> QED BY <4>1 DEF CallInv
    <3>4. SleepInv'
      <4>1. ASSUME NEW u \in Threads, asleep'[u]
            PROVE  /\ pstate'[u[1]] = "ALIVE"
                   /\ pc'[u] = "child" =>
                        pstate'[wanted'[u]] = "ALIVE" /\ parent'[wanted'[u]] = u[1]
                   /\ pc'[u] \in {"any", "exit"} =>
                        children_list'[u[1]] # <<>> /\ exited_list'[u[1]] = <<>>
        <5>1. CASE u = t
          BY <3>1, <5>1
        <5>2. CASE u # t
          <6>1. asleep[u]
            BY <3>2, <4>1, <5>2
          <6>2. /\ pstate[u[1]] = "ALIVE"
                /\ pc[u] = "child" => pstate[wanted[u]] = "ALIVE" /\ parent[wanted[u]] = u[1]
                /\ pc[u] \in {"any", "exit"} =>
                     children_list[u[1]] # <<>> /\ exited_list[u[1]] = <<>>
            BY <1>1, <6>1 DEF SleepInv
          <6>3. pc[u] = "child" => wanted[u] \in Procs
            BY <1>1 DEF CallInv
          <6> QED BY <3>2, <5>2, <6>2, <6>3
        <5> QED BY <5>1, <5>2
      <4> QED BY <4>1 DEF SleepInv
    <3> QED BY <1>1, <2>3, <2>4, <3>3, <3>4 DEF IInv, Cleaned
  <2> QED BY <2>6, <2>7
<1> QED BY <1>5, <1>6

-----------------------------------------------------------------------------
(* The theorems.                                                           *)

\* Every call preserves the inductive invariant.
LEMMA NextInv ==
  ASSUME IInv, [Next]_vars
  PROVE  IInv'
<1>1. ASSUME NEW t \in Threads, sys_Exec(t)
      PROVE  IInv'
  BY <1>1, ExecInv
<1>2. ASSUME NEW t \in Threads, sys_WaitChild(t)
      PROVE  IInv'
  BY <1>2, WaitChildInv
<1>3. ASSUME NEW t \in Threads, NEW v \in ExitValues, sys_Exit(t, v)
      PROVE  IInv'
  <2>1. ~ asleep[t]
    BY <1>3 DEF sys_Exit, Running, IInv, CallInv
  <2> QED BY <1>3, <2>1, DieInv DEF sys_Exit, Running
<1>4. ASSUME NEW t \in Threads, NEW v \in ExitValues, ExitInit(t, v)
      PROVE  IInv'
  <2>1. ~ asleep[t]
    BY <1>4 DEF ExitInit, Running, IInv, CallInv
  <2> QED BY <1>4, <2>1, InitLoopInv DEF ExitInit, Running
<1>5. ASSUME NEW t \in Threads, Resume(t)
      PROVE  IInv'
  BY <1>5, ResumeInv
<1>6. ASSUME NEW t \in Threads, ResumeExit(t)
      PROVE  IInv'
  <2>1. t[1] = 1 /\ wanted[t] \in ExitValues /\ pstate[1] = "ALIVE"
    BY <1>6 DEF ResumeExit, IInv, CallInv
  <2>2. ~ asleep[t] /\ InitLoop(t, wanted[t])
    BY <1>6 DEF ResumeExit
  <2> QED BY <2>1, <2>2, InitLoopInv
<1>7. CASE UNCHANGED vars
  <2>1. UNCHANGED <<pstate, parent, exitval, children_list, exited_list, pcb_freelist,
                    pc, wanted, asleep, out>>
    BY <1>7 DEF vars, pcbs
  <2>2. FreeLinks'
    BY <2>1, FreeSame DEF IInv
  <2> QED BY <2>1, <2>2 DEF IInv, TypeOK, TreeInv, RootInv, DepthInv, Deeper,
                            CallInv, SleepInv
<1> QED BY <1>1, <1>2, <1>3, <1>4, <1>5, <1>6, <1>7 DEF Next, Call

\* The inductive invariant holds throughout: with one thread of each process in
\* these calls, the lists, the parent fields, the free list and the sleepers of
\* kernel_proc.c agree after every call.
THEOREM Invariant == (K = 1 /\ Spec) => []IInv
<1>1. Init /\ K = 1 => IInv
  BY InitInv
<1>2. IInv /\ [Next]_vars => IInv'
  BY NextInv
<1> QED BY <1>1, <1>2, PTL DEF Spec

\* Lists, parent fields, free list and sleepers tell one story through every
\* order of Exec, Exit with reparenting, and WaitChild (kernel_proc.c).
THEOREM OneStory == (K = 1 /\ Spec) => []ProcInv
<1>1. IInv => ProcInv
  BY FreeLinksImply DEF IInv, ProcInv, FreeLinks
<1> QED BY <1>1, Invariant, PTL

-----------------------------------------------------------------------------
(* The refinement of ProcTree.                                             *)

StatusMap == [p \in Procs |-> StatusOf(p)]
ParentMap == [p \in Procs |-> IF pstate[p] = "FREE" THEN NULL ELSE parent[p]]
ValueMap == [p \in Procs |-> IF pstate[p] = "ZOMBIE" THEN exitval[p] ELSE 0]

\* The states of ProcTree for those of kernel_proc.c.
LEMMA StatusFacts ==
  ASSUME NEW p \in Procs
  PROVE  /\ pstate[p] = "FREE" => StatusMap[p] = "free"
         /\ pstate[p] = "ALIVE" => StatusMap[p] = "alive"
         /\ pstate[p] = "ZOMBIE" => StatusMap[p] = "zombie"
BY DEF StatusMap, StatusOf

\* The next value of StatusMap is known where the next pstate is.
LEMMA StatusNext ==
  ASSUME NEW p \in Procs, TypeOK
  PROVE  /\ pstate'[p] = "FREE" => StatusMap'[p] = "free"
         /\ pstate'[p] = "ALIVE" => StatusMap'[p] = "alive"
         /\ pstate'[p] = "ZOMBIE" => StatusMap'[p] = "zombie"
         /\ pstate'[p] = pstate[p] => StatusMap'[p] = StatusMap[p]
<1>1. /\ pstate'[p] = "FREE" => StatusMap'[p] = "free"
      /\ pstate'[p] = "ALIVE" => StatusMap'[p] = "alive"
      /\ pstate'[p] = "ZOMBIE" => StatusMap'[p] = "zombie"
  BY DEF StatusMap, StatusOf
<1>2. pstate[p] \in {"FREE", "ALIVE", "ZOMBIE"}
  BY DEF TypeOK
<1> QED BY <1>1, <1>2, StatusFacts

\* The three maps are functions on Procs.
LEMMA TreeMaps ==
  /\ StatusMap = [p \in Procs |-> StatusMap[p]] /\ StatusMap' = [p \in Procs |-> StatusMap'[p]]
  /\ ParentMap = [p \in Procs |-> ParentMap[p]] /\ ParentMap' = [p \in Procs |-> ParentMap'[p]]
  /\ ValueMap = [p \in Procs |-> ValueMap[p]] /\ ValueMap' = [p \in Procs |-> ValueMap'[p]]
BY DEF StatusMap, ParentMap, ValueMap

\* Exec takes a free process as the child of the caller.
LEMMA ExecTree ==
  ASSUME IInv, NEW t \in Threads, sys_Exec(t)
  PROVE  \E p, q \in Procs : Tree!Exec(p, q)
<1>1. PICK p, q : p = t[1] /\ q = pcb_freelist
  OBVIOUS
<1>2. /\ p \in Procs /\ TypeOK /\ pstate[p] = "ALIVE" /\ q # NULL
      /\ pstate' = [pstate EXCEPT ![q] = "ALIVE"]
      /\ parent' = [parent EXCEPT ![q] = p]
      /\ exitval' = exitval /\ out' = <<>>
  BY <1>1, OneThread DEF IInv, sys_Exec, Running
<1>3. q \in Procs /\ pstate[q] = "FREE"
  <2>1. PICK fl : IsFreeList(fl)
    BY DEF IInv, FreeLinks
  <2>2. fl \in Seq(Procs) /\ fl # <<>> /\ q = fl[1]
        /\ ToSet(fl) = {c \in Procs : pstate[c] = "FREE"}
    BY <1>1, <1>2, <2>1 DEF IsFreeList
  <2>3. fl[1] \in ToSet(fl)
    BY <2>2 DEF ToSet
  <2> QED BY <2>2, <2>3
<1>4. /\ \A x \in Procs : pstate'[x] = IF x = q THEN "ALIVE" ELSE pstate[x]
      /\ \A x \in Procs : parent'[x] = IF x = q THEN p ELSE parent[x]
  BY <1>2, <1>3 DEF TypeOK
<1>5. StatusMap[p] = "alive" /\ StatusMap[q] = "free"
  BY <1>2, <1>3, StatusFacts
<1>6. StatusMap' = [StatusMap EXCEPT ![q] = "alive"]
  <2>1. \A x \in Procs : StatusMap'[x] = IF x = q THEN "alive" ELSE StatusMap[x]
    BY <1>2, <1>4, StatusNext
  <2> QED BY <2>1, TreeMaps
<1>7. ParentMap' = [ParentMap EXCEPT ![q] = p]
  <2>1. \A x \in Procs : ParentMap'[x] = IF x = q THEN p ELSE ParentMap[x]
    BY <1>4 DEF ParentMap
  <2> QED BY <2>1, TreeMaps
<1>8. ValueMap' = ValueMap
  <2>1. \A x \in Procs : ValueMap'[x] = ValueMap[x]
    BY <1>2, <1>3, <1>4 DEF ValueMap
  <2> QED BY <2>1, TreeMaps
<1>9. Tree!Exec(p, q)
  BY <1>2, <1>5, <1>6, <1>7, <1>8 DEF Tree!Exec, StatusMap, ParentMap, ValueMap
<1> QED BY <1>2, <1>3, <1>9

\* WaitChild that returns is WaitChild of the tree.
LEMMA CollectTree ==
  ASSUME IInv, NEW t \in Threads, NEW c \in Procs, Collect(t, c),
         pstate[c] = "ZOMBIE", parent[c] = t[1], pstate[t[1]] = "ALIVE"
  PROVE  \E p, q \in Procs : Tree!WaitChild(p, q)
<1>1. PICK p : p = t[1]
  OBVIOUS
<1>2. /\ p \in Procs /\ TypeOK /\ pstate[p] = "ALIVE" /\ parent[c] = p
      /\ pstate' = [pstate EXCEPT ![c] = "FREE"]
      /\ exitval' = exitval /\ out' = <<p, c, exitval[c]>>
  BY <1>1, OneThread DEF IInv, Collect
<1>3. /\ \A x \in Procs : pstate'[x] = IF x = c THEN "FREE" ELSE pstate[x]
      /\ \A x \in Procs : x # c => parent'[x] = parent[x]
  <2>1. parent' = [x \in Procs |-> IF x \in ToSet(<<c>>) THEN Link(<<c>>, x) ELSE parent[x]]
    BY DEF Collect, cleanup_zombie
  <2>2. ToSet(<<c>>) = {c}
    BY DEF ToSet
  <2> QED BY <1>2, <2>1, <2>2 DEF TypeOK
<1>4. StatusMap[p] = "alive" /\ StatusMap[c] = "zombie"
  BY <1>2, StatusFacts
<1>5. ParentMap[c] = p /\ ValueMap[c] = exitval[c]
  BY <1>2 DEF ParentMap, ValueMap
<1>6. StatusMap' = [StatusMap EXCEPT ![c] = "free"]
  <2>1. \A x \in Procs : StatusMap'[x] = IF x = c THEN "free" ELSE StatusMap[x]
    BY <1>2, <1>3, StatusNext
  <2> QED BY <2>1, TreeMaps
<1>7. ParentMap' = [ParentMap EXCEPT ![c] = NULL]
  <2>1. \A x \in Procs : ParentMap'[x] = IF x = c THEN NULL ELSE ParentMap[x]
    BY <1>3 DEF ParentMap
  <2> QED BY <2>1, TreeMaps
<1>8. ValueMap' = [ValueMap EXCEPT ![c] = 0]
  <2>1. \A x \in Procs : ValueMap'[x] = IF x = c THEN 0 ELSE ValueMap[x]
    BY <1>2, <1>3 DEF ValueMap
  <2> QED BY <2>1, TreeMaps
<1>9. out' = <<p, c, ValueMap[c]>>
  BY <1>2, <1>5
<1>10. Tree!WaitChild(p, c)
  BY <1>4, <1>5, <1>6, <1>7, <1>8, <1>9 DEF Tree!WaitChild, StatusMap, ParentMap, ValueMap
<1> QED BY <1>2, <1>10

\* WaitChild that goes to sleep changes nothing in the tree.
LEMMA WaitTree ==
  ASSUME NEW t, NEW call, NEW c, Wait(t, call, c)
  PROVE  Tree!Silent
<1>1. pstate' = pstate /\ parent' = parent /\ exitval' = exitval /\ out' = <<>>
  BY DEF Wait, pcbs
<1>2. StatusMap' = StatusMap /\ ParentMap' = ParentMap /\ ValueMap' = ValueMap
  BY <1>1 DEF StatusMap, StatusOf, ParentMap, ValueMap
<1> QED BY <1>1, <1>2 DEF Tree!Silent, StatusMap, ParentMap, ValueMap

\* Exit of a process other than the first.
LEMMA DieTree ==
  ASSUME IInv, NEW t \in Threads, NEW v \in ExitValues, Die(t, v),
         t[1] # 1, pstate[t[1]] = "ALIVE"
  PROVE  \E p \in Procs : Tree!Exit(p, v)
<1>1. PICK p : p = t[1]
  OBVIOUS
<1>2. Died(p) /\ p # 1 /\ pstate[p] = "ALIVE" /\ TypeOK /\ TreeInv
  <2>1. Died(t[1])
    BY DieLists
  <2> QED BY <1>1, <2>1 DEF IInv
<1>3. p \in Procs
  BY <1>2 DEF Died
<1>4. /\ \A x \in Procs : pstate'[x] = IF x = p THEN "ZOMBIE" ELSE pstate[x]
      /\ \A x \in Procs : parent'[x] = IF pstate[x] # "FREE" /\ parent[x] = p THEN 1
                                       ELSE parent[x]
      /\ \A x \in Procs : exitval'[x] = IF x = p THEN v ELSE exitval[x]
      /\ out' = <<>>
  <2>1. ToSet(children_list[p]) = {c \in Procs : pstate[c] # "FREE" /\ parent[c] = p}
    BY <1>2, <1>3 DEF TreeInv
  <2>2. exitval' = [exitval EXCEPT ![p] = v] /\ out' = <<>>
    BY <1>1 DEF Die
  <2>3. /\ \A x \in Procs : pstate'[x] = IF x = p THEN "ZOMBIE" ELSE pstate[x]
        /\ \A x \in Procs : parent'[x] = IF x \in ToSet(children_list[p]) THEN 1 ELSE parent[x]
    BY <1>2 DEF Died
  <2>4. \A x \in Procs : exitval'[x] = IF x = p THEN v ELSE exitval[x]
    BY <1>2, <1>3, <2>2 DEF TypeOK
  <2> QED BY <2>1, <2>2, <2>3, <2>4
<1>5. StatusMap[p] = "alive"
  BY <1>2, <1>3, StatusFacts
<1>6. StatusMap' = [StatusMap EXCEPT ![p] = "zombie"]
  <2>1. \A x \in Procs : StatusMap'[x] = IF x = p THEN "zombie" ELSE StatusMap[x]
    BY <1>2, <1>4, StatusNext
  <2> QED BY <2>1, TreeMaps
<1>7. ValueMap' = [ValueMap EXCEPT ![p] = v]
  <2>1. \A x \in Procs : ValueMap'[x] = IF x = p THEN v ELSE ValueMap[x]
    BY <1>4 DEF ValueMap
  <2> QED BY <2>1, TreeMaps
<1>8. ParentMap' = [x \in Procs |-> IF ParentMap[x] = p THEN 1 ELSE ParentMap[x]]
  <2>1. ASSUME NEW x \in Procs
        PROVE  ParentMap'[x] = IF ParentMap[x] = p THEN 1 ELSE ParentMap[x]
    <3>1. p # NULL
      BY <1>3, ProcFacts
    <3>2. ParentMap[x] = IF pstate[x] = "FREE" THEN NULL ELSE parent[x]
      BY DEF ParentMap
    <3>3. ParentMap'[x] = IF pstate'[x] = "FREE" THEN NULL ELSE parent'[x]
      BY DEF ParentMap
    <3> QED BY <1>2, <1>4, <3>1, <3>2, <3>3
  <2> QED BY <2>1, TreeMaps
<1>9. Tree!Exit(p, v)
  BY <1>2, <1>4, <1>5, <1>6, <1>7, <1>8 DEF Tree!Exit, StatusMap, ParentMap, ValueMap
<1> QED BY <1>3, <1>9

\* The initial process collects Z and, if last, exits with v.
InitTakes(Z, last, v) ==
  /\ Z \in SUBSET Procs /\ last \in BOOLEAN /\ out' = <<>>
  /\ \A c \in Z : pstate[c] = "ZOMBIE" /\ parent[c] = 1
  /\ last => \A q \in Procs : q # 1 => pstate[q] = "FREE" \/ q \in Z
  /\ \A q \in Procs : pstate'[q] = IF q \in Z THEN "FREE"
                                   ELSE IF last /\ q = 1 THEN "ZOMBIE" ELSE pstate[q]
  /\ \A q \in Procs \ Z : parent'[q] = parent[q]
  /\ \A q \in Procs : exitval'[q] = IF last /\ q = 1 THEN v ELSE exitval[q]

\* What the initial process takes is a step of InitWaits.
LEMMA InitTree ==
  ASSUME IInv, pstate[1] = "ALIVE", NEW Z, NEW last, NEW v \in ExitValues,
         InitTakes(Z, last, v)
  PROVE  Tree!InitWaits
<1> USE DEF InitTakes
<1>1. 1 \in Procs /\ 1 \notin Z
  BY ProcFacts
<1>2. StatusMap[1] = "alive" /\ \A c \in Z : StatusMap[c] = "zombie" /\ ParentMap[c] = 1
  <2>1. \A c \in Z : ParentMap[c] = 1
    BY DEF ParentMap
  <2> QED BY <1>1, <2>1, StatusFacts
<1>3. Z \in SUBSET {c \in Procs : StatusMap[c] = "zombie" /\ ParentMap[c] = 1}
  BY <1>2
<1>4. last => \A q \in Procs \ {1} : StatusMap[q] = "free" \/ q \in Z
  BY StatusFacts
<1>5. StatusMap' = [q \in Procs |-> IF q \in Z THEN "free"
                                    ELSE IF last /\ q = 1 THEN "zombie" ELSE StatusMap[q]]
  <2>1. ASSUME NEW q \in Procs
        PROVE  StatusMap'[q] = IF q \in Z THEN "free"
                               ELSE IF last /\ q = 1 THEN "zombie" ELSE StatusMap[q]
    BY StatusNext DEF IInv
  <2> QED BY <2>1, TreeMaps
<1>6. ParentMap' = [q \in Procs |-> IF q \in Z THEN NULL ELSE ParentMap[q]]
  <2>1. ASSUME NEW q \in Procs
        PROVE  ParentMap'[q] = IF q \in Z THEN NULL ELSE ParentMap[q]
    <3>1. ParentMap'[q] = IF pstate'[q] = "FREE" THEN NULL ELSE parent'[q]
      BY DEF ParentMap
    <3>2. ParentMap[q] = IF pstate[q] = "FREE" THEN NULL ELSE parent[q]
      BY DEF ParentMap
    <3> QED BY <3>1, <3>2
  <2> QED BY <2>1, TreeMaps
<1>7. ValueMap' = [q \in Procs |-> IF q \in Z THEN 0
                                   ELSE IF last /\ q = 1 THEN v ELSE ValueMap[q]]
  <2>1. ASSUME NEW q \in Procs
        PROVE  ValueMap'[q] = IF q \in Z THEN 0
                              ELSE IF last /\ q = 1 THEN v ELSE ValueMap[q]
    <3>1. ValueMap'[q] = IF pstate'[q] = "ZOMBIE" THEN exitval'[q] ELSE 0
      BY DEF ValueMap
    <3>2. ValueMap[q] = IF pstate[q] = "ZOMBIE" THEN exitval[q] ELSE 0
      BY DEF ValueMap
    <3> QED BY <3>1, <3>2
  <2> QED BY <2>1, TreeMaps
<1>8. \E Y \in SUBSET {c \in Procs : StatusMap[c] = "zombie" /\ ParentMap[c] = 1} :
        \E l \in BOOLEAN :
          /\ l => \A q \in Procs \ {1} : StatusMap[q] = "free" \/ q \in Y
          /\ StatusMap' = [q \in Procs |-> IF q \in Y THEN "free"
                                           ELSE IF l /\ q = 1 THEN "zombie" ELSE StatusMap[q]]
          /\ ParentMap' = [q \in Procs |-> IF q \in Y THEN NULL ELSE ParentMap[q]]
          /\ \E w \in ExitValues :
               ValueMap' = [q \in Procs |-> IF q \in Y THEN 0
                                            ELSE IF l /\ q = 1 THEN w ELSE ValueMap[q]]
  <2>1. WITNESS Z \in SUBSET {c \in Procs : StatusMap[c] = "zombie" /\ ParentMap[c] = 1}
  <2>2. WITNESS last \in BOOLEAN
  <2> QED BY <1>4, <1>5, <1>6, <1>7
<1> QED BY <1>2, <1>8 DEF Tree!InitWaits, StatusMap, ParentMap, ValueMap

\* The initial process's own loop in sys_Exit.
LEMMA InitLoopTree ==
  ASSUME IInv, NEW t \in Threads, NEW v \in ExitValues, InitLoop(t, v),
         t[1] = 1, pstate[1] = "ALIVE"
  PROVE  Tree!InitWaits
<1>1. /\ TypeOK /\ TreeInv /\ RootInv /\ DepthInv /\ 1 \in Procs
  BY ProcFacts DEF IInv
<1>2. PICK zs, Z, left : /\ zs = exited_list[1] /\ Z = ToSet(zs)
                         /\ left = ToSet(children_list[1]) \ Z
  OBVIOUS
<1>3. /\ zs \in Seq(Procs) /\ Z \in SUBSET Procs
      /\ ToSet(children_list[1]) = {c \in Procs : pstate[c] # "FREE" /\ parent[c] = 1}
      /\ Z = {c \in ToSet(children_list[1]) : pstate[c] = "ZOMBIE"}
  BY <1>1, <1>2 DEF TypeOK, TreeInv
<1>4. \A c \in Z : pstate[c] = "ZOMBIE" /\ parent[c] = 1
  BY <1>3
<1>5. PICK last \in BOOLEAN : last <=> left = {}
  OBVIOUS
<1>6. last => \A q \in Procs : q # 1 => pstate[q] = "FREE" \/ q \in Z
  BY <1>1, <1>2, <1>5, LastOnes
<1>7. /\ \A q \in Procs : pstate'[q] = IF q \in Z THEN "FREE"
                                       ELSE IF last /\ q = 1 THEN "ZOMBIE" ELSE pstate[q]
      /\ \A q \in Procs \ Z : parent'[q] = parent[q]
      /\ \A q \in Procs : exitval'[q] = IF last /\ q = 1 THEN v ELSE exitval[q]
      /\ out' = <<>>
  <2>1. CASE left = {} /\ zs = <<>>
    <3>1. /\ pstate' = [pstate EXCEPT ![1] = "ZOMBIE"]
          /\ parent' = [c \in Procs |-> IF c \in ToSet(children_list[1]) THEN 1 ELSE parent[c]]
          /\ exitval' = [exitval EXCEPT ![1] = v] /\ out' = <<>>
      BY <1>2, <2>1 DEF InitLoop, Die, Reparent
    <3>2. Z = {} /\ last
      BY <1>2, <1>5, <2>1, EmptyElements
    <3>3. \A q \in Procs : q \notin ToSet(children_list[1])
      BY <1>2, <2>1, <3>2
    <3> QED BY <1>1, <3>1, <3>2, <3>3 DEF TypeOK
  <2>2. CASE ~ (left = {} /\ zs = <<>>)
    <3>1. /\ parent' = [c \in Procs |-> IF c \in Z THEN Link(zs, c) ELSE parent[c]]
          /\ pstate' = [p \in Procs |-> IF p \in Z THEN "FREE"
                                        ELSE IF p = 1 /\ left = {} THEN "ZOMBIE" ELSE pstate[p]]
          /\ exitval' = IF left = {} THEN [exitval EXCEPT ![1] = v] ELSE exitval
          /\ out' = <<>>
      BY <1>2, <2>2 DEF InitLoop, cleanup_zombie
    <3> QED BY <1>1, <1>5, <3>1 DEF TypeOK
  <2> QED BY <2>1, <2>2
<1>8. InitTakes(Z, last, v)
  BY <1>3, <1>4, <1>5, <1>6, <1>7 DEF InitTakes
<1> QED BY <1>8, InitTree

\* Every call is a step of ProcTree.
LEMMA StepTree ==
  ASSUME IInv, [Next]_vars
  PROVE  [Tree!Next]_(Tree!vars)
<1>1. ASSUME NEW t \in Threads, NEW c \in Procs, SpecificChild(t, c),
             pstate[t[1]] = "ALIVE", pstate[c] # "FREE", parent[c] = t[1]
      PROVE  Tree!Next
  <2>1. pstate[c] # "ALIVE" => pstate[c] = "ZOMBIE"
    BY <1>1 DEF IInv, TypeOK
  <2> QED BY <1>1, <2>1, WaitTree, CollectTree DEF SpecificChild, Tree!Next
<1>2. ASSUME NEW t \in Threads, AnyChild(t), pstate[t[1]] = "ALIVE"
      PROVE  Tree!Next
  <2>1. CASE Wait(t, "any", NULL)
    BY <2>1, WaitTree DEF Tree!Next
  <2>2. CASE exited_list[t[1]] # <<>> /\ Collect(t, Head(exited_list[t[1]]))
    <3>1. PICK c : c = Head(exited_list[t[1]])
      OBVIOUS
    <3>2. c \in Procs /\ pstate[c] = "ZOMBIE" /\ parent[c] = t[1]
      BY <2>2, <3>1, OneThread, ExitedChild DEF IInv
    <3> QED BY <1>2, <2>2, <3>1, <3>2, CollectTree DEF Tree!Next
  <2> QED BY <1>2, <2>1, <2>2 DEF AnyChild
<1>3. ASSUME NEW t \in Threads, sys_Exec(t)
      PROVE  Tree!Next
  BY <1>3, ExecTree DEF Tree!Next
<1>4. ASSUME NEW t \in Threads, sys_WaitChild(t)
      PROVE  Tree!Next
  BY <1>1, <1>2, <1>4 DEF sys_WaitChild, Running, Legal
<1>5. ASSUME NEW t \in Threads, NEW v \in ExitValues, sys_Exit(t, v)
      PROVE  Tree!Next
  BY <1>5, DieTree DEF sys_Exit, Running, Tree!Next
<1>6. ASSUME NEW t \in Threads, NEW v \in ExitValues, ExitInit(t, v)
      PROVE  Tree!Next
  BY <1>6, InitLoopTree DEF ExitInit, Running, Tree!Next
<1>7. ASSUME NEW t \in Threads, Resume(t)
      PROVE  Tree!Next
  <2>1. /\ pc[t] # "run" => pstate[t[1]] = "ALIVE"
        /\ pc[t] = "child" => /\ wanted[t] \in Procs /\ pstate[wanted[t]] # "FREE"
                              /\ parent[wanted[t]] = t[1]
    BY DEF IInv, CallInv
  <2> QED BY <1>1, <1>2, <1>7, <2>1 DEF Resume
<1>8. ASSUME NEW t \in Threads, ResumeExit(t)
      PROVE  Tree!Next
  <2>1. t[1] = 1 /\ wanted[t] \in ExitValues /\ pstate[1] = "ALIVE"
    BY <1>8 DEF ResumeExit, IInv, CallInv
  <2> QED BY <1>8, <2>1, InitLoopTree DEF ResumeExit, Tree!Next
<1>9. CASE UNCHANGED vars
  <2>1. pstate' = pstate /\ parent' = parent /\ exitval' = exitval /\ out' = out
    BY <1>9 DEF vars, pcbs
  <2>2. StatusMap' = StatusMap /\ ParentMap' = ParentMap /\ ValueMap' = ValueMap
    BY <2>1 DEF StatusMap, StatusOf, ParentMap, ValueMap
  <2> QED BY <2>1, <2>2 DEF Tree!vars, StatusMap, ParentMap, ValueMap
<1> QED BY <1>3, <1>4, <1>5, <1>6, <1>7, <1>8, <1>9 DEF Next, Call

\* Every call, with one thread of each process in it, is a step of ProcTree:
\* each child is collected once, by the parent it then has, with its exit value.
THEOREM Refines == (K = 1 /\ Spec) => ImplementsProcTree
<1>1. Init => Tree!Init
  <2>1. ASSUME Init
        PROVE  /\ StatusMap = [p \in Procs |-> IF p = 1 THEN "alive" ELSE "free"]
               /\ ParentMap = [p \in Procs |-> NULL]
               /\ ValueMap = [p \in Procs |-> 0] /\ out = <<>>
    <3>1. \A p \in Procs : /\ pstate[p] = IF p = 1 THEN "ALIVE" ELSE "FREE"
                           /\ parent[p] = IF p \in {1, N} THEN NULL ELSE p + 1
      BY <2>1 DEF Init
    <3>2. \A p \in Procs : /\ StatusMap[p] = IF p = 1 THEN "alive" ELSE "free"
                           /\ ParentMap[p] = NULL /\ ValueMap[p] = 0
      BY <3>1, StatusFacts DEF ParentMap, ValueMap
    <3> QED BY <2>1, <3>2, TreeMaps DEF Init
  <2> QED BY <2>1 DEF Tree!Init, StatusMap, ParentMap, ValueMap
<1>2. IInv /\ [Next]_vars => [Tree!Next]_(Tree!vars)
  BY StepTree
<1> QED BY <1>1, <1>2, Invariant, PTL DEF Spec, ImplementsProcTree, Tree!Spec

=============================================================================
