------------------------------ MODULE IOProofs ------------------------------
(***************************************************************************)
(* Proofs about what is behind a descriptor: the file table (Streams), for *)
(* any number of processes, threads, descriptors and FCBs, and the machine *)
(* with its devices (Machine), for any number of cores and any FIFO.       *)
(*                                                                         *)
(* Streams: reference counts, free list and open streams agree.  The       *)
(* invariant of the runs is almost inductive: Exec adds the references     *)
(* of the parent's descriptors to those that the child's table had, so it  *)
(* must be known that a free process has none (DeadInv).  Each step is     *)
(* proved from what it does to the number of references to each FCB        *)
(* (Refs): RefsInvNext, Acquire and Decrefs say what must then hold of     *)
(* counts, free list and open streams.                                     *)
(*                                                                         *)
(* Machine: the list of halted cores is right under every order of halts,  *)
(* interrupts, wakeups and of the end of the system, and no core is        *)
(* signalled that is not there.  MachineInv counts the cores with          *)
(* interrupts off; to know that the one which goes on in serial_read is    *)
(* that core, the invariant names it.  NoLateSignal speaks of the PIC's    *)
(* position and of the cores' positions together: what keeps them in step  *)
(* is that the two barriers are passed by all at once (PhaseInv).          *)
(***************************************************************************)
EXTENDS Streams, Machine, ListLemmas

-----------------------------------------------------------------------------
(* Streams.                                                                *)

\* A process that is not alive has no files.
DeadInv == \A p \in Procs : pstate[p] = "FREE" => \A i \in Fids : FIDT[p][i] = NoFCB

\* The inductive invariant.
IInv == StreamsInv /\ DeadInv

\* How many refer to f.
Refs(f) == Cardinality(FidRefs(f)) + Cardinality(CallRefs(f))

\* Tables of descriptors, and the descriptors of a table that hold f.
Tables == [Procs -> [Fids -> FCBs \cup {NoFCB}]]

\* U is T with descriptor i of p set to x.
SetsFid(T, U, p, i, x) == U = [T EXCEPT ![p][i] = x]

FCBRefs(T, f) == {r \in Procs \X Fids : T[r[1]][r[2]] = f}

-----------------------------------------------------------------------------
(* Counting.                                                               *)

\* Sets of descriptors, and of threads, are finite.
LEMMA Subsets ==
  /\ IsFiniteSet(Fids) /\ IsFiniteSet(Procs \X Fids)
  /\ \A S : S \subseteq Fids \/ S \subseteq Procs \X Fids \/ S \subseteq Threads =>
       /\ IsFiniteSet(S) /\ Cardinality(S) \in Nat
       /\ Cardinality(S) = 0 <=> S = {}
<1>1. IsFiniteSet(Fids)
  BY StreamsAssumption, FS_Interval DEF Fids
<1>2. IsFiniteSet(Procs \X Fids)
  BY <1>1, StreamsAssumption, FS_Product
<1>3. ASSUME NEW S, S \subseteq Fids \/ S \subseteq Procs \X Fids \/ S \subseteq Threads
      PROVE  /\ IsFiniteSet(S) /\ Cardinality(S) \in Nat
             /\ Cardinality(S) = 0 <=> S = {}
  <2>1. IsFiniteSet(S)
    BY <1>1, <1>2, <1>3, StreamsAssumption, FS_Subset
  <2> QED BY <2>1, FS_CardinalityType, FS_EmptySet
<1> QED BY <1>1, <1>2, <1>3

\* So the references to an FCB are counted by a number.
LEMMA Finite ==
  \A f : /\ IsFiniteSet(FidRefs(f)) /\ Cardinality(FidRefs(f)) \in Nat
         /\ IsFiniteSet(CallRefs(f)) /\ Cardinality(CallRefs(f)) \in Nat
         /\ Refs(f) \in Nat
         /\ Refs(f) = 0 <=> FidRefs(f) = {} /\ CallRefs(f) = {}
<1>1. ASSUME NEW f
      PROVE  /\ IsFiniteSet(FidRefs(f)) /\ Cardinality(FidRefs(f)) \in Nat
             /\ IsFiniteSet(CallRefs(f)) /\ Cardinality(CallRefs(f)) \in Nat
             /\ Refs(f) \in Nat
             /\ Refs(f) = 0 <=> FidRefs(f) = {} /\ CallRefs(f) = {}
  <2>1. FidRefs(f) \subseteq Procs \X Fids /\ CallRefs(f) \subseteq Threads
    BY DEF FidRefs, CallRefs
  <2>2. /\ IsFiniteSet(FidRefs(f)) /\ IsFiniteSet(CallRefs(f))
        /\ Cardinality(FidRefs(f)) \in Nat /\ Cardinality(CallRefs(f)) \in Nat
        /\ Cardinality(FidRefs(f)) = 0 <=> FidRefs(f) = {}
        /\ Cardinality(CallRefs(f)) = 0 <=> CallRefs(f) = {}
    BY <2>1, Subsets
  <2> QED BY <2>2 DEF Refs
<1> QED BY <1>1

\* The same of the sets after a step.
LEMMA FiniteNext ==
  \A f : /\ Cardinality(FidRefs(f)') \in Nat /\ Cardinality(CallRefs(f)') \in Nat
         /\ Refs(f)' \in Nat
         /\ Refs(f)' = 0 <=> FidRefs(f)' = {} /\ CallRefs(f)' = {}
<1>1. ASSUME NEW f
      PROVE  /\ Cardinality(FidRefs(f)') \in Nat /\ Cardinality(CallRefs(f)') \in Nat
             /\ Refs(f)' \in Nat
             /\ Refs(f)' = 0 <=> FidRefs(f)' = {} /\ CallRefs(f)' = {}
  <2>1. FidRefs(f)' \subseteq Procs \X Fids /\ CallRefs(f)' \subseteq Threads
    BY DEF FidRefs, CallRefs
  <2>2. /\ Cardinality(FidRefs(f)') \in Nat /\ Cardinality(CallRefs(f)') \in Nat
        /\ Cardinality(FidRefs(f)') = 0 <=> FidRefs(f)' = {}
        /\ Cardinality(CallRefs(f)') = 0 <=> CallRefs(f)' = {}
    BY <2>1, Subsets
  <2> QED BY <2>2 DEF Refs
<1> QED BY <1>1

\* The invariant in terms of Refs.
LEMMA RefsInv ==
  ASSUME IInv
  PROVE  /\ \A f \in FCBs : Listed(f) <=> Refs(f) = 0
         /\ \A f \in FCBs : ~ Listed(f) => refcount[f] = Refs(f)
         /\ \A f \in FCBs : open[f] <=> Refs(f) # 0
         /\ \A f \in FCBs : Listed(f) <=> f \in ToSet(FCB_freelist)
         /\ IsInjective(FCB_freelist)
<1>1. \A f \in FCBs : Listed(f) <=> Refs(f) = 0
  BY Finite DEF IInv, StreamsInv, FreeInv
<1>2. \A f \in FCBs : ~ Listed(f) => refcount[f] = Refs(f)
  BY DEF IInv, StreamsInv, CountInv, Refs
<1>3. \A f \in FCBs : open[f] <=> Refs(f) # 0
  BY Finite DEF IInv, StreamsInv, OpenInv
<1>4. \A f \in FCBs : Listed(f) <=> f \in ToSet(FCB_freelist)
  BY DEF Listed, ToSet
<1>5. IsInjective(FCB_freelist)
  BY DEF IInv, StreamsInv, FreeInv, IsInjective
<1> QED BY <1>1, <1>2, <1>3, <1>4, <1>5

\* The same, the other way round, after a step.
LEMMA RefsInvNext ==
  ASSUME TypeOK', DeadInv',
         \A f \in FCBs : f \in ToSet(FCB_freelist') <=> Refs(f)' = 0,
         \A f \in FCBs : Refs(f)' # 0 => refcount'[f] = Refs(f)',
         \A f \in FCBs : open'[f] <=> Refs(f)' # 0,
         IsInjective(FCB_freelist')
  PROVE  IInv'
<1>1. \A f \in FCBs : Listed(f)' <=> f \in ToSet(FCB_freelist')
  BY DEF Listed, ToSet
<1>2. \A f \in FCBs : Refs(f)' = 0 <=> FidRefs(f)' = {} /\ CallRefs(f)' = {}
  BY FiniteNext
<1>3. CountInv'
  BY <1>1 DEF CountInv, Refs
<1>4. FreeInv'
  BY <1>1, <1>2 DEF FreeInv, IsInjective
<1>5. OpenInv'
  BY <1>2 DEF OpenInv
<1> QED BY <1>3, <1>4, <1>5 DEF IInv, StreamsInv

\* One descriptor changes.
LEMMA SetFid ==
  ASSUME NEW T \in Tables, NEW U, NEW p \in Procs, NEW i \in Fids,
         NEW x \in FCBs \cup {NoFCB}, NEW f, SetsFid(T, U, p, i, x)
  PROVE  /\ Cardinality(FCBRefs(U, f))
              = Cardinality(FCBRefs(T, f))
                  - (IF T[p][i] = f THEN 1 ELSE 0) + (IF x = f THEN 1 ELSE 0)
         /\ Cardinality(FCBRefs(U, f)) \in Nat
<1>0. U = [T EXCEPT ![p][i] = x]
  BY DEF SetsFid
<1> DEFINE r == <<p, i>>
           A == FCBRefs(T, f) \ {r}
<1>1. r \in Procs \X Fids /\ r[1] = p /\ r[2] = i
  OBVIOUS
<1>2. r \in FCBRefs(T, f) <=> T[p][i] = f
  BY <1>1 DEF FCBRefs
<1>3. FCBRefs(U, f) = IF x = f THEN A \cup {r} ELSE A
  <2>1. ASSUME NEW q \in Procs \X Fids, q # r
        PROVE  U[q[1]][q[2]] = T[q[1]][q[2]]
    BY <1>0, <2>1 DEF Tables
  <2>2. U[r[1]][r[2]] = x
    BY <1>0, <1>1 DEF Tables
  <2> HIDE DEF r
  <2> QED BY <1>1, <2>1, <2>2 DEF FCBRefs
<1>4. /\ IsFiniteSet(FCBRefs(T, f)) /\ Cardinality(FCBRefs(T, f)) \in Nat
  BY Subsets DEF FCBRefs
<1>5. IsFiniteSet(A) /\ Cardinality(A) = Cardinality(FCBRefs(T, f)) - (IF T[p][i] = f THEN 1 ELSE 0)
  <2>1. IsFiniteSet(A) /\ Cardinality(A) = IF r \in FCBRefs(T, f) THEN Cardinality(FCBRefs(T, f)) - 1
                                                                  ELSE Cardinality(FCBRefs(T, f))
    BY <1>4, FS_RemoveElement
  <2> QED BY <1>2, <1>4, <2>1
<1>6. Cardinality(A \cup {r}) = Cardinality(A) + 1
  BY <1>5, FS_AddElement
<1> HIDE DEF A
<1>8. Cardinality(A) \in Int
  BY <1>4, <1>5
<1>9. Cardinality(FCBRefs(U, f)) = Cardinality(FCBRefs(T, f))
         - (IF T[p][i] = f THEN 1 ELSE 0) + (IF x = f THEN 1 ELSE 0)
  BY <1>3, <1>4, <1>5, <1>6, <1>8
<1>10. Cardinality(FCBRefs(U, f)) \in Nat
  BY Subsets DEF FCBRefs
<1> QED BY <1>9, <1>10

\* The other descriptors do not.
LEMMA SetFidTable ==
  ASSUME NEW T \in Tables, NEW U, NEW p \in Procs, NEW i \in Fids,
         NEW x \in FCBs \cup {NoFCB}, SetsFid(T, U, p, i, x)
  PROVE  /\ U \in Tables
         /\ U[p][i] = x /\ \A q \in Procs : q # p => U[q] = T[q]
         /\ \A j \in Fids : j # i => U[p][j] = T[p][j]
BY DEF Tables, SetsFid

\* A process gets descriptors when it had none (or loses them all, from U to T).
LEMMA SetRow ==
  ASSUME NEW T \in Tables, NEW U \in Tables, NEW p \in Procs, NEW f \in FCBs,
         \A q \in Procs \ {p} : T[q] = U[q],
         \A i \in Fids : T[p][i] = NoFCB
  PROVE  /\ Cardinality({i \in Fids : U[p][i] = f}) \in Nat
         /\ Cardinality(FCBRefs(U, f)) = Cardinality(FCBRefs(T, f))
                                           + Cardinality({i \in Fids : U[p][i] = f})
<1> DEFINE I == {i \in Fids : U[p][i] = f}
           A == FCBRefs(T, f)
           R == {p} \X I
<1>1. FCBRefs(U, f) = A \cup R
  <2>1. ASSUME NEW r \in Procs \X Fids
        PROVE  r \in FCBRefs(U, f) <=> r \in A \cup R
    <3>1. PICK q \in Procs, i \in Fids : r = <<q, i>>
      OBVIOUS
    <3>2. CASE q = p
      BY <3>1, <3>2, StreamsAssumption DEF FCBRefs
    <3>3. CASE q # p
      BY <3>1, <3>3 DEF FCBRefs
    <3> QED BY <3>2, <3>3
  <2>2. FCBRefs(U, f) \subseteq Procs \X Fids /\ A \cup R \subseteq Procs \X Fids
    BY DEF FCBRefs
  <2> QED BY <2>1, <2>2
<1>2. A \cap R = {}
  BY StreamsAssumption DEF FCBRefs
<1>3. IsFiniteSet(I) /\ Cardinality(I) \in Nat /\ IsFiniteSet(A) /\ Cardinality(A) \in Nat
  BY Subsets DEF FCBRefs
<1>4. IsFiniteSet({p}) /\ Cardinality({p}) = 1
  BY FS_Singleton
<1>5. IsFiniteSet(R) /\ Cardinality(R) = Cardinality(I)
  <2>1. IsFiniteSet(R) /\ Cardinality(R) = Cardinality({p}) * Cardinality(I)
    BY <1>3, <1>4, FS_Product
  <2> QED BY <1>3, <1>4, <2>1
<1>6. Cardinality(A \cap R) = 0
  BY <1>2, FS_EmptySet
<1>7. Cardinality(A \cup R) = Cardinality(A) + Cardinality(R) - Cardinality(A \cap R)
  BY <1>3, <1>5, FS_Union
<1> QED BY <1>1, <1>3, <1>5, <1>6, <1>7

\* The references in FIDT.
LEMMA FidTable ==
  /\ \A f : FidRefs(f) = FCBRefs(FIDT, f) /\ FidRefs(f)' = FCBRefs(FIDT', f)
  /\ TypeOK => FIDT \in Tables
BY DEF FidRefs, FCBRefs, TypeOK, Tables

\* FCB_reserve finds the lowest free descriptor.
LEMMA LowestFid ==
  ASSUME NEW S \in SUBSET Fids, S # {}
  PROVE  Lowest(S) \in S
<1>1. S \in SUBSET Nat
  BY DEF Fids
<1>2. \E i \in S : \A j \in S : i <= j
  BY <1>1, LeastNat
<1> QED BY <1>2 DEF Lowest

\* The order in which the FCBs of a set are put in the free list.
LEMMA OrderElements ==
  ASSUME NEW S \in SUBSET FCBs, NEW s \in Orders(S)
  PROVE  s \in Seq(FCBs) /\ ToSet(s) = S /\ IsInjective(s)
<1>1. IsFiniteSet(S) /\ Cardinality(S) \in Nat
  BY StreamsAssumption, FS_Subset, FS_CardinalityType
<1>2. s \in [1 .. Cardinality(S) -> S] /\ \A f \in S : \E i \in DOMAIN s : s[i] = f
  BY DEF Orders
<1>3. DOMAIN s = 1 .. Cardinality(S) /\ \A i \in DOMAIN s : s[i] \in S
  BY <1>2
<1>4. s \in Seq(FCBs) /\ ToSet(s) = S
  BY <1>1, <1>2, <1>3, IsASeq DEF ToSet
<1>5. s \in Surjection(1 .. Cardinality(S), S)
  BY <1>2, <1>3 DEF Surjection
<1>6. IsFiniteSet(1 .. Cardinality(S)) /\ Cardinality(1 .. Cardinality(S)) = Cardinality(S)
  BY <1>1, FS_Interval
<1>7. s \in Injection(1 .. Cardinality(S), S)
  BY <1>5, <1>6, FS_SurjSameCardinalityImpliesInj
<1> QED BY <1>4, <1>7 DEF Injection

\* FCB_decref keeps the invariant when as many references have gone.
LEMMA Decrefs ==
  ASSUME IInv, NEW drop \in [FCBs -> Int], FCB_decref(drop),
         \A f \in FCBs : Refs(f)' = Refs(f) - drop[f],
         \A f \in FCBs : Refs(f) = 0 => drop[f] = 0,
         FIDT' \in [Procs -> [Fids -> FCBs \cup {NoFCB}]],
         using' \in [Threads -> FCBs \cup {NoFCB}],
         pstate' \in [Procs -> {"FREE", "ALIVE"}], DeadInv'
  PROVE  IInv'
<1>1. /\ refcount' = [f \in FCBs |-> refcount[f] - drop[f]]
      /\ open' = [f \in FCBs |-> open[f] /\ f \notin Dropped(drop)]
  BY DEF FCB_decref
<1>2. PICK s \in Orders(Dropped(drop)) : FCB_freelist' = FCB_freelist \o s
  BY DEF FCB_decref
<1>3. \A f \in FCBs : Refs(f) \in Nat
  BY Finite
<1>4. \A f \in FCBs : Refs(f)' \in Nat
  BY FiniteNext
<1>a. /\ \A f \in FCBs : f \in ToSet(FCB_freelist) <=> Refs(f) = 0
      /\ \A f \in FCBs : Refs(f) # 0 => refcount[f] = Refs(f)
      /\ \A f \in FCBs : open[f] <=> Refs(f) # 0
      /\ refcount \in [FCBs -> Nat] /\ open \in [FCBs -> BOOLEAN]
  BY RefsInv DEF IInv, StreamsInv, TypeOK
<1>5. ASSUME NEW f \in FCBs
      PROVE  f \in Dropped(drop) <=> Refs(f) # 0 /\ Refs(f)' = 0
  <2>1. drop[f] \in Int /\ Refs(f) \in Nat /\ Refs(f)' \in Nat /\ Refs(f)' = Refs(f) - drop[f]
    BY <1>3, <1>4
  <2>2. f \in Dropped(drop) <=> drop[f] > 0 /\ refcount[f] = drop[f]
    BY DEF Dropped
  <2>3. CASE Refs(f) = 0
    BY <2>1, <2>2, <2>3
  <2>4. CASE Refs(f) # 0
    <3>1. refcount[f] = Refs(f)
      BY <1>a, <2>4
    <3> QED BY <2>1, <2>2, <2>4, <3>1
  <2> QED BY <2>3, <2>4
<1>6. s \in Seq(FCBs) /\ ToSet(s) = Dropped(drop) /\ IsInjective(s)
  BY OrderElements DEF Dropped
<1>7. FCB_freelist \in Seq(FCBs) /\ IsInjective(FCB_freelist)
  BY RefsInv DEF IInv, StreamsInv, TypeOK
<1>8. \A f \in FCBs : f \in ToSet(FCB_freelist) <=> Refs(f) = 0
  BY RefsInv
<1>9. ToSet(FCB_freelist) \cap ToSet(s) = {}
  BY <1>5, <1>6, <1>8 DEF Dropped
<1>10. /\ FCB_freelist' \in Seq(FCBs) /\ IsInjective(FCB_freelist')
       /\ ToSet(FCB_freelist') = ToSet(FCB_freelist) \cup ToSet(s)
  BY <1>2, <1>6, <1>7, <1>9, ConcatElements
<1>11. \A f \in FCBs : f \in ToSet(FCB_freelist') <=> Refs(f)' = 0
  BY <1>3, <1>5, <1>6, <1>8, <1>10
<1>12. ASSUME NEW f \in FCBs, Refs(f)' # 0
       PROVE  refcount'[f] = Refs(f)'
  <2>1. Refs(f) # 0
    BY <1>3, <1>12
  <2>2. refcount[f] = Refs(f) /\ refcount'[f] = refcount[f] - drop[f]
    BY <1>1, <1>a, <2>1
  <2> QED BY <2>2
<1>13. ASSUME NEW f \in FCBs
       PROVE  open'[f] <=> Refs(f)' # 0
  <2>1. open'[f] <=> open[f] /\ f \notin Dropped(drop)
    BY <1>1
  <2>2. open[f] <=> Refs(f) # 0
    BY <1>a
  <2>3. Refs(f) = 0 => Refs(f)' = 0
    BY <1>3
  <2> QED BY <1>5, <2>1, <2>2, <2>3
<1>14. refcount' \in [FCBs -> Nat]
  <2>1. ASSUME NEW f \in FCBs
        PROVE  refcount[f] - drop[f] \in Nat
    <3>1. drop[f] \in Int /\ Refs(f) \in Nat /\ Refs(f)' \in Nat /\ Refs(f)' = Refs(f) - drop[f]
      BY <1>3, <1>4
    <3>2. CASE Refs(f) = 0
      BY <1>a, <3>2, <3>1
    <3>3. CASE Refs(f) # 0
      BY <1>a, <3>3, <3>1
    <3> QED BY <3>2, <3>3
  <2> QED BY <1>1, <2>1
<1>15. open' \in [FCBs -> BOOLEAN]
  BY <1>1 DEF IInv, StreamsInv, TypeOK
<1>16. TypeOK'
  BY <1>10, <1>14, <1>15 DEF TypeOK
<1> QED
  BY <1>10, <1>11, <1>12, <1>13, <1>16, RefsInvNext

-----------------------------------------------------------------------------
(* Every step keeps the invariant.                                         *)

\* The facts about a state that the steps use.
LEMMA Before ==
  ASSUME IInv
  PROVE  /\ TypeOK /\ DeadInv /\ FIDT \in Tables
         /\ FCB_freelist \in Seq(FCBs) /\ IsInjective(FCB_freelist)
         /\ \A f \in FCBs : f \in ToSet(FCB_freelist) <=> Refs(f) = 0
         /\ \A f \in FCBs : Refs(f) # 0 => refcount[f] = Refs(f)
         /\ \A f \in FCBs : open[f] <=> Refs(f) # 0
<1>1. TypeOK /\ DeadInv /\ FCB_freelist \in Seq(FCBs)
  BY DEF IInv, StreamsInv, TypeOK
<1>2. /\ IsInjective(FCB_freelist)
      /\ \A f \in FCBs : f \in ToSet(FCB_freelist) <=> Refs(f) = 0
      /\ \A f \in FCBs : Refs(f) # 0 => refcount[f] = Refs(f)
      /\ \A f \in FCBs : open[f] <=> Refs(f) # 0
  BY RefsInv
<1> QED BY <1>1, <1>2, FidTable

\* The references to f before and after a step: its calls and its descriptors.
LEMMA RefsParts ==
  \A f : /\ Refs(f) = Cardinality(FCBRefs(FIDT, f)) + Cardinality(CallRefs(f))
         /\ Refs(f)' = Cardinality(FCBRefs(FIDT', f)) + Cardinality(CallRefs(f)')
         /\ Cardinality(FCBRefs(FIDT, f)) \in Nat /\ Cardinality(CallRefs(f)) \in Nat
         /\ Cardinality(FCBRefs(FIDT', f)) \in Nat /\ Cardinality(CallRefs(f)') \in Nat
         /\ Refs(f) \in Nat /\ Refs(f)' \in Nat
         /\ UNCHANGED using => CallRefs(f)' = CallRefs(f)
         /\ FIDT' = FIDT => FCBRefs(FIDT', f) = FCBRefs(FIDT, f)
<1>1. \A f : /\ Refs(f) = Cardinality(FCBRefs(FIDT, f)) + Cardinality(CallRefs(f))
             /\ Refs(f)' = Cardinality(FCBRefs(FIDT', f)) + Cardinality(CallRefs(f)')
  BY FidTable DEF Refs
<1>2. \A f : UNCHANGED using => CallRefs(f)' = CallRefs(f)
  BY DEF CallRefs
<1>3. \A f : /\ Cardinality(FCBRefs(FIDT, f)) \in Nat /\ Cardinality(CallRefs(f)) \in Nat
             /\ Cardinality(FCBRefs(FIDT', f)) \in Nat /\ Cardinality(CallRefs(f)') \in Nat
             /\ Refs(f) \in Nat /\ Refs(f)' \in Nat
  BY FidTable, Finite, FiniteNext
<1> QED BY <1>1, <1>2, <1>3

\* A step that takes the streams of a set from the free list, gives each its
\* first reference, and puts nothing back.
LEMMA Acquire ==
  ASSUME IInv, NEW S \in SUBSET FCBs, \A f \in S : Refs(f) = 0,
         \A f \in FCBs : Refs(f)' = Refs(f) + (IF f \in S THEN 1 ELSE 0),
         \A f \in FCBs : refcount'[f] = IF f \in S THEN 1 ELSE refcount[f],
         \A f \in FCBs : open'[f] <=> (open[f] \/ f \in S),
         ToSet(FCB_freelist') = ToSet(FCB_freelist) \ S, IsInjective(FCB_freelist'),
         TypeOK', DeadInv'
  PROVE  IInv'
<1>1. /\ \A f \in FCBs : f \in ToSet(FCB_freelist) <=> Refs(f) = 0
      /\ \A f \in FCBs : Refs(f) # 0 => refcount[f] = Refs(f)
      /\ \A f \in FCBs : open[f] <=> Refs(f) # 0
      /\ \A f \in FCBs : Refs(f) \in Nat
  BY Before, RefsParts
<1>2. ASSUME NEW f \in FCBs
      PROVE  /\ f \in ToSet(FCB_freelist') <=> Refs(f)' = 0
             /\ Refs(f)' # 0 => refcount'[f] = Refs(f)'
             /\ open'[f] <=> Refs(f)' # 0
  <2>1. CASE f \in S
    <3>1. Refs(f)' = 1 /\ refcount'[f] = 1 /\ open'[f] /\ f \notin ToSet(FCB_freelist')
      BY <2>1
    <3> QED BY <3>1
  <2>2. CASE f \notin S
    <3>1. /\ Refs(f)' = Refs(f) /\ refcount'[f] = refcount[f] /\ open'[f] <=> open[f]
          /\ f \in ToSet(FCB_freelist') <=> f \in ToSet(FCB_freelist)
      BY <1>1, <2>2
    <3> QED BY <1>1, <3>1
  <2> QED BY <2>1, <2>2
<1> QED BY <1>2, RefsInvNext

\* The initial state.
LEMMA InitInv ==
  ASSUME Init
  PROVE  IInv
<1>1. FCB_freelist \in Seq(FCBs) /\ ToSet(FCB_freelist) = FCBs /\ IsInjective(FCB_freelist)
  BY OrderElements DEF Init
<1>2. TypeOK /\ DeadInv
  BY <1>1 DEF Init, TypeOK, DeadInv
<1>3. \A f \in FCBs : FidRefs(f) = {} /\ CallRefs(f) = {} /\ ~ open[f]
  <2>1. ASSUME NEW f \in FCBs
        PROVE  FidRefs(f) = {} /\ CallRefs(f) = {} /\ ~ open[f]
    <3>1. \A r \in Procs \X Fids : FIDT[r[1]][r[2]] = NoFCB
      BY DEF Init
    <3>2. \A t \in Threads : using[t] = NoFCB
      BY DEF Init
    <3>3. ~ open[f]
      BY DEF Init
    <3> QED BY <3>1, <3>2, <3>3, StreamsAssumption DEF FidRefs, CallRefs
  <2> QED BY <2>1
<1>4. \A f \in FCBs : Listed(f)
  BY <1>1 DEF Listed, ToSet
<1>5. CountInv /\ OpenInv
  BY <1>3, <1>4 DEF CountInv, OpenInv
<1>6. FreeInv
  BY <1>1, <1>3, <1>4 DEF FreeInv, IsInjective
<1> QED BY <1>2, <1>5, <1>6 DEF IInv, StreamsInv

\* A call that opens one stream, or fails to.
LEMMA OpenStream ==
  ASSUME IInv, NEW p \in Procs, NEW works \in BOOLEAN, open_stream(p, works)
  PROVE  IInv'
<1> DEFINE L == FCB_freelist
<1>1. PICK f : f = Head(L)
  OBVIOUS
<1>2. PICK i : i = Lowest(FreeFids(p))
  OBVIOUS
<1>3. /\ pstate[p] = "ALIVE" /\ FreeFids(p) # {} /\ L # <<>>
      /\ refcount' = [refcount EXCEPT ![f] = 1]
      /\ UNCHANGED <<using, pstate>>
      /\ works => /\ FIDT' = [FIDT EXCEPT ![p][i] = f]
                  /\ FCB_freelist' = Tail(L)
                  /\ open' = [open EXCEPT ![f] = TRUE]
      /\ ~ works => /\ FCB_freelist' = Append(Tail(L), f)
                    /\ UNCHANGED <<FIDT, open>>
  BY <1>1, <1>2 DEF open_stream
<1>4. i \in Fids /\ FIDT[p][i] = NoFCB
  BY <1>2, <1>3, LowestFid DEF FreeFids
<1>5. /\ f \in FCBs /\ f \in ToSet(L) /\ Tail(L) \in Seq(FCBs)
      /\ ToSet(Tail(L)) = ToSet(L) \ {f} /\ IsInjective(Tail(L))
  BY <1>1, <1>3, Before, TailElements
<1>6. Refs(f) = 0
  BY <1>5, Before
<1>7. refcount' \in [FCBs -> Nat]
  BY <1>3, Before DEF TypeOK
<1>a. TypeOK /\ DeadInv /\ FIDT \in Tables
  BY Before
<1>8. CASE works
  <2>0. SetsFid(FIDT, FIDT', p, i, f) /\ FCB_freelist' = Tail(L)
        /\ open' = [open EXCEPT ![f] = TRUE]
    BY <1>3, <1>8 DEF SetsFid
  <2>z. f \in FCBs \cup {NoFCB}
    BY <1>5
  <2>1. ASSUME NEW g \in FCBs
        PROVE  Refs(g)' = Refs(g) + (IF g \in {f} THEN 1 ELSE 0)
    <3>1. Cardinality(FCBRefs(FIDT', g)) = Cardinality(FCBRefs(FIDT, g))
             - (IF FIDT[p][i] = g THEN 1 ELSE 0) + (IF f = g THEN 1 ELSE 0)
      BY <1>4, <1>a, <2>0, <2>z, SetFid
    <3>2. FIDT[p][i] # g
      BY <1>4, StreamsAssumption
    <3>3. CallRefs(g)' = CallRefs(g)
      BY <1>3, RefsParts
    <3> QED BY <3>1, <3>2, <3>3, RefsParts
  <2>2. \A g \in FCBs : refcount'[g] = IF g \in {f} THEN 1 ELSE refcount[g]
    BY <1>3, <1>a DEF TypeOK
  <2>3. \A g \in FCBs : open'[g] <=> (open[g] \/ g \in {f})
    BY <2>0, <1>a DEF TypeOK
  <2>5. FIDT' \in Tables
    BY <1>4, <1>a, <2>0, <2>z, SetFidTable
  <2>6. TypeOK'
    BY <1>3, <1>5, <1>7, <1>a, <2>0, <2>5 DEF TypeOK, Tables
  <2>7. DeadInv'
    <3>1. \A q \in Procs : q # p => FIDT'[q] = FIDT[q]
      BY <1>4, <1>a, <2>0, <2>z, SetFidTable
    <3> QED BY <1>3, <1>a, <3>1 DEF DeadInv
  <2>8. ToSet(FCB_freelist') = ToSet(L) \ {f} /\ IsInjective(FCB_freelist')
    BY <1>5, <2>0
  <2> QED
    BY <1>5, <1>6, <2>1, <2>2, <2>3, <2>6, <2>7, <2>8, Acquire
<1>9. CASE ~ works
  <2>0. FCB_freelist' = Append(Tail(L), f) /\ UNCHANGED <<FIDT, open>>
    BY <1>3, <1>9
  <2>a. /\ L \in Seq(FCBs) /\ f \notin ToSet(Tail(L)) /\ (ToSet(L) \ {f}) \cup {f} = ToSet(L)
    BY <1>5, Before
  <2> HIDE DEF L
  <2>b. /\ Append(Tail(L), f) \in Seq(FCBs)
        /\ ToSet(Append(Tail(L), f)) = ToSet(Tail(L)) \cup {f}
        /\ IsInjective(Append(Tail(L), f))
    <3>1. PICK m \in Seq(FCBs) : m = Tail(L)
      BY <1>5 DEF L
    <3>2. IsInjective(m) /\ f \notin ToSet(m)
      BY <1>5, <2>a, <3>1 DEF L
    <3>3. /\ Append(m, f) \in Seq(FCBs)
          /\ ToSet(Append(m, f)) = ToSet(m) \cup {f}
          /\ IsInjective(Append(m, f))
      BY <1>5, <3>2, AppendElement
    <3> QED BY <3>1, <3>3
  <2>1. /\ FCB_freelist' \in Seq(FCBs) /\ IsInjective(FCB_freelist')
        /\ ToSet(FCB_freelist') = ToSet(L)
    BY <2>0, <2>a, <2>b, <1>5
  <2>2. \A g \in FCBs : Refs(g)' = Refs(g)
    BY <1>3, <2>0, RefsParts
  <2>3. TypeOK' /\ DeadInv'
    BY <1>3, <1>7, <1>a, <2>0, <2>1 DEF TypeOK, DeadInv
  <2>4. \A g \in FCBs : g # f => refcount'[g] = refcount[g]
    BY <1>3, <1>a DEF TypeOK
  <2>5. \A g \in FCBs : /\ g \in ToSet(L) <=> Refs(g) = 0
                        /\ Refs(g) # 0 => refcount[g] = Refs(g)
                        /\ open[g] <=> Refs(g) # 0
    BY Before DEF L
  <2>6. ASSUME NEW g \in FCBs
        PROVE  /\ g \in ToSet(FCB_freelist') <=> Refs(g)' = 0
               /\ Refs(g)' # 0 => refcount'[g] = Refs(g)'
               /\ open'[g] <=> Refs(g)' # 0
    BY <1>6, <2>0, <2>1, <2>2, <2>4, <2>5
  <2> QED
    BY <2>1, <2>3, <2>6, RefsInvNext
<1> QED BY <1>8, <1>9

\* A Read or Write starts.
LEMMA StartIOInv ==
  ASSUME IInv, NEW p \in Procs, NEW i \in Fids, NEW t \in Threads, StartIO(t, p, i)
  PROVE  IInv'
<1>1. PICK f \in FCBs : f = FIDT[p][i]
  BY Before DEF StartIO, TypeOK
<1>2. /\ using[t] = NoFCB /\ refcount' = [refcount EXCEPT ![f] = @ + 1]
      /\ using' = [using EXCEPT ![t] = f]
      /\ UNCHANGED <<FIDT, FCB_freelist, open, pstate>>
  BY <1>1 DEF StartIO, FCB_incref
<1>3. Refs(f) # 0
  <2>1. <<p, i>> \in FidRefs(f)
    BY <1>1 DEF FidRefs
  <2> QED BY <2>1, Finite
<1>4. ASSUME NEW g \in FCBs
      PROVE  Refs(g)' = Refs(g) + (IF g = f THEN 1 ELSE 0)
  <2>1. CallRefs(g)' = IF g = f THEN CallRefs(g) \cup {t} ELSE CallRefs(g)
    BY <1>2, StreamsAssumption, Before DEF CallRefs, TypeOK
  <2>2. t \notin CallRefs(g)
    BY <1>2, StreamsAssumption DEF CallRefs
  <2>3. Cardinality(CallRefs(g) \cup {t}) = Cardinality(CallRefs(g)) + 1
    BY <2>2, Finite, FS_AddElement
  <2>4. FCBRefs(FIDT', g) = FCBRefs(FIDT, g)
    BY <1>2, RefsParts
  <2>5. /\ Refs(g) = Cardinality(FCBRefs(FIDT, g)) + Cardinality(CallRefs(g))
        /\ Refs(g)' = Cardinality(FCBRefs(FIDT', g)) + Cardinality(CallRefs(g)')
        /\ Cardinality(FCBRefs(FIDT, g)) \in Nat /\ Cardinality(CallRefs(g)) \in Nat
    BY RefsParts
  <2> QED BY <2>1, <2>3, <2>4, <2>5
<1>5. TypeOK' /\ DeadInv'
  BY <1>2, Before DEF TypeOK, DeadInv
<1>6. /\ \A g \in FCBs : /\ g \in ToSet(FCB_freelist) <=> Refs(g) = 0
                         /\ Refs(g) # 0 => refcount[g] = Refs(g)
                         /\ open[g] <=> Refs(g) # 0
      /\ refcount \in [FCBs -> Nat] /\ IsInjective(FCB_freelist)
  BY Before DEF TypeOK
<1>7. ASSUME NEW g \in FCBs
      PROVE  /\ g \in ToSet(FCB_freelist') <=> Refs(g)' = 0
             /\ Refs(g)' # 0 => refcount'[g] = Refs(g)'
             /\ open'[g] <=> Refs(g)' # 0
  <2>1. Refs(g) \in Nat
    BY RefsParts
  <2>2. Refs(g)' = 0 <=> Refs(g) = 0
    BY <1>3, <1>4, <2>1
  <2>3. refcount'[g] = refcount[g] + (IF g = f THEN 1 ELSE 0)
    BY <1>2, <1>6
  <2>4. FCB_freelist' = FCB_freelist /\ open' = open
    BY <1>2
  <2>5. /\ g \in ToSet(FCB_freelist) <=> Refs(g) = 0
        /\ Refs(g) # 0 => refcount[g] = Refs(g)
        /\ open[g] <=> Refs(g) # 0
    BY <1>6
  <2>6. Refs(g)' = Refs(g) + (IF g = f THEN 1 ELSE 0)
    BY <1>4
  <2>7. Refs(g) # 0 => refcount'[g] = Refs(g)'
    BY <2>3, <2>5, <2>6
  <2> QED BY <2>2, <2>4, <2>5, <2>7
<1>8. IsInjective(FCB_freelist')
  BY <1>2, <1>6
<1> QED
  BY <1>5, <1>7, <1>8, RefsInvNext

\* It ends.
LEMMA EndIOInv ==
  ASSUME IInv, NEW t \in Threads, EndIO(t)
  PROVE  IInv'
<1>1. PICK f \in FCBs : f = using[t]
  BY Before DEF EndIO, TypeOK
<1>2. /\ FCB_decref(One(f)) /\ using' = [using EXCEPT ![t] = NoFCB]
      /\ UNCHANGED <<FIDT, pstate>>
  BY <1>1 DEF EndIO
<1>3. One(f) \in [FCBs -> Int] /\ \A g \in FCBs : One(f)[g] = IF g = f THEN 1 ELSE 0
  BY DEF One
<1>4. ASSUME NEW g \in FCBs
      PROVE  Refs(g)' = Refs(g) - One(f)[g]
  <2>1. CallRefs(g)' = IF g = f THEN CallRefs(g) \ {t} ELSE CallRefs(g)
    BY <1>1, <1>2, StreamsAssumption, Before DEF CallRefs, TypeOK
  <2>2. t \in CallRefs(f)
    BY <1>1 DEF CallRefs
  <2>3. Cardinality(CallRefs(f) \ {t}) = Cardinality(CallRefs(f)) - 1
    BY <2>2, Finite, FS_RemoveElement
  <2>4. FCBRefs(FIDT', g) = FCBRefs(FIDT, g)
    BY <1>2, RefsParts
  <2>5. /\ Refs(g) = Cardinality(FCBRefs(FIDT, g)) + Cardinality(CallRefs(g))
        /\ Refs(g)' = Cardinality(FCBRefs(FIDT', g)) + Cardinality(CallRefs(g)')
        /\ Cardinality(FCBRefs(FIDT, g)) \in Nat /\ Cardinality(CallRefs(g)) \in Nat
    BY RefsParts
  <2> QED BY <1>3, <2>1, <2>3, <2>4, <2>5
<1>5. Refs(f) # 0
  BY <1>1, Finite DEF CallRefs
<1>6. \A g \in FCBs : Refs(g) = 0 => One(f)[g] = 0
  BY <1>3, <1>5
<1>7. /\ FIDT' \in [Procs -> [Fids -> FCBs \cup {NoFCB}]]
      /\ using' \in [Threads -> FCBs \cup {NoFCB}]
      /\ pstate' \in [Procs -> {"FREE", "ALIVE"}] /\ DeadInv'
  BY <1>2, Before DEF TypeOK, DeadInv
<1> QED BY <1>2, <1>3, <1>4, <1>6, <1>7, Decrefs

\* Two streams are opened.
LEMMA PipeInv ==
  ASSUME IInv, NEW p \in Procs, sys_Pipe(p)
  PROVE  IInv'
<1> DEFINE L == FCB_freelist
<1>1. PICK i : i = Lowest(FreeFids(p))
  OBVIOUS
<1>2. PICK j : j = Lowest(FreeFids(p) \ {i})
  OBVIOUS
<1>3. PICK f, g : f = L[1] /\ g = L[2]
  OBVIOUS
<1>4. PICK T : T = [FIDT EXCEPT ![p][i] = f]
  OBVIOUS
<1>a. TypeOK /\ DeadInv /\ FIDT \in Tables
  BY Before
<1>5. /\ pstate[p] = "ALIVE"
      /\ FreeFids(p) # {} /\ FreeFids(p) \ {i} # {} /\ Len(L) >= 2
      /\ FIDT' = [FIDT EXCEPT ![p][i] = f, ![p][j] = g]
      /\ refcount' = [refcount EXCEPT ![f] = 1, ![g] = 1]
      /\ FCB_freelist' = Tail(Tail(L))
      /\ open' = [open EXCEPT ![f] = TRUE, ![g] = TRUE]
      /\ UNCHANGED <<using, pstate>>
  BY <1>1, <1>2, <1>3 DEF sys_Pipe
<1>6. /\ i \in Fids /\ FIDT[p][i] = NoFCB /\ j \in Fids /\ FIDT[p][j] = NoFCB /\ i # j
  BY <1>1, <1>2, <1>5, LowestFid DEF FreeFids
<1>b. L \in Seq(FCBs) /\ L # <<>>
  BY <1>5, Before
<1>7. PICK M \in Seq(FCBs) : M = Tail(L)
  BY <1>b, TailElements
<1>8. /\ f \in FCBs /\ f \in ToSet(L) /\ IsInjective(M) /\ ToSet(M) = ToSet(L) \ {f}
      /\ Len(M) = Len(L) - 1
  <2>1. L # <<>>
    BY <1>5
  <2> QED BY <1>3, <1>7, <2>1, Before, TailElements
<1>9. M # <<>> /\ Head(M) = g
  <2>1. PICK l \in Seq(FCBs) : l = L
    BY <1>b
  <2>2. Len(l) >= 2 /\ M = Tail(l) /\ g = l[2]
    BY <1>3, <1>5, <1>7, <2>1
  <2> QED BY <2>2, SecondElement
<1>10. /\ g \in FCBs /\ g \in ToSet(M) /\ Tail(M) \in Seq(FCBs)
       /\ IsInjective(Tail(M)) /\ ToSet(Tail(M)) = ToSet(M) \ {g}
  BY <1>8, <1>9, TailElements
<1>11. Refs(f) = 0 /\ Refs(g) = 0 /\ f # g
  BY <1>8, <1>10, Before
<1>12. SetsFid(FIDT, T, p, i, f) /\ SetsFid(T, FIDT', p, j, g)
  <2>1. FIDT' = [T EXCEPT ![p][j] = g]
    BY <1>4, <1>5
  <2> QED BY <1>4, <2>1 DEF SetsFid
<1>13. f \in FCBs \cup {NoFCB} /\ g \in FCBs \cup {NoFCB}
  BY <1>8, <1>10
<1>14. /\ T \in Tables /\ T[p][i] = f /\ \A q \in Procs : q # p => T[q] = FIDT[q]
       /\ T[p][j] = FIDT[p][j]
  BY <1>6, <1>12, <1>13, <1>a, SetFidTable
<1>15. /\ FIDT' \in Tables /\ \A q \in Procs : q # p => FIDT'[q] = T[q]
  BY <1>6, <1>12, <1>13, <1>14, SetFidTable
<1>16. ASSUME NEW h \in FCBs
       PROVE  Refs(h)' = Refs(h) + (IF h \in {f, g} THEN 1 ELSE 0)
  <2>1. Cardinality(FCBRefs(T, h)) = Cardinality(FCBRefs(FIDT, h))
           - (IF FIDT[p][i] = h THEN 1 ELSE 0) + (IF f = h THEN 1 ELSE 0)
    BY <1>6, <1>12, <1>13, <1>a, SetFid
  <2>2. Cardinality(FCBRefs(FIDT', h)) = Cardinality(FCBRefs(T, h))
           - (IF T[p][j] = h THEN 1 ELSE 0) + (IF g = h THEN 1 ELSE 0)
    BY <1>6, <1>12, <1>13, <1>14, SetFid
  <2>3. FIDT[p][i] # h /\ T[p][j] # h
    BY <1>6, <1>14, StreamsAssumption
  <2>4. CallRefs(h)' = CallRefs(h)
    BY <1>5, RefsParts
  <2>5. /\ Refs(h) = Cardinality(FCBRefs(FIDT, h)) + Cardinality(CallRefs(h))
        /\ Refs(h)' = Cardinality(FCBRefs(FIDT', h)) + Cardinality(CallRefs(h)')
        /\ Cardinality(FCBRefs(FIDT, h)) \in Nat /\ Cardinality(CallRefs(h)) \in Nat
    BY RefsParts
  <2> QED BY <1>11, <2>1, <2>2, <2>3, <2>4, <2>5
<1>17. /\ \A h \in FCBs : refcount'[h] = IF h \in {f, g} THEN 1 ELSE refcount[h]
       /\ \A h \in FCBs : open'[h] <=> (open[h] \/ h \in {f, g})
       /\ refcount' \in [FCBs -> Nat] /\ open' \in [FCBs -> BOOLEAN]
  BY <1>5, <1>a DEF TypeOK
<1>18. /\ FCB_freelist' \in Seq(FCBs) /\ IsInjective(FCB_freelist')
       /\ ToSet(FCB_freelist') = ToSet(L) \ {f, g}
  BY <1>5, <1>7, <1>8, <1>10
<1>19. TypeOK'
  BY <1>5, <1>15, <1>17, <1>18, <1>a DEF TypeOK, Tables
<1>20. DeadInv'
  <2>1. \A q \in Procs : q # p => FIDT'[q] = FIDT[q]
    BY <1>14, <1>15
  <2> QED BY <1>5, <1>a, <2>1 DEF DeadInv
<1>21. {f, g} \in SUBSET FCBs /\ \A h \in {f, g} : Refs(h) = 0
  BY <1>8, <1>10, <1>11
<1> QED
  BY <1>16, <1>17, <1>18, <1>19, <1>20, <1>21, Acquire

\* One FCB is left: nothing changes but a count that nobody reads.
LEMMA PipeFailsInv ==
  ASSUME IInv, NEW p \in Procs, PipeFails(p)
  PROVE  IInv'
<1>1. PICK f : f = Head(FCB_freelist)
  OBVIOUS
<1>2. /\ refcount' = [refcount EXCEPT ![f] = 0] /\ FCB_freelist # <<>>
      /\ UNCHANGED <<FIDT, FCB_freelist, open, using, pstate>>
  BY <1>1 DEF PipeFails, RollBack
<1>3. f \in FCBs /\ f \in ToSet(FCB_freelist)
  BY <1>1, <1>2, Before, TailElements
<1>4. /\ TypeOK /\ DeadInv /\ IsInjective(FCB_freelist)
      /\ \A h \in FCBs : h \in ToSet(FCB_freelist) <=> Refs(h) = 0
      /\ \A h \in FCBs : Refs(h) # 0 => refcount[h] = Refs(h)
      /\ \A h \in FCBs : open[h] <=> Refs(h) # 0
  BY Before
<1>5. TypeOK' /\ DeadInv' /\ IsInjective(FCB_freelist')
  BY <1>2, <1>4 DEF TypeOK, DeadInv
<1>6. \A h \in FCBs : h # f => refcount'[h] = refcount[h]
  BY <1>2, <1>4 DEF TypeOK
<1>7. ASSUME NEW h \in FCBs
      PROVE  /\ h \in ToSet(FCB_freelist') <=> Refs(h)' = 0
             /\ Refs(h)' # 0 => refcount'[h] = Refs(h)'
             /\ open'[h] <=> Refs(h)' # 0
  <2>1. Refs(h)' = Refs(h)
    BY <1>2, RefsParts
  <2> QED BY <1>2, <1>3, <1>4, <1>6, <2>1
<1> QED BY <1>5, <1>7, RefsInvNext

\* A descriptor refers to what it holds.
LEMMA Referred ==
  ASSUME NEW p \in Procs, NEW i \in Fids, NEW f, FIDT[p][i] = f
  PROVE  Refs(f) # 0
<1>1. <<p, i>> \in FidRefs(f)
  BY DEF FidRefs
<1> QED BY <1>1, Finite

\* Descriptor i of p, which holds something, comes to hold x, and the counts
\* follow: Close and Dup2.
LEMMA ChangeFid ==
  ASSUME IInv, NEW p \in Procs, NEW i \in Fids, NEW x \in FCBs \cup {NoFCB},
         NEW y, y = FIDT[p][i], pstate[p] = "ALIVE",
         \A f \in FCBs : x = f => Refs(f) # 0,
         SetsFid(FIDT, FIDT', p, i, x), UNCHANGED <<using, pstate>>,
         NEW drop \in [FCBs -> Int], FCB_decref(drop),
         \A f \in FCBs : drop[f] = (IF y = f THEN 1 ELSE 0) - (IF x = f THEN 1 ELSE 0)
  PROVE  IInv'
<1>a. TypeOK /\ DeadInv /\ FIDT \in Tables
  BY Before
<1>1. ASSUME NEW f \in FCBs
      PROVE  Refs(f)' = Refs(f) - drop[f]
  <2>1. Cardinality(FCBRefs(FIDT', f)) = Cardinality(FCBRefs(FIDT, f))
           - (IF FIDT[p][i] = f THEN 1 ELSE 0) + (IF x = f THEN 1 ELSE 0)
    BY <1>a, SetFid
  <2>2. CallRefs(f)' = CallRefs(f)
    BY RefsParts
  <2>3. /\ Refs(f) = Cardinality(FCBRefs(FIDT, f)) + Cardinality(CallRefs(f))
        /\ Refs(f)' = Cardinality(FCBRefs(FIDT', f)) + Cardinality(CallRefs(f)')
        /\ Cardinality(FCBRefs(FIDT, f)) \in Nat /\ Cardinality(CallRefs(f)) \in Nat
    BY RefsParts
  <2>4. drop[f] = (IF y = f THEN 1 ELSE 0) - (IF x = f THEN 1 ELSE 0) /\ y = FIDT[p][i]
    OBVIOUS
  <2> QED BY <2>1, <2>2, <2>3, <2>4
<1>2. ASSUME NEW f \in FCBs, Refs(f) = 0
      PROVE  drop[f] = 0
  <2>1. x # f /\ y # f
    BY <1>2, Referred
  <2> QED BY <2>1
<1>3. FIDT' \in Tables /\ \A q \in Procs : q # p => FIDT'[q] = FIDT[q]
  <2>1. SetsFid(FIDT, FIDT', p, i, x)
    OBVIOUS
  <2> QED BY <1>a, <2>1 DEF Tables, SetsFid
<1>4. DeadInv'
  BY <1>3, <1>a DEF DeadInv
<1>5. /\ FIDT' \in [Procs -> [Fids -> FCBs \cup {NoFCB}]]
      /\ using' \in [Threads -> FCBs \cup {NoFCB}]
      /\ pstate' \in [Procs -> {"FREE", "ALIVE"}]
  BY <1>3, <1>a DEF TypeOK, Tables
<1> QED BY <1>1, <1>2, <1>4, <1>5, Decrefs

\* A descriptor is closed.
LEMMA CloseInv ==
  ASSUME IInv, NEW p \in Procs, NEW i \in Fids, sys_Close(p, i)
  PROVE  IInv'
<1>1. PICK y : y = FIDT[p][i]
  OBVIOUS
<1>2. /\ pstate[p] = "ALIVE" /\ SetsFid(FIDT, FIDT', p, i, NoFCB)
      /\ FCB_decref(One(y)) /\ UNCHANGED <<using, pstate>>
  BY <1>1 DEF sys_Close, SetsFid
<1>3. /\ One(y) \in [FCBs -> Int]
      /\ \A f \in FCBs : One(y)[f] = (IF y = f THEN 1 ELSE 0) - (IF NoFCB = f THEN 1 ELSE 0)
  BY StreamsAssumption DEF One
<1>4. NoFCB \in FCBs \cup {NoFCB} /\ \A f \in FCBs : NoFCB # f
  BY StreamsAssumption
<1> QED BY <1>1, <1>2, <1>3, <1>4, ChangeFid

\* A descriptor comes to hold the stream of another.
LEMMA Dup2Inv ==
  ASSUME IInv, NEW p \in Procs, NEW i \in Fids, NEW j \in Fids, sys_Dup2(p, i, j)
  PROVE  IInv'
<1>1. PICK x, y : x = FIDT[p][i] /\ y = FIDT[p][j]
  OBVIOUS
<1>2. PICK drop : drop = [f \in FCBs |-> One(y)[f] - One(x)[f]]
  OBVIOUS
<1>3. /\ pstate[p] = "ALIVE" /\ SetsFid(FIDT, FIDT', p, j, x)
      /\ FCB_decref(drop) /\ UNCHANGED <<using, pstate>>
  BY <1>1, <1>2 DEF sys_Dup2, SetsFid
<1>4. /\ drop \in [FCBs -> Int]
      /\ \A f \in FCBs : drop[f] = (IF y = f THEN 1 ELSE 0) - (IF x = f THEN 1 ELSE 0)
  BY <1>2 DEF One
<1>5. x \in FCBs \cup {NoFCB}
  BY <1>1, Before DEF Tables
<1>6. \A f \in FCBs : x = f => Refs(f) # 0
  BY <1>1, Referred
<1> QED BY <1>1, <1>3, <1>4, <1>5, <1>6, ChangeFid

\* A new process gets the descriptors of its parent.
LEMMA ExecInv ==
  ASSUME IInv, NEW p \in Procs, NEW q \in Procs, sys_Exec(p, q)
  PROVE  IInv'
<1>a. /\ TypeOK /\ DeadInv /\ FIDT \in Tables /\ IsInjective(FCB_freelist)
      /\ \A h \in FCBs : h \in ToSet(FCB_freelist) <=> Refs(h) = 0
      /\ \A h \in FCBs : Refs(h) # 0 => refcount[h] = Refs(h)
      /\ \A h \in FCBs : open[h] <=> Refs(h) # 0
  BY Before
<1>1. /\ pstate[p] = "ALIVE" /\ pstate[q] = "FREE" /\ p # q
      /\ pstate' = [pstate EXCEPT ![q] = "ALIVE"]
      /\ FIDT' = [FIDT EXCEPT ![q] = FIDT[p]]
      /\ refcount' = [f \in FCBs |-> refcount[f] + Held(p, f)]
      /\ UNCHANGED <<FCB_freelist, open, using>>
  BY DEF sys_Exec
<1>2. /\ FIDT' \in Tables /\ \A r \in Procs \ {q} : FIDT[r] = FIDT'[r]
      /\ FIDT'[q] = FIDT[p] /\ \A i \in Fids : FIDT[q][i] = NoFCB
  BY <1>1, <1>a DEF Tables, DeadInv
<1>3. ASSUME NEW f \in FCBs
      PROVE  /\ Held(p, f) \in Nat /\ Refs(f)' = Refs(f) + Held(p, f)
             /\ Refs(f) = 0 => Held(p, f) = 0
  <2>1. {i \in Fids : FIDT'[q][i] = f} = {i \in Fids : FIDT[p][i] = f}
    BY <1>2
  <2>2. /\ Cardinality({i \in Fids : FIDT'[q][i] = f}) \in Nat
        /\ Cardinality(FCBRefs(FIDT', f)) = Cardinality(FCBRefs(FIDT, f))
                                           + Cardinality({i \in Fids : FIDT'[q][i] = f})
    BY <1>2, <1>a, SetRow
  <2>3. Held(p, f) \in Nat /\ Cardinality(FCBRefs(FIDT', f)) = Cardinality(FCBRefs(FIDT, f)) + Held(p, f)
    BY <2>1, <2>2 DEF Held
  <2>4. CallRefs(f)' = CallRefs(f)
    BY <1>1, RefsParts
  <2>5. /\ Refs(f) = Cardinality(FCBRefs(FIDT, f)) + Cardinality(CallRefs(f))
        /\ Refs(f)' = Cardinality(FCBRefs(FIDT', f)) + Cardinality(CallRefs(f)')
        /\ Cardinality(FCBRefs(FIDT, f)) \in Nat /\ Cardinality(CallRefs(f)) \in Nat
    BY RefsParts
  <2>6. ASSUME Refs(f) = 0
        PROVE  Held(p, f) = 0
    <3>1. {i \in Fids : FIDT[p][i] = f} = {}
      BY <2>6, Referred
    <3> QED BY <3>1, FS_EmptySet DEF Held
  <2> QED BY <2>3, <2>4, <2>5, <2>6
<1>4. refcount' \in [FCBs -> Nat]
  <2>1. \A f \in FCBs : refcount[f] + Held(p, f) \in Nat
    BY <1>3, <1>a DEF TypeOK
  <2> QED BY <1>1, <2>1
<1>5. TypeOK'
  BY <1>1, <1>2, <1>4, <1>a DEF TypeOK, Tables
<1>6. DeadInv'
  BY <1>1, <1>2, <1>a DEF DeadInv, TypeOK
<1>7. ASSUME NEW f \in FCBs
      PROVE  /\ f \in ToSet(FCB_freelist') <=> Refs(f)' = 0
             /\ Refs(f)' # 0 => refcount'[f] = Refs(f)'
             /\ open'[f] <=> Refs(f)' # 0
  <2>1. /\ f \in ToSet(FCB_freelist) <=> Refs(f) = 0
        /\ Refs(f) # 0 => refcount[f] = Refs(f)
        /\ open[f] <=> Refs(f) # 0
    BY <1>a
  <2>2. Refs(f) \in Nat
    BY RefsParts
  <2>3. refcount'[f] = refcount[f] + Held(p, f) /\ FCB_freelist' = FCB_freelist /\ open' = open
    BY <1>1
  <2>4. Refs(f)' = 0 <=> Refs(f) = 0
    BY <1>3, <2>2
  <2>5. Refs(f) # 0 => refcount'[f] = Refs(f)'
    BY <1>3, <2>1, <2>3
  <2> QED BY <2>1, <2>3, <2>4, <2>5
<1>8. IsInjective(FCB_freelist')
  BY <1>1, <1>a
<1> QED BY <1>5, <1>6, <1>7, <1>8, RefsInvNext

\* A process that exits drops the references of all its descriptors.
LEMMA ExitInv ==
  ASSUME IInv, NEW p \in Procs, sys_Exit(p)
  PROVE  IInv'
<1>a. TypeOK /\ DeadInv /\ FIDT \in Tables
  BY Before
<1>1. PICK drop : drop = [f \in FCBs |-> Held(p, f)]
  OBVIOUS
<1>2. /\ pstate' = [pstate EXCEPT ![p] = "FREE"]
      /\ FIDT' = [FIDT EXCEPT ![p] = [i \in Fids |-> NoFCB]]
      /\ FCB_decref(drop) /\ UNCHANGED using
  BY <1>1 DEF sys_Exit
<1>3. /\ FIDT' \in Tables /\ \A r \in Procs \ {p} : FIDT'[r] = FIDT[r]
      /\ \A i \in Fids : FIDT'[p][i] = NoFCB
  BY <1>2, <1>a DEF Tables
<1>4. ASSUME NEW f \in FCBs
      PROVE  /\ Held(p, f) \in Nat /\ Refs(f)' = Refs(f) - Held(p, f)
             /\ Refs(f) = 0 => Held(p, f) = 0
  <2>1. /\ Cardinality({i \in Fids : FIDT[p][i] = f}) \in Nat
        /\ Cardinality(FCBRefs(FIDT, f)) = Cardinality(FCBRefs(FIDT', f))
                                           + Cardinality({i \in Fids : FIDT[p][i] = f})
    BY <1>3, <1>a, SetRow
  <2>2. Held(p, f) \in Nat /\ Cardinality(FCBRefs(FIDT, f)) = Cardinality(FCBRefs(FIDT', f)) + Held(p, f)
    BY <2>1 DEF Held
  <2>3. CallRefs(f)' = CallRefs(f)
    BY <1>2, RefsParts
  <2>4. /\ Refs(f) = Cardinality(FCBRefs(FIDT, f)) + Cardinality(CallRefs(f))
        /\ Refs(f)' = Cardinality(FCBRefs(FIDT', f)) + Cardinality(CallRefs(f)')
        /\ Cardinality(FCBRefs(FIDT', f)) \in Nat /\ Cardinality(CallRefs(f)) \in Nat
    BY RefsParts
  <2> QED BY <2>2, <2>3, <2>4
<1>5. /\ drop \in [FCBs -> Int] /\ \A f \in FCBs : drop[f] = Held(p, f)
  <2>1. \A f \in FCBs : Held(p, f) \in Int
    BY <1>4
  <2> QED BY <1>1, <2>1
<1>6. DeadInv'
  BY <1>2, <1>3, <1>a DEF DeadInv, TypeOK
<1>7. /\ FIDT' \in [Procs -> [Fids -> FCBs \cup {NoFCB}]]
      /\ using' \in [Threads -> FCBs \cup {NoFCB}]
      /\ pstate' \in [Procs -> {"FREE", "ALIVE"}]
  BY <1>2, <1>3, <1>a DEF TypeOK, Tables
<1>8. /\ \A f \in FCBs : Refs(f)' = Refs(f) - drop[f]
      /\ \A f \in FCBs : Refs(f) = 0 => drop[f] = 0
  BY <1>4, <1>5
<1> QED BY <1>2, <1>5, <1>6, <1>7, <1>8, Decrefs

\* Nothing changes.
LEMMA Stutter ==
  ASSUME IInv, UNCHANGED vars
  PROVE  IInv'
<1>1. UNCHANGED <<FIDT, refcount, FCB_freelist, open, using, pstate>>
  BY DEF vars, files
<1>2. TypeOK' /\ DeadInv' /\ IsInjective(FCB_freelist')
  BY <1>1, Before DEF TypeOK, DeadInv
<1>3. ASSUME NEW h \in FCBs
      PROVE  /\ h \in ToSet(FCB_freelist') <=> Refs(h)' = 0
             /\ Refs(h)' # 0 => refcount'[h] = Refs(h)'
             /\ open'[h] <=> Refs(h)' # 0
  <2>1. Refs(h)' = Refs(h)
    BY <1>1, RefsParts
  <2> QED BY <1>1, <2>1, Before
<1> QED BY <1>2, <1>3, RefsInvNext

-----------------------------------------------------------------------------
(* The theorem.                                                            *)

\* Through every order of opens, failed reservations, Close, Dup2, Exec, Exit
\* and calls that outlive their descriptor, the count of an FCB in use is the
\* number of those that refer to it, the free list holds exactly the FCBs that
\* nobody refers to, once, and exactly the others are open.
THEOREM FilesCounted == Spec => []StreamsInv
<1>1. Init => IInv
  BY InitInv
<1>2. IInv /\ [Next]_vars => IInv'
  <2>1. SUFFICES ASSUME IInv, [Next]_vars
                 PROVE  IInv'
    OBVIOUS
  <2>2. ASSUME NEW p \in Procs, NEW works \in BOOLEAN, open_stream(p, works)
        PROVE  IInv'
    BY <2>1, <2>2, OpenStream
  <2>3. ASSUME NEW p \in Procs, sys_Pipe(p)
        PROVE  IInv'
    BY <2>1, <2>3, PipeInv
  <2>4. ASSUME NEW p \in Procs, PipeFails(p)
        PROVE  IInv'
    BY <2>1, <2>4, PipeFailsInv
  <2>5. ASSUME NEW p \in Procs, NEW i \in Fids, NEW t \in Threads, StartIO(t, p, i)
        PROVE  IInv'
    BY <2>1, <2>5, StartIOInv
  <2>6. ASSUME NEW p \in Procs, NEW i \in Fids, sys_Close(p, i)
        PROVE  IInv'
    BY <2>1, <2>6, CloseInv
  <2>7. ASSUME NEW p \in Procs, NEW i \in Fids, NEW j \in Fids, sys_Dup2(p, i, j)
        PROVE  IInv'
    BY <2>1, <2>7, Dup2Inv
  <2>8. ASSUME NEW p \in Procs, NEW q \in Procs, sys_Exec(p, q)
        PROVE  IInv'
    BY <2>1, <2>8, ExecInv
  <2>9. ASSUME NEW p \in Procs, sys_Exit(p)
        PROVE  IInv'
    BY <2>1, <2>9, ExitInv
  <2>10. ASSUME NEW t \in Threads, EndIO(t)
         PROVE  IInv'
    BY <2>1, <2>10, EndIOInv
  <2>11. CASE UNCHANGED vars
    BY <2>1, <2>11, Stutter
  <2> QED
    BY <2>1, <2>2, <2>3, <2>4, <2>5, <2>6, <2>7, <2>8, <2>9, <2>10, <2>11 DEF Next
<1>3. IInv => StreamsInv
  BY DEF IInv
<1> QED BY <1>1, <1>2, <1>3, PTL DEF Spec

-----------------------------------------------------------------------------
(* Machine.                                                                *)

Labels == {"boot", "yield", "gain", "set", "timer", "run", "halting", "halted",
           "restarted", "read", "more", "failed", "left", "barrier", "off"}

\* A core between the barriers, or at the end of its kernel.
Inside == Labels \ {"boot", "barrier", "off"}

Reading == {c \in Cores : pc[c] \in {"read", "more", "failed"}}
Halted == {c \in Cores : pc[c] = "halted"}

\* Where a core can be with the thread that has interrupts disabled.
Off == {"gain", "set", "timer", "read", "more", "failed"}

\* The daemon is where its code has a position, with cores to signal.
PicInv ==
  /\ PIC_active \in BOOLEAN /\ kbd_ready \in BOOLEAN
  /\ \/ pic \in {<<"boot">>, <<"select">>, <<"stopped">>, <<"off">>}
     \/ \E S \in SUBSET Cores, late \in BOOLEAN : pic = <<"raise", S, late>>

\* The list of halted cores, with the type that makes it a list.
HaltInv ==
  /\ halted_list \in Seq(Cores) /\ IsInjective(halted_list)
  /\ ToSet(halted_list) = Halted

\* The core with interrupts off is the one on which the reader is, in serial_read
\* or about to go on there.
ReadInv ==
  /\ Reading \subseteq int_disabled
  /\ \A c \in int_disabled : pc[c] \in Off
  /\ reader = "reading" => \E c \in Cores : int_disabled = {c}
  /\ reader # "reading" => int_disabled = {}

\* All pass system_barrier together, and core_barrier before PIC_active is
\* cleared.
PhaseInv ==
  /\ \A c \in Cores : (pc[c] = "boot") <=> (pic = <<"boot">>)
  /\ \A c \in Cores : pc[c] = "off" => pic = <<"off">>
  /\ ~ PIC_active => \A c \in Cores : pc[c] \in {"barrier", "off"}

MachineIInv == MachineTypeOK /\ PicInv /\ HaltInv /\ ReadInv /\ PhaseInv

-----------------------------------------------------------------------------
(* What the steps have in common.                                          *)

\* Core 0 exists.
LEMMA CoreZero == 0 \in Cores /\ ncores \in Nat /\ ncores >= 1
  BY MachineAssumption DEF Cores

\* rlist_remove of cores: the list holds the halted cores that are left.
LEMMA Removed ==
  ASSUME MachineIInv, NEW S
  PROVE  /\ Kept(halted_list, Cores \ S) \in Seq(Cores)
         /\ IsInjective(Kept(halted_list, Cores \ S))
         /\ ToSet(Kept(halted_list, Cores \ S)) = Halted \ S
<1>1. /\ halted_list \in Seq(Cores) /\ IsInjective(halted_list)
      /\ ToSet(halted_list) = Halted
  BY DEF MachineIInv, HaltInv
<1>2. Halted \subseteq Cores
  BY DEF Halted
<1>3. QED
  BY <1>1, <1>2, KeptElements

\* A wakeup takes the last core that halted.
LEMMA LastHaltedHalted ==
  ASSUME MachineIInv
  PROVE  LastHalted(halted_list) \subseteq Halted
<1>1. halted_list \in Seq(Cores) /\ ToSet(halted_list) = Halted
  BY DEF MachineIInv, HaltInv
<1>2. halted_list # <<>> => Head(halted_list) \in ToSet(halted_list)
  BY <1>1, TailElements
<1>3. QED
  BY <1>1, <1>2 DEF LastHalted

\* Cores that move inside the barriers leave the phases as they are.
LEMMA PhaseKept ==
  ASSUME MachineIInv,
         \A c \in Cores : pc'[c] = pc[c] \/ (pc[c] \in Inside /\ pc'[c] \in Inside),
         PIC_active' = PIC_active,
         (pic' = <<"boot">>) <=> (pic = <<"boot">>),
         (pic' = <<"off">>) <=> (pic = <<"off">>)
  PROVE  PhaseInv'
<1>1. \A c \in Cores : (pc'[c] = "boot") <=> (pic' = <<"boot">>)
  BY DEF MachineIInv, PhaseInv, Inside
<1>2. \A c \in Cores : pc'[c] = "off" => pic' = <<"off">>
  BY DEF MachineIInv, PhaseInv, Inside
<1>3. ~ PIC_active => \A c \in Cores : pc'[c] \in {"barrier", "off"}
  BY DEF MachineIInv, PhaseInv, Inside
<1>4. QED
  BY <1>1, <1>2, <1>3 DEF PhaseInv

\* The halted cores of a set restart; a core with interrupts on may yield, or go
\* on in gain.
Restarts(S) ==
  /\ pc' \in [Cores -> Labels]
  /\ halted_list' = Kept(halted_list, Cores \ S)
  /\ \A d \in S \cap Halted : pc'[d] = "restarted"
  /\ \A d \in Cores \ (S \cap Halted) :
       \/ pc'[d] = pc[d]
       \/ /\ pc[d] \in Inside \ {"halted", "read", "more", "failed"}
          /\ d \notin int_disabled
          /\ pc'[d] \in {"yield", "set"}

\* Then the list, the readers and the phases are right again.
LEMMA RestartKeeps ==
  ASSUME MachineIInv, NEW S, Restarts(S), int_disabled' = int_disabled
  PROVE  /\ HaltInv' /\ Reading' = Reading
         /\ \A c \in int_disabled' : pc'[c] \in Off
         /\ \A c \in Cores : pc'[c] = pc[c] \/ (pc[c] \in Inside /\ pc'[c] \in Inside)
<1>1. Halted' = Halted \ S
  BY DEF Restarts, Halted
<1>2. HaltInv'
  BY <1>1, Removed DEF Restarts, HaltInv
<1>3. Reading' = Reading
  BY DEF Restarts, Reading, Halted
<1>4. \A c \in int_disabled' : pc'[c] \in Off
  BY DEF Restarts, Halted, Off, MachineIInv, MachineTypeOK, ReadInv
<1>5. \A c \in Cores : pc'[c] = pc[c] \/ (pc[c] \in Inside /\ pc'[c] \in Inside)
  BY DEF Restarts, Inside, Halted, Labels
<1>6. QED
  BY <1>2, <1>3, <1>4, <1>5

\* dispatch_interrupts restarts at most one core.
LEMMA Dispatches ==
  ASSUME MachineIInv, NEW c \in Cores, NEW label, dispatch_interrupts(c, label),
         pc[c] # "halted",
         \/ label = pc[c]
         \/ /\ pc[c] \in Inside \ {"halted", "read", "more", "failed"}
            /\ c \notin int_disabled /\ label \in {"yield", "set"}
  PROVE  /\ \E S : Restarts(S)
         /\ intpending' \in [Cores -> SUBSET {"ALARM", "RX"}]
         /\ reader' = reader \/ (reader = "asleep" /\ reader' = "ready")
<1> DEFINE S == IF RxWakes(c) THEN LastHalted(halted_list) ELSE {}
<1>1. S \subseteq Halted
  BY LastHaltedHalted
<1>2. /\ halted_list' = Kept(halted_list, Cores \ S)
      /\ pc' = [d \in Cores |-> IF d = c THEN label
                                ELSE IF d \in S THEN "restarted" ELSE pc[d]]
      /\ intpending' = [intpending EXCEPT ![c] = @ \ Dispatched(c)]
      /\ reader' = IF RxWakes(c) THEN "ready" ELSE reader
  BY DEF dispatch_interrupts
<1>3. pc \in [Cores -> Labels] /\ intpending \in [Cores -> SUBSET {"ALARM", "RX"}]
  BY DEF MachineIInv, MachineTypeOK, Labels
<1>4. intpending' \in [Cores -> SUBSET {"ALARM", "RX"}]
  BY <1>2, <1>3
<1>5. reader' = reader \/ (reader = "asleep" /\ reader' = "ready")
  BY <1>2 DEF RxWakes
<1>6. Restarts(S)
  <2> HIDE DEF S
  <2>1. pc' \in [Cores -> Labels]
    BY <1>2, <1>3 DEF Labels
  <2>2. c \notin S
    BY <1>1 DEF Halted
  <2>3. \A d \in S \cap Halted : pc'[d] = "restarted"
    BY <1>1, <1>2, <2>2 DEF Halted
  <2>4. \A d \in Cores \ (S \cap Halted) :
          \/ pc'[d] = pc[d]
          \/ /\ pc[d] \in Inside \ {"halted", "read", "more", "failed"}
             /\ d \notin int_disabled
             /\ pc'[d] \in {"yield", "set"}
    BY <1>1, <1>2
  <2>5. QED
    BY <1>2, <2>1, <2>3, <2>4 DEF Restarts
<1>7. QED
  BY <1>4, <1>5, <1>6

\* raise_interrupt restarts the core it signals if that has halted.
LEMMA Raises ==
  ASSUME MachineIInv, NEW c \in Cores, NEW intno \in {"ALARM", "RX"}, raise_interrupt(c, intno)
  PROVE  /\ \E S : Restarts(S)
         /\ intpending' \in [Cores -> SUBSET {"ALARM", "RX"}]
<1>1. /\ intpending' = [intpending EXCEPT ![c] = @ \cup {intno}]
      /\ halted_list' = Kept(halted_list, Cores \ {c})
      /\ pc' = [d \in Cores |-> IF d \in {c} /\ pc[d] = "halted" THEN "restarted" ELSE pc[d]]
  BY DEF raise_interrupt, core_restart
<1>2. pc \in [Cores -> Labels] /\ intpending \in [Cores -> SUBSET {"ALARM", "RX"}]
  BY DEF MachineIInv, MachineTypeOK, Labels
<1>3. intpending' \in [Cores -> SUBSET {"ALARM", "RX"}]
  BY <1>1, <1>2
<1>4. Restarts({c})
  <2>1. pc' \in [Cores -> Labels]
    BY <1>1, <1>2 DEF Labels
  <2>2. \A d \in {c} \cap Halted : pc'[d] = "restarted"
    BY <1>1 DEF Halted
  <2>3. \A d \in Cores \ ({c} \cap Halted) : pc'[d] = pc[d]
    BY <1>1 DEF Halted
  <2>4. QED
    BY <1>1, <2>1, <2>2, <2>3 DEF Restarts
<1>5. QED
  BY <1>3, <1>4

\* A step after which all of MachineIInv holds, put together.
LEMMA Together ==
  ASSUME pc' \in [Cores -> Labels],
         intpending' \in [Cores -> SUBSET {"ALARM", "RX"}],
         int_disabled' \subseteq Cores, timer' \subseteq Cores, fifo' \in 0 .. FifoSize,
         reader' \in {"user", "reading", "asleep", "ready", "exited"},
         PicInv', HaltInv', ReadInv', PhaseInv'
  PROVE  MachineIInv'
<1>1. MachineTypeOK'
  BY DEF MachineTypeOK, Labels
<1>2. QED
  BY <1>1 DEF MachineIInv

-----------------------------------------------------------------------------
(* The steps.                                                              *)

\* A step of one core c, from one label inside to another, that neither halts
\* it nor restarts others.
LEMMA CoreMoves ==
  ASSUME MachineIInv, NEW c \in Cores, NEW label \in Inside \ {"halted"},
         pc[c] \in Inside \ {"halted"}, Goto(c, label)
  PROVE  /\ pc' \in [Cores -> Labels]
         /\ \A d \in Cores : pc'[d] = IF d = c THEN label ELSE pc[d]
         /\ Halted' = Halted
         /\ \A d \in Cores : pc'[d] = pc[d] \/ (pc[d] \in Inside /\ pc'[d] \in Inside)
<1>1. pc \in [Cores -> Labels] /\ pc' = [pc EXCEPT ![c] = label]
  BY DEF MachineIInv, MachineTypeOK, Labels, Goto
<1>2. pc' \in [Cores -> Labels]
  BY <1>1 DEF Inside
<1>3. \A d \in Cores : pc'[d] = IF d = c THEN label ELSE pc[d]
  BY <1>1
<1>4. Halted' = Halted
  BY <1>3 DEF Halted
<1>5. \A d \in Cores : pc'[d] = pc[d] \/ (pc[d] \in Inside /\ pc'[d] \in Inside)
  BY <1>3
<1>6. QED
  BY <1>2, <1>3, <1>4, <1>5

\* The same, for what the step leaves alone.
LEMMA CoreMovesKeep ==
  ASSUME MachineIInv, NEW c \in Cores, NEW label \in Inside \ {"halted"},
         pc[c] \in Inside \ {"halted"}, Goto(c, label),
         halted_list' = halted_list, pic' = pic, PIC_active' = PIC_active,
         kbd_ready' \in BOOLEAN
  PROVE  /\ pc' \in [Cores -> Labels]
         /\ PicInv' /\ HaltInv' /\ PhaseInv'
<1>1. /\ pc' \in [Cores -> Labels] /\ Halted' = Halted
      /\ \A d \in Cores : pc'[d] = pc[d] \/ (pc[d] \in Inside /\ pc'[d] \in Inside)
  BY CoreMoves
<1>2. HaltInv'
  BY <1>1 DEF MachineIInv, HaltInv
<1>3. PhaseInv'
  BY <1>1, PhaseKept
<1>4. PicInv'
  BY DEF MachineIInv, PicInv
<1>5. QED
  BY <1>1, <1>2, <1>3, <1>4

\* Select, SetTimer, TimerSet, Mask, ReaderExits: the core goes on; the reader may
\* come to it, with interrupts off, and go on in serial_read.
LEMMA PlainSteps ==
  ASSUME MachineIInv, NEW c \in Cores,
         Select(c) \/ SetTimer(c) \/ TimerSet(c) \/ Mask(c) \/ ReaderExits(c)
  PROVE  MachineIInv'
<1> DEFINE label == IF pc[c] = "yield" THEN "gain" ELSE IF pc[c] = "set" THEN "timer"
                    ELSE IF pc[c] = "timer" THEN (IF c \in int_disabled THEN "read" ELSE "run")
                    ELSE IF reader' = "exited" /\ reader = "user" THEN "yield" ELSE "halting"
<1>1. /\ pc[c] \in {"yield", "set", "timer", "run"} /\ Goto(c, label)
      /\ label \in {"yield", "gain", "timer", "read", "run", "halting"}
      /\ label = "read" => c \in int_disabled
      /\ pc[c] \in {"set", "timer"} /\ c \in int_disabled => label \in Off
      /\ halted_list' = halted_list /\ pic' = pic /\ PIC_active' = PIC_active
      /\ kbd_ready' = kbd_ready /\ fifo' = fifo
  BY DEF Select, SetTimer, TimerSet, Mask, ReaderExits, kbdVars, Off
<1>2. kbd_ready \in BOOLEAN /\ MachineTypeOK
  BY DEF MachineIInv, PicInv
<1>4. \/ /\ pc[c] = "yield" /\ label = "gain"
         /\ reader = "ready" /\ reader' = "reading" /\ int_disabled' = int_disabled \cup {c}
      \/ /\ int_disabled' = int_disabled
         /\ reader' = reader \/ (reader = "user" /\ reader' = "exited")
  BY DEF Select, SetTimer, TimerSet, Mask, ReaderExits
<1> HIDE DEF label
<1>3. /\ pc' \in [Cores -> Labels] /\ PicInv' /\ HaltInv' /\ PhaseInv'
      /\ \A d \in Cores : pc'[d] = IF d = c THEN label ELSE pc[d]
  BY <1>1, <1>2, CoreMoves, CoreMovesKeep DEF Inside, Labels
<1>5. ReadInv'
  <2>1. Reading' \subseteq Reading \cup (int_disabled \cap {c})
    BY <1>1, <1>3 DEF Reading
  <2>2. Reading' \subseteq int_disabled'
    BY <1>4, <2>1 DEF MachineIInv, ReadInv
  <2>3. \A d \in int_disabled' : pc'[d] \in Off
    <3>1. \A d \in int_disabled : pc[d] \in Off /\ d \in Cores
      BY <1>2 DEF MachineIInv, ReadInv, MachineTypeOK
    <3>2. c \in int_disabled => label \in Off
      BY <1>1, <3>1 DEF Off
    <3>3. "gain" \in Off
      BY DEF Off
    <3>4. QED
      BY <1>3, <1>4, <3>1, <3>2, <3>3
  <2>4. QED
    BY <1>4, <2>2, <2>3 DEF MachineIInv, ReadInv
<1>6. int_disabled' \subseteq Cores /\ reader' \in {"user", "reading", "asleep", "ready", "exited"}
  BY <1>2, <1>4 DEF MachineTypeOK
<1>7. timer' \subseteq Cores /\ intpending' \in [Cores -> SUBSET {"ALARM", "RX"}]
  BY <1>2 DEF MachineTypeOK, Select, SetTimer, TimerSet, Mask, ReaderExits
<1>8. QED
  BY <1>1, <1>2, <1>3, <1>5, <1>6, <1>7, Together DEF MachineTypeOK

\* A core halts: it is at the front of the list, once.
LEMMA HaltStep ==
  ASSUME MachineIInv, NEW c \in Cores, Halt(c)
  PROVE  MachineIInv'
<1>1. /\ pc[c] = "halting" /\ pc' = [pc EXCEPT ![c] = "halted"]
      /\ halted_list' = <<c>> \o halted_list
      /\ UNCHANGED <<intpending, int_disabled, timer, pic, PIC_active, kbd_ready, fifo, reader>>
  BY DEF Halt, Goto, kbdVars
<1>2. pc \in [Cores -> Labels] /\ MachineTypeOK
  BY DEF MachineIInv, MachineTypeOK, Labels
<1>3. pc' \in [Cores -> Labels] /\ \A d \in Cores : pc'[d] = IF d = c THEN "halted" ELSE pc[d]
  BY <1>1, <1>2 DEF Labels
<1>4. /\ halted_list \in Seq(Cores) /\ IsInjective(halted_list)
      /\ ToSet(halted_list) = Halted /\ c \notin Halted
  BY <1>1 DEF MachineIInv, HaltInv, Halted
<1>5. PICK s : s = <<c>>
  OBVIOUS
<1>6. /\ s \o halted_list \in Seq(Cores)
      /\ ToSet(s \o halted_list) = {c} \cup Halted
      /\ IsInjective(s \o halted_list)
  <2>1. s \in Seq(Cores) /\ ToSet(s) = {c} /\ IsInjective(s)
    BY <1>5 DEF ToSet, IsInjective
  <2>2. ToSet(s) \cap ToSet(halted_list) = {}
    BY <1>4, <2>1
  <2>3. QED
    BY <1>4, <2>1, <2>2, ConcatElements
<1>7. Halted' = {c} \cup Halted
  BY <1>3 DEF Halted
<1>8. HaltInv'
  BY <1>1, <1>5, <1>6, <1>7 DEF HaltInv
<1>9. \A d \in Cores : pc'[d] = pc[d] \/ (pc[d] \in Inside /\ pc'[d] \in Inside)
  BY <1>1, <1>3 DEF Inside, Labels
<1>10. PhaseInv'
  BY <1>1, <1>9, PhaseKept
<1>11. Reading' = Reading /\ c \notin int_disabled
  BY <1>1, <1>3 DEF Reading, MachineIInv, ReadInv, Off
<1>12. ReadInv' /\ PicInv'
  BY <1>1, <1>2, <1>3, <1>11 DEF MachineIInv, MachineTypeOK, ReadInv, PicInv
<1>13. QED
  BY <1>1, <1>2, <1>3, <1>8, <1>10, <1>12, Together DEF MachineTypeOK

\* Gain, HaltReturn and the handler: what is pending is dispatched.
LEMMA DispatchSteps ==
  ASSUME MachineIInv, NEW c \in Cores,
         \/ Gain(c) /\ c \notin int_disabled
         \/ HaltReturn(c)
         \/ sigusr1_handler(c)
  PROVE  MachineIInv'
<1>0. c \in int_disabled => pc[c] \in Off
  BY DEF MachineIInv, ReadInv
<1>1. /\ \E S : Restarts(S)
      /\ intpending' \in [Cores -> SUBSET {"ALARM", "RX"}]
      /\ reader' = reader \/ (reader = "asleep" /\ reader' = "ready")
  <2>1. CASE HaltReturn(c)
    <3>1. pc[c] = "restarted" /\ dispatch_interrupts(c, "yield")
      BY <2>1 DEF HaltReturn
    <3>2. pc[c] \in Inside \ {"halted", "read", "more", "failed"} /\ c \notin int_disabled
      BY <1>0, <3>1 DEF Inside, Labels, Off
    <3>3. QED
      BY <3>1, <3>2, Dispatches
  <2>2. CASE sigusr1_handler(c)
    <3> DEFINE label == IF Up(c) /\ "ALARM" \in intpending[c] THEN "yield" ELSE pc[c]
    <3>1. dispatch_interrupts(c, label) /\ pc[c] # "halted" /\ c \notin int_disabled
      BY <2>2 DEF sigusr1_handler, Masked
    <3>2. Up(c) => pc[c] \in Inside
      BY DEF MachineIInv, MachineTypeOK, Up, Inside, Labels
    <3>3. pc[c] \notin {"read", "more", "failed"}
      BY <3>1 DEF MachineIInv, ReadInv, Reading
    <3>4. \/ label = pc[c]
          \/ /\ pc[c] \in Inside \ {"halted", "read", "more", "failed"}
             /\ c \notin int_disabled /\ label \in {"yield", "set"}
      BY <3>1, <3>2, <3>3
    <3> HIDE DEF label
    <3>5. QED
      BY <3>1, <3>4, Dispatches
  <2>3. CASE Gain(c) /\ c \notin int_disabled
    <3> DEFINE label == IF "ALARM" \in intpending[c] THEN "yield" ELSE "set"
    <3>1. dispatch_interrupts(c, label) /\ pc[c] = "gain" /\ label \in {"yield", "set"}
      BY <2>3 DEF Gain
    <3> HIDE DEF label
    <3>2. pc[c] \in Inside \ {"halted", "read", "more", "failed"}
      BY <3>1 DEF Inside, Labels
    <3>3. QED
      BY <2>3, <3>1, <3>2, Dispatches
  <2>4. QED
    BY <2>1, <2>2, <2>3
<1>2. UNCHANGED <<int_disabled, timer, pic, PIC_active, kbd_ready, fifo>>
  BY DEF Gain, HaltReturn, sigusr1_handler, kbdVars
<1>3. /\ HaltInv' /\ Reading' = Reading /\ \A d \in int_disabled' : pc'[d] \in Off
      /\ \A d \in Cores : pc'[d] = pc[d] \/ (pc[d] \in Inside /\ pc'[d] \in Inside)
  BY <1>1, <1>2, RestartKeeps
<1>4. pc' \in [Cores -> Labels]
  BY <1>1 DEF Restarts
<1>5. PhaseInv'
  BY <1>2, <1>3, PhaseKept
<1>6. ReadInv' /\ PicInv'
  BY <1>1, <1>2, <1>3 DEF MachineIInv, ReadInv, PicInv
<1>7. QED
  BY <1>1, <1>2, <1>3, <1>4, <1>5, <1>6, Together DEF MachineIInv, MachineTypeOK

\* gain with interrupts off: the thread keeps them so.
LEMMA GainStep ==
  ASSUME MachineIInv, NEW c \in Cores, Gain(c)
  PROVE  MachineIInv'
<1>1. CASE c \notin int_disabled
  BY <1>1, DispatchSteps
<1>2. CASE c \in int_disabled
  <2>1. /\ pc[c] = "gain" /\ Goto(c, "set")
        /\ UNCHANGED <<intpending, int_disabled, halted_list, timer, pic, PIC_active,
                       kbd_ready, fifo, reader>>
    BY <1>2 DEF Gain, kbdVars
  <2>2. kbd_ready \in BOOLEAN /\ MachineTypeOK
    BY DEF MachineIInv, PicInv
  <2>3. /\ pc' \in [Cores -> Labels] /\ PicInv' /\ HaltInv' /\ PhaseInv'
        /\ \A d \in Cores : pc'[d] = IF d = c THEN "set" ELSE pc[d]
    BY <2>1, <2>2, CoreMoves, CoreMovesKeep DEF Inside, Labels
  <2>4. Reading' = Reading
    BY <2>1, <2>3 DEF Reading
  <2>5. ReadInv'
    BY <2>1, <2>2, <2>3, <2>4 DEF MachineIInv, MachineTypeOK, ReadInv, Off
  <2>6. QED
    BY <2>1, <2>2, <2>3, <2>5, Together DEF MachineTypeOK
<1>3. QED
  BY <1>1, <1>2

\* A thread enters serial_read: its core is the only one there.
LEMMA ReadStarts ==
  ASSUME MachineIInv, NEW c \in Cores, serial_read(c)
  PROVE  MachineIInv'
<1>1. /\ pc[c] = "run" /\ reader # "reading" /\ reader' = "reading" /\ Goto(c, "read")
      /\ int_disabled' = int_disabled \cup {c}
      /\ UNCHANGED <<intpending, halted_list, timer, pic, PIC_active, kbd_ready, fifo>>
  BY DEF serial_read, kbdVars
<1>2. kbd_ready \in BOOLEAN /\ MachineTypeOK /\ int_disabled = {} /\ Reading = {}
  BY <1>1 DEF MachineIInv, PicInv, ReadInv
<1>3. /\ pc' \in [Cores -> Labels] /\ PicInv' /\ HaltInv' /\ PhaseInv'
      /\ \A d \in Cores : pc'[d] = IF d = c THEN "read" ELSE pc[d]
  BY <1>1, <1>2, CoreMoves, CoreMovesKeep DEF Inside, Labels
<1>4. Reading' = {c} /\ int_disabled' = {c}
  BY <1>1, <1>2, <1>3 DEF Reading
<1>5. ReadInv'
  BY <1>1, <1>3, <1>4 DEF ReadInv, Off
<1>6. QED
  BY <1>1, <1>2, <1>3, <1>5, Together DEF MachineTypeOK

\* In serial_read: the thread takes a byte or finds none, and goes on, returns
\* or sleeps, and with the return or the sleep interrupts are on again.
LEMMA ReadSteps ==
  ASSUME MachineIInv, NEW c \in Cores, ReadByte(c) \/ ReadFails(c) \/ ReadSleeps(c)
  PROVE  MachineIInv'
<1>1. /\ pc[c] \in {"read", "more", "failed"}
      /\ UNCHANGED <<intpending, halted_list, timer, pic, PIC_active>>
  BY DEF ReadByte, ReadFails, ReadSleeps, kbdVars
<1>2. /\ kbd_ready \in BOOLEAN /\ MachineTypeOK /\ reader = "reading"
      /\ Reading = {c} /\ int_disabled = {c}
  <2>1. c \in Reading
    BY <1>1 DEF Reading
  <2>2. QED
    BY <2>1 DEF MachineIInv, PicInv, ReadInv
<1>3. kbd_ready' \in BOOLEAN
  BY <1>2 DEF ReadByte, ReadFails, ReadSleeps, kbdVars
<1>4. fifo' \in 0 .. FifoSize
  BY <1>2, MachineAssumption DEF ReadByte, ReadFails, ReadSleeps, MachineTypeOK, kbdVars
<1>5. \/ /\ Goto(c, "run") \/ Goto(c, "yield")
         /\ int_disabled' = {} /\ reader' \in {"user", "asleep"}
      \/ /\ Goto(c, "more") \/ Goto(c, "failed")
         /\ int_disabled' = {c} /\ reader' = "reading"
  BY <1>2 DEF ReadByte, ReadFails, ReadSleeps, Enable
<1>6. ASSUME NEW label \in {"run", "yield", "more", "failed"}, Goto(c, label)
      PROVE  /\ pc' \in [Cores -> Labels] /\ PicInv' /\ HaltInv' /\ PhaseInv'
             /\ Reading' = IF label \in {"more", "failed"} THEN {c} ELSE {}
             /\ pc'[c] = label
  <2>1. /\ pc' \in [Cores -> Labels] /\ PicInv' /\ HaltInv' /\ PhaseInv'
        /\ \A d \in Cores : pc'[d] = IF d = c THEN label ELSE pc[d]
    BY <1>1, <1>3, <1>6, CoreMoves, CoreMovesKeep DEF Inside, Labels
  <2>2. QED
    BY <1>2, <2>1 DEF Reading
<1>7. ReadInv'
  BY <1>5, <1>6 DEF ReadInv, Off
<1>8. QED
  BY <1>1, <1>2, <1>4, <1>5, <1>6, <1>7, Together DEF MachineTypeOK

\* A core leaves, and restarts every core that has halted: the list is empty.
LEMMA LeaveStep ==
  ASSUME MachineIInv, NEW c \in Cores, Leave(c)
  PROVE  MachineIInv'
<1>1. /\ pc[c] = "run" /\ reader = "exited"
      /\ halted_list' = <<>>
      /\ pc' = [d \in Cores |-> IF d = c THEN "left"
                                ELSE IF pc[d] = "halted" THEN "restarted" ELSE pc[d]]
      /\ timer' = timer \ {c}
      /\ intpending' = [intpending EXCEPT ![c] = @ \ {"ALARM"}]
      /\ UNCHANGED <<int_disabled, pic, PIC_active, kbd_ready, fifo, reader>>
  BY DEF Leave, kbdVars
<1>2. MachineTypeOK /\ pc \in [Cores -> Labels]
  BY DEF MachineIInv, MachineTypeOK, Labels
<1>3. pc' \in [Cores -> Labels]
  BY <1>1, <1>2 DEF Labels
<1>4. \A d \in Cores : pc'[d] = pc[d] \/ (pc[d] \in Inside /\ pc'[d] \in Inside)
  BY <1>1 DEF Inside, Labels
<1>5. PhaseInv'
  BY <1>1, <1>4, PhaseKept
<1>6. Halted' = {}
  BY <1>1 DEF Halted
<1>7. HaltInv'
  BY <1>1, <1>6, EmptyElements DEF HaltInv
<1>8. Reading' = Reading /\ int_disabled = {}
  BY <1>1 DEF Reading, MachineIInv, ReadInv
<1>9. ReadInv' /\ PicInv'
  BY <1>1, <1>8 DEF MachineIInv, ReadInv, PicInv
<1>10. timer' \subseteq Cores /\ intpending' \in [Cores -> SUBSET {"ALARM", "RX"}]
  BY <1>1, <1>2 DEF MachineTypeOK
<1>11. QED
  BY <1>1, <1>2, <1>3, <1>5, <1>7, <1>9, <1>10, Together DEF MachineTypeOK

\* The barriers: all cores pass together, none of them halted or in serial_read.
LEMMA BarrierSteps ==
  ASSUME MachineIInv, Barriers
  PROVE  MachineIInv'
<1> DEFINE label == IF SystemBarrierBoot THEN "yield" ELSE IF CoreBarrier THEN "barrier" ELSE "off"
<1>1. /\ \A c \in Cores : pc[c] \in {"boot", "left", "barrier"}
      /\ pc' = [c \in Cores |-> label] /\ label \in {"yield", "barrier", "off"}
      /\ UNCHANGED <<intpending, int_disabled, halted_list, timer, kbd_ready, fifo, reader>>
  BY DEF Barriers, SystemBarrierBoot, CoreBarrier, SystemBarrierEnd, kbdVars
<1>2. PhaseInv' /\ PicInv'
  <2>1. CASE SystemBarrierBoot
    <3>1. /\ pic = <<"boot">> /\ pic' = <<"select">> /\ PIC_active' = PIC_active
          /\ \A c \in Cores : pc[c] = "boot" /\ pc'[c] = "yield"
      BY <2>1 DEF SystemBarrierBoot
    <3>2. PIC_active
      BY <3>1, CoreZero DEF MachineIInv, PhaseInv
    <3>3. pic' # <<"boot">>
      BY <3>1
    <3>4. QED
      BY <1>1, <3>1, <3>2, <3>3 DEF MachineIInv, PicInv, PhaseInv
  <2>2. CASE CoreBarrier
    <3>1. /\ pic' = pic /\ PIC_active' = FALSE
          /\ \A c \in Cores : pc[c] = "left" /\ pc'[c] = "barrier"
      BY <2>2 DEF CoreBarrier
    <3>2. pic # <<"boot">>
      BY <3>1, CoreZero DEF MachineIInv, PhaseInv
    <3>3. QED
      BY <1>1, <3>1, <3>2 DEF MachineIInv, PicInv, PhaseInv
  <2>3. CASE SystemBarrierEnd
    <3>1. /\ pic' = <<"off">> /\ PIC_active' = PIC_active
          /\ \A c \in Cores : pc'[c] = "off"
      BY <2>3 DEF SystemBarrierEnd
    <3>2. pic' # <<"boot">>
      BY <3>1
    <3>3. QED
      BY <1>1, <3>1, <3>2 DEF MachineIInv, PicInv, PhaseInv
  <2>4. QED
    BY <2>1, <2>2, <2>3 DEF Barriers
<1> HIDE DEF label
<1>3. Halted' = {} /\ Halted = {} /\ Reading' = {} /\ int_disabled = {}
  BY <1>1 DEF Halted, Reading, MachineIInv, MachineTypeOK, ReadInv, Off
<1>4. HaltInv'
  BY <1>1, <1>3 DEF MachineIInv, HaltInv
<1>5. ReadInv'
  BY <1>1, <1>3 DEF MachineIInv, ReadInv
<1>6. pc' \in [Cores -> Labels]
  BY <1>1 DEF Labels
<1>7. QED
  BY <1>1, <1>2, <1>4, <1>5, <1>6, Together DEF MachineIInv, MachineTypeOK

\* The daemon looks at timers and keyboard, or stops.
LEMMA PicWaits ==
  ASSUME MachineIInv, PicStop \/ \E S \in SUBSET timer, late \in BOOLEAN : PicSelect(S, late)
  PROVE  MachineIInv'
<1>1. /\ UNCHANGED <<pc, intpending, int_disabled, halted_list, PIC_active, kbd_ready, fifo, reader>>
      /\ timer' \subseteq timer /\ pic = <<"select">>
      /\ \/ pic' = <<"stopped">>
         \/ \E S \in SUBSET timer, late \in BOOLEAN : pic' = <<"raise", S, late>>
  <2>1. CASE PicStop
    BY <2>1 DEF PicStop, coreVars, kbdVars
  <2>2. CASE \E S \in SUBSET timer, late \in BOOLEAN : PicSelect(S, late)
    <3>1. PICK S \in SUBSET timer : \E late \in BOOLEAN : PicSelect(S, late)
      BY <2>2
    <3>2. PICK late \in BOOLEAN : PicSelect(S, late)
      BY <3>1
    <3>3. (~ kbd_ready /\ fifo > 0) \/ late \in BOOLEAN
      OBVIOUS
    <3>4. \E b \in BOOLEAN : pic' = <<"raise", S, b>>
      BY <3>2 DEF PicSelect
    <3>5. QED
      BY <3>2, <3>4 DEF PicSelect, kbdVars
  <2>3. QED
    BY <2>1, <2>2
<1>2. MachineTypeOK /\ timer \subseteq Cores
  BY DEF MachineIInv, MachineTypeOK
<1>3. /\ PicInv'
      /\ pic # <<"boot">> /\ pic' # <<"boot">> /\ pic # <<"off">> /\ pic' # <<"off">>
  BY <1>1, <1>2 DEF MachineIInv, PicInv
<1>4. PhaseInv'
  BY <1>1, <1>3, PhaseKept
<1>5. HaltInv' /\ ReadInv'
  BY <1>1 DEF MachineIInv, HaltInv, Halted, ReadInv, Reading
<1>6. QED
  BY <1>1, <1>2, <1>3, <1>4, <1>5, Together DEF MachineTypeOK, Labels

\* The daemon raises an interrupt, or ends its turn.
LEMMA PicRaises ==
  ASSUME MachineIInv, PicAlarm \/ PicSerial
  PROVE  MachineIInv'
<1>1. UNCHANGED <<int_disabled, timer, PIC_active, fifo, reader>> /\ pic[1] = "raise"
  BY DEF PicAlarm, PicSerial, kbdVars
<1>2. PICK S \in SUBSET Cores : \E late \in BOOLEAN : pic = <<"raise", S, late>>
  BY <1>1 DEF MachineIInv, PicInv
<1>3. PICK late \in BOOLEAN : pic = <<"raise", S, late>>
  BY <1>2
<1>4. /\ \/ \E c \in Cores, intno \in {"ALARM", "RX"} : raise_interrupt(c, intno)
         \/ UNCHANGED <<pc, intpending, halted_list>>
      /\ pic' = <<"select">> \/ \E T \in SUBSET Cores : pic' = <<"raise", T, late>>
      /\ kbd_ready' \in BOOLEAN
  <2>1. CASE PicAlarm
    <3>1. PICK c \in pic[2] : raise_interrupt(c, "ALARM") /\ pic' = [pic EXCEPT ![2] = @ \ {c}]
      BY <2>1 DEF PicAlarm
    <3>2. c \in Cores
      BY <1>3, <3>1
    <3>3. pic' = <<"raise", S \ {c}, late>>
      BY <1>3, <3>1
    <3>4. QED
      BY <2>1, <3>1, <3>2, <3>3 DEF PicAlarm, kbdVars, MachineIInv, PicInv
  <2>2. CASE PicSerial
    BY <2>2, CoreZero DEF PicSerial, MachineIInv, PicInv
  <2>3. QED
    BY <2>1, <2>2
<1>5. /\ PicInv'
      /\ pic # <<"boot">> /\ pic' # <<"boot">> /\ pic # <<"off">> /\ pic' # <<"off">>
  BY <1>1, <1>3, <1>4 DEF MachineIInv, PicInv
<1>6. /\ pc' \in [Cores -> Labels] /\ intpending' \in [Cores -> SUBSET {"ALARM", "RX"}]
      /\ HaltInv' /\ Reading' = Reading /\ (\A c \in int_disabled' : pc'[c] \in Off)
      /\ \A c \in Cores : pc'[c] = pc[c] \/ (pc[c] \in Inside /\ pc'[c] \in Inside)
  <2>1. CASE UNCHANGED <<pc, intpending, halted_list>>
    BY <1>1, <2>1 DEF MachineIInv, MachineTypeOK, Labels, HaltInv, Halted, Reading, ReadInv
  <2>2. CASE \E c \in Cores, intno \in {"ALARM", "RX"} : raise_interrupt(c, intno)
    <3>1. (\E R : Restarts(R)) /\ intpending' \in [Cores -> SUBSET {"ALARM", "RX"}]
      BY <2>2, Raises
    <3>2. QED
      BY <1>1, <3>1, RestartKeeps DEF Restarts
  <2>3. QED
    BY <1>4, <2>1, <2>2
<1>7. PhaseInv'
  BY <1>1, <1>5, <1>6, PhaseKept
<1>8. ReadInv'
  BY <1>1, <1>6 DEF MachineIInv, ReadInv
<1>9. QED
  BY <1>1, <1>5, <1>6, <1>7, <1>8, Together DEF MachineIInv, MachineTypeOK

\* Somebody types, or nothing happens.
LEMMA OtherSteps ==
  ASSUME MachineIInv, Type \/ UNCHANGED machineVars
  PROVE  MachineIInv'
<1>1. /\ UNCHANGED <<pc, intpending, int_disabled, halted_list, timer, pic, PIC_active, kbd_ready, reader>>
      /\ fifo' \in 0 .. FifoSize
  BY MachineAssumption DEF Type, machineVars, kbdVars, coreVars, MachineIInv, MachineTypeOK
<1>2. MachineTypeOK'
  BY <1>1 DEF MachineIInv, MachineTypeOK
<1>3. PicInv' /\ HaltInv' /\ ReadInv' /\ PhaseInv'
  BY <1>1 DEF MachineIInv, PicInv, HaltInv, Halted, ReadInv, Reading, PhaseInv
<1>4. QED
  BY <1>2, <1>3 DEF MachineIInv

-----------------------------------------------------------------------------
(* The theorems.                                                           *)

\* What every step of the machine keeps: vm_boot and terminal_init establish
\* it, and each step of a core, of a handler, of the daemon and of whoever
\* types preserves it.
THEOREM MachineInvariant == MachineSpec => []MachineIInv
<1>1. vm_boot => MachineIInv
  <2> SUFFICES ASSUME vm_boot PROVE MachineIInv
    OBVIOUS
  <2>1. Halted = {} /\ Reading = {} /\ \A c \in Cores : pc[c] = "boot"
    BY DEF vm_boot, Halted, Reading
  <2>2. MachineTypeOK
    BY MachineAssumption DEF vm_boot, MachineTypeOK
  <2>3. PicInv /\ ReadInv
    BY <2>1 DEF vm_boot, PicInv, ReadInv
  <2>4. HaltInv
    BY <2>1, EmptyElements DEF vm_boot, HaltInv
  <2>5. PhaseInv
    BY <2>1 DEF vm_boot, PhaseInv
  <2>6. QED
    BY <2>2, <2>3, <2>4, <2>5 DEF MachineIInv
<1>2. MachineIInv /\ [MachineNext]_machineVars => MachineIInv'
  <2> SUFFICES ASSUME MachineIInv, [MachineNext]_machineVars PROVE MachineIInv'
    OBVIOUS
  <2>1. ASSUME NEW c \in Cores, CoreStep(c) PROVE MachineIInv'
    BY <2>1, PlainSteps, GainStep, HaltStep, DispatchSteps, ReadSteps, LeaveStep DEF CoreStep
  <2>2. ASSUME NEW c \in Cores, KernelChoice(c) PROVE MachineIInv'
    BY <2>2, PlainSteps, ReadStarts DEF KernelChoice
  <2>3. ASSUME NEW c \in Cores, sigusr1_handler(c) PROVE MachineIInv'
    BY <2>3, DispatchSteps
  <2>4. CASE Barriers
    BY <2>4, BarrierSteps
  <2>5. CASE PicStep
    BY <2>5, PicWaits, PicRaises DEF PicStep
  <2>6. CASE Type \/ UNCHANGED machineVars
    BY <2>6, OtherSteps
  <2>7. QED
    BY <2>1, <2>2, <2>3, <2>4, <2>5, <2>6 DEF MachineNext
<1>3. QED
  BY <1>1, <1>2, PTL DEF MachineSpec

\* The list of halted cores holds each core that waits in cpu_core_halt, once,
\* whatever the daemon, a wakeup or a core that leaves restarts meanwhile, and
\* at most the core on which the reader is has interrupts disabled.
THEOREM HaltedListed == MachineSpec => []MachineInv
<1>1. MachineIInv => MachineInv
  <2> SUFFICES ASSUME MachineIInv PROVE MachineInv
    OBVIOUS
  <2>1. /\ MachineTypeOK /\ IsInjective(halted_list) /\ ToSet(halted_list) = Halted
        /\ Reading \subseteq int_disabled
        /\ \A c \in int_disabled : pc[c] \in Off
    BY DEF MachineIInv, HaltInv, ReadInv
  <2>2. Cardinality(int_disabled) = IF reader = "reading" THEN 1 ELSE 0
    <3>1. CASE reader = "reading"
      <4>1. PICK c \in Cores : int_disabled = {c}
        BY <3>1 DEF MachineIInv, ReadInv
      <4>2. Cardinality({c}) = 1
        BY FS_Singleton
      <4>3. QED
        BY <3>1, <4>1, <4>2
    <3>2. CASE reader # "reading"
      BY <3>2, FS_EmptySet DEF MachineIInv, ReadInv
    <3>3. QED
      BY <3>1, <3>2
  <2>3. QED
    BY <2>1, <2>2 DEF MachineInv, Halted, Reading, Off
<1>2. QED
  BY MachineInvariant, <1>1, PTL

\* No core is signalled before its thread exists or after it has ended, and the
\* daemon is told to stop only when no core is in the kernel any more.
THEOREM SignalsInTime == MachineSpec => []NoLateSignal
<1>1. MachineIInv => NoLateSignal
  <2> SUFFICES ASSUME MachineIInv PROVE NoLateSignal
    OBVIOUS
  <2>1. ASSUME pic[1] \in {"select", "raise"}
        PROVE  pic # <<"boot">> /\ pic # <<"off">>
    <3>1. <<"boot">>[1] = "boot" /\ <<"off">>[1] = "off"
      OBVIOUS
    <3>2. QED
      BY <2>1, <3>1
  <2>2. QED
    BY <2>1 DEF MachineIInv, PhaseInv, NoLateSignal, Up
<1>2. QED
  BY MachineInvariant, <1>1, PTL
=============================================================================
