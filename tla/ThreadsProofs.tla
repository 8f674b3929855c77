--------------------------- MODULE ThreadsProofs ---------------------------
(***************************************************************************)
(* Proofs about Threads, for any number of threads of the process.         *)
(***************************************************************************)
EXTENDS Threads, ListLemmas

Joining(t) == pc[t] \in {"join", "mainexit"}
Created == {u \in Others : pc[u] # "none"}
Live == Created \ freed

\* Who may be where; nobody joins itself or a thread that was never created.
PlaceInv == \A t \in Threads :
  /\ pc[t] \in {"mainexit", "spin", "exit"} => t = Main
  /\ pc[t] \in {"none", "exiting"} => t # Main
  /\ Joining(t) => target[t] \in Created /\ target[t] # t
  /\ t \in freed => pc[t] # "none"

\* ptcb_list holds the PTCBs of created threads that are not freed, once.
PtcbListInv ==
  /\ IsInjective(ptcb_list)
  /\ ToSet(ptcb_list) = Live
  /\ thread_count = Len(ptcb_list) + 1

\* waiting_threads counts the joiners.
WaitingInv ==
  \A u \in Live : ptcb[u].waiting_threads = Cardinality(Joiners(u))

\* A thread that has left ThreadExit's sleep, or exited, has a joiner; the latter
\* has detached itself.
ExitInv == \A u \in Live :
  /\ pc[u] = "EXITED" => ptcb[u].detached /\ Joiners(u) # {}
  /\ pc[u] = "exiting" /\ ~ asleep[u] => Joiners(u) # {}

SleepInv == \A t \in Threads : asleep[t] =>
  /\ Joining(t) => HasTCB(target[t]) /\ ~ ptcb[target[t]].detached /\ target[t] \notin freed
  /\ pc[t] = "exiting" => Joiners(t) = {}

SafeInv == PlaceInv /\ PtcbListInv /\ WaitingInv /\ ExitInv /\ SleepInv

IInv == TypeOK /\ (~ corrupt => SafeInv)

-----------------------------------------------------------------------------
LEMMA Finite ==
  /\ IsFiniteSet(Threads) /\ IsFiniteSet(Others) /\ Cardinality(Others) = N
  /\ \A u \in Threads : IsFiniteSet(Threads \ {u}) /\ Cardinality(Threads \ {u}) = N
<1>1. IsFiniteSet(Threads) /\ Cardinality(Threads) = N + 1
  BY NAssumption, FS_Interval DEF Threads
<1>2. ASSUME NEW u \in Threads
      PROVE  IsFiniteSet(Threads \ {u}) /\ Cardinality(Threads \ {u}) = N
  BY <1>1, FS_RemoveElement, NAssumption
<1>3. Main \in Threads
  BY NAssumption DEF Main, Threads
<1> QED BY <1>1, <1>2, <1>3 DEF Others

\* The joiners of a thread are some of the other threads.
LEMMA JoinersCount ==
  ASSUME PlaceInv, NEW u \in Threads
  PROVE  /\ IsFiniteSet(Joiners(u)) /\ Cardinality(Joiners(u)) \in 0 .. N
         /\ Cardinality(Joiners(u)) = 0 <=> Joiners(u) = {}
         /\ \A t \in Joiners(u) : /\ Cardinality(Joiners(u)) >= 1
                                  /\ Cardinality(Joiners(u) \ {t}) = Cardinality(Joiners(u)) - 1
         /\ \A t \in Threads : t \notin Joiners(u) /\ t # u =>
              /\ Cardinality(Joiners(u)) < N
              /\ Cardinality(Joiners(u) \cup {t}) = Cardinality(Joiners(u)) + 1
<1>1. Joiners(u) \subseteq Threads \ {u}
  BY DEF PlaceInv, Joiners, Joining
<1>2. IsFiniteSet(Joiners(u)) /\ Cardinality(Joiners(u)) \in 0 .. N
  <2>1. Joiners(u) \in SUBSET (Threads \ {u})
    BY <1>1
  <2>2. IsFiniteSet(Joiners(u)) /\ Cardinality(Joiners(u)) <= Cardinality(Threads \ {u})
    BY <2>1, Finite, FS_Subset
  <2> QED BY <2>2, Finite, FS_CardinalityType, NAssumption
<1>3. Cardinality(Joiners(u)) = 0 <=> Joiners(u) = {}
  BY <1>2, FS_EmptySet
<1>4. \A t \in Joiners(u) : /\ Cardinality(Joiners(u)) >= 1
                            /\ Cardinality(Joiners(u) \ {t}) = Cardinality(Joiners(u)) - 1
  BY <1>2, <1>3, FS_RemoveElement
<1>5. ASSUME NEW t \in Threads, t \notin Joiners(u), t # u
      PROVE  /\ Cardinality(Joiners(u)) < N
             /\ Cardinality(Joiners(u) \cup {t}) = Cardinality(Joiners(u)) + 1
  <2>1. Cardinality(Joiners(u) \cup {t}) = Cardinality(Joiners(u)) + 1
    BY <1>2, <1>5, FS_AddElement
  <2>2. Joiners(u) \cup {t} \in SUBSET (Threads \ {u})
    BY <1>1, <1>5
  <2>3. Cardinality(Joiners(u) \cup {t}) <= N
    BY <2>2, Finite, FS_Subset
  <2> QED BY <2>1, <2>3, <1>2, NAssumption
<1> QED BY <1>2, <1>3, <1>4, <1>5

\* The list is as long as there are PTCBs in it.
LEMMA ListCount ==
  ASSUME TypeOK, PtcbListInv
  PROVE  Len(ptcb_list) = Cardinality(Live) /\ Len(ptcb_list) \in 0 .. N
<1>1. Len(ptcb_list) = Cardinality(Live) /\ Len(ptcb_list) \in Nat
  BY CountElements DEF TypeOK, PtcbListInv
<1>2. Live \in SUBSET Others
  BY DEF Live, Created
<1>3. Cardinality(Live) <= N
  BY <1>2, Finite, FS_Subset
<1> QED BY <1>1, <1>3, NAssumption

-----------------------------------------------------------------------------
LEMMA CreatePreserves ==
  ASSUME TypeOK, SafeInv, NEW t \in Threads, sys_CreateThread(t)
  PROVE  TypeOK' /\ SafeInv'
<1>1. PICK u \in Others :
       /\ pc[u] = "none"
       /\ ptcb' = [ptcb EXCEPT ![u] = Create_PTCB]
       /\ ptcb_list' = Append(ptcb_list, u)
       /\ pc' = [pc EXCEPT ![u] = "run"]
  BY DEF sys_CreateThread
<1>2. /\ thread_count' = thread_count + 1
      /\ UNCHANGED <<freed, target, asleep, corrupt>>
  BY DEF sys_CreateThread
<1>3. u \in Threads /\ u # Main /\ u \notin freed
  BY <1>1 DEF Others, SafeInv, PlaceInv
<1>4. /\ \A v \in Threads : v # u => pc'[v] = pc[v] /\ ptcb'[v] = ptcb[v]
      /\ pc'[u] = "run" /\ ptcb'[u] = [waiting_threads |-> 0, detached |-> FALSE]
  BY <1>1, <1>3 DEF TypeOK, Create_PTCB
<1>5. \A v \in Threads : Joiners(v)' = Joiners(v)
  BY <1>1, <1>2, <1>4 DEF Joiners
<1>6. Joiners(u) = {}
  BY <1>1 DEF Joiners, SafeInv, PlaceInv, Joining, Created
<1>7. Live' = Live \cup {u} /\ u \notin Live /\ Created' = Created \cup {u}
  BY <1>1, <1>2, <1>3, <1>4 DEF Live, Created, Others
<1>8. PlaceInv'
  BY <1>2, <1>4, <1>7, <1>3 DEF SafeInv, PlaceInv, Joining
<1>9. PtcbListInv'
  BY <1>1, <1>2, <1>7, AppendElement, ListCount DEF SafeInv, PtcbListInv, TypeOK
<1>10. WaitingInv'
  <2>1. ASSUME NEW v \in Live'
        PROVE  ptcb'[v].waiting_threads = Cardinality(Joiners(v)')
    <3>1. CASE v = u
      BY <1>3, <1>4, <1>5, <1>6, <3>1, FS_EmptySet
    <3>2. CASE v # u
      <4>1. v \in Live /\ v \in Threads
        BY <1>7, <2>1, <3>2 DEF Live, Created, Others
      <4>2. ptcb[v].waiting_threads = Cardinality(Joiners(v))
        BY <4>1 DEF SafeInv, WaitingInv
      <4> QED BY <1>4, <1>5, <3>2, <4>1, <4>2
    <3> QED BY <3>1, <3>2
  <2> QED BY <2>1 DEF WaitingInv
<1>11. ExitInv'
  BY <1>2, <1>4, <1>5, <1>7 DEF SafeInv, ExitInv, Live, Created, Others
<1>12. SleepInv'
  BY <1>1, <1>2, <1>3, <1>4, <1>5 DEF SafeInv, SleepInv, PlaceInv, Joining, HasTCB, Created, Others
<1>13. TypeOK'
  <2>1. ptcb_list' \in Seq(Others)
    BY <1>1, AppendElement DEF TypeOK
  <2>2. IsInjective(ptcb_list') /\ ToSet(ptcb_list') = Live'
    BY <1>9 DEF PtcbListInv
  <2>3. Live' \in SUBSET Others
    BY DEF Live, Created
  <2>4. Len(ptcb_list') \in Nat /\ Len(ptcb_list') <= N
    BY <2>1, <2>2, <2>3, CountElements, Finite, FS_Subset
  <2>5. thread_count' \in 0 .. N + 1
    BY <2>4, <1>9, NAssumption DEF PtcbListInv
  <2> QED BY <1>1, <1>2, <1>3, <2>1, <2>5, NAssumption DEF TypeOK, Create_PTCB
<1> QED BY <1>8, <1>9, <1>10, <1>11, <1>12, <1>13 DEF SafeInv

\* One more joiner of u, asleep, whether by ThreadJoin or by the main thread's
\* ThreadExit.
LEMMA JoinPreserves ==
  ASSUME TypeOK, SafeInv, NEW t \in Threads, NEW u \in Live, NEW label \in {"join", "mainexit"},
         t # u, pc[t] = "run", ~ ptcb[u].detached, HasTCB(u),
         label = "mainexit" => t = Main, JoinSleep(t, u, label)
  PROVE  TypeOK' /\ SafeInv'
<1>1. /\ ptcb' = [ptcb EXCEPT ![u].waiting_threads = @ + 1]
      /\ asleep' = [WakeExiting(u) EXCEPT ![t] = TRUE]
      /\ pc' = [pc EXCEPT ![t] = label]
      /\ target' = [target EXCEPT ![t] = u]
      /\ UNCHANGED <<ptcb_list, thread_count, freed, corrupt>>
  BY DEF JoinSleep
<1>2. u \in Threads /\ u \in Others /\ u \in Created /\ u \notin freed
  BY DEF Live, Created, Others
<1>3. /\ \A v \in Threads : v # t => /\ pc'[v] = pc[v] /\ target'[v] = target[v]
                                     /\ asleep'[v] <=> asleep[v] /\ ~ (v = u /\ pc[u] = "exiting")
      /\ pc'[t] = label /\ target'[t] = u /\ asleep'[t] = TRUE
      /\ \A v \in Threads : v # u => ptcb'[v] = ptcb[v]
      /\ ptcb'[u].waiting_threads = ptcb[u].waiting_threads + 1
      /\ ptcb'[u].detached = ptcb[u].detached
  BY <1>1, <1>2 DEF TypeOK, WakeExiting
<1>4. t \notin Joiners(u) /\ \A v \in Threads : t \notin Joiners(v)
  BY DEF Joiners, Joining
<1>5. Joiners(u)' = Joiners(u) \cup {t} /\ \A v \in Threads : v # u => Joiners(v)' = Joiners(v)
  BY <1>3, <1>4 DEF Joiners
<1>6. Live' = Live /\ Created' = Created
  BY <1>1, <1>3 DEF Live, Created, Others
<1>7. PlaceInv'
  BY <1>1, <1>2, <1>3, <1>6 DEF SafeInv, PlaceInv, Joining
<1>8. PtcbListInv'
  BY <1>1, <1>6 DEF SafeInv, PtcbListInv
<1>9. WaitingInv'
  BY <1>2, <1>3, <1>4, <1>5, <1>6, JoinersCount DEF SafeInv, WaitingInv, Live, Created, Others
<1>10. ExitInv'
  <2>1. ASSUME NEW v \in Live
        PROVE  /\ pc'[v] = "EXITED" => ptcb'[v].detached /\ Joiners(v)' # {}
               /\ pc'[v] = "exiting" /\ ~ asleep'[v] => Joiners(v)' # {}
    <3>1. v \in Threads
      BY DEF Live, Created, Others
    <3> QED BY <1>2, <1>3, <1>5, <3>1 DEF SafeInv, ExitInv
  <2> QED BY <1>6, <2>1 DEF ExitInv
<1>11. SleepInv'
  <2>1. ASSUME NEW v \in Threads, v # t, asleep'[v]
        PROVE  /\ Joining(v)' => HasTCB(target[v])' /\ ~ ptcb'[target'[v]].detached /\ target'[v] \notin freed'
               /\ pc'[v] = "exiting" => Joiners(v)' = {}
    <3>1. asleep[v] /\ ~ (v = u /\ pc[u] = "exiting")
      BY <1>3, <2>1
    <3>2. pc'[v] = "exiting" => Joiners(v)' = {}
      BY <1>3, <1>5, <2>1, <3>1 DEF SafeInv, SleepInv
    <3>3. Joining(v) => target[v] \in Threads
      BY DEF SafeInv, PlaceInv, Created, Others
    <3>4. ASSUME Joining(v)
          PROVE  HasTCB(target[v])' /\ ~ ptcb'[target'[v]].detached /\ target'[v] \notin freed'
      BY <1>1, <1>3, <2>1, <3>1, <3>3, <3>4 DEF SafeInv, SleepInv, HasTCB
    <3> QED BY <3>2, <3>4, <1>3, <2>1 DEF Joining
  <2>2. HasTCB(u)' /\ ~ ptcb'[u].detached /\ u \notin freed'
    BY <1>1, <1>2, <1>3 DEF HasTCB
  <2> QED BY <1>3, <2>1, <2>2 DEF SleepInv, Joining
<1>12. TypeOK'
  <2>1. ptcb[u].waiting_threads + 1 \in 0 .. N
    <3>1. ptcb[u].waiting_threads = Cardinality(Joiners(u))
      BY DEF SafeInv, WaitingInv
    <3>2. Cardinality(Joiners(u)) \in 0 .. N /\ Cardinality(Joiners(u)) < N
      BY <1>2, <1>4, JoinersCount DEF SafeInv
    <3> QED BY <3>1, <3>2, NAssumption
  <2> QED BY <1>1, <1>2, <2>1 DEF TypeOK, WakeExiting
<1> QED BY <1>7, <1>8, <1>9, <1>10, <1>11, <1>12 DEF SafeInv

\* A joiner of u that runs again: u's PTCB is still there, the joiner is one of
\* those it counts, and when it is the last one its leaving leaves nobody.
LEMMA Collects ==
  ASSUME TypeOK, SafeInv, NEW t \in Threads, Joining(t), ~ asleep[t],
         NEW u, u = target[t], u \notin freed
  PROVE  /\ u \in Live /\ u \in Threads /\ u # t /\ t \in Joiners(u)
         /\ ptcb[u].waiting_threads = Cardinality(Joiners(u))
         /\ ptcb[u].waiting_threads \in 1 .. N
         /\ Cardinality(Joiners(u) \ {t}) = ptcb[u].waiting_threads - 1
         /\ ptcb[u].waiting_threads = 1 <=> Joiners(u) \ {t} = {}
         /\ \A v \in Threads : v # u => t \notin Joiners(v)
         /\ Without(ptcb_list, u) \in Seq(Others)
         /\ Len(Without(ptcb_list, u)) = Len(ptcb_list) - 1
         /\ ToSet(Without(ptcb_list, u)) = Live \ {u}
         /\ IsInjective(Without(ptcb_list, u))
         /\ thread_count - 1 \in 0 .. N + 1
<1>1. u \in Live /\ u \in Threads /\ u # t /\ t \in Joiners(u)
  BY DEF SafeInv, PlaceInv, Live, Created, Others, Joiners, Joining
<1>2. ptcb[u].waiting_threads = Cardinality(Joiners(u))
  BY <1>1 DEF SafeInv, WaitingInv
<1>3. /\ IsFiniteSet(Joiners(u)) /\ Cardinality(Joiners(u)) \in 0 .. N
      /\ Cardinality(Joiners(u)) >= 1
      /\ Cardinality(Joiners(u) \ {t}) = Cardinality(Joiners(u)) - 1
  BY <1>1, JoinersCount DEF SafeInv
<1>4. IsFiniteSet(Joiners(u) \ {t})
  BY <1>3, FS_RemoveElement
<1>5. Cardinality(Joiners(u)) = 1 <=> Joiners(u) \ {t} = {}
  BY <1>3, <1>4, FS_EmptySet
<1>6. \A v \in Threads : v # u => t \notin Joiners(v)
  BY DEF Joiners
<1>7. ptcb_list \in Seq(Others) /\ IsInjective(ptcb_list) /\ u \in ToSet(ptcb_list)
  BY <1>1 DEF TypeOK, SafeInv, PtcbListInv
<1>8. /\ Without(ptcb_list, u) \in Seq(Others)
      /\ Len(Without(ptcb_list, u)) = Len(ptcb_list) - 1
      /\ ToSet(Without(ptcb_list, u)) = ToSet(ptcb_list) \ {u}
      /\ IsInjective(Without(ptcb_list, u))
  BY <1>7, WithoutElement
<1>9. thread_count - 1 \in 0 .. N + 1
  BY ListCount, NAssumption DEF SafeInv, PtcbListInv
<1> QED BY <1>1, <1>2, <1>3, <1>5, <1>6, <1>8, <1>9, NAssumption DEF SafeInv, PtcbListInv

\* ThreadJoin's return.
LEMMA JoinReturnPreserves ==
  ASSUME TypeOK, SafeInv, NEW t \in Threads, JoinReturn(t), target[t] \notin freed
  PROVE  TypeOK' /\ SafeInv'
<1>1. PICK u : u = target[t]
  OBVIOUS
<1> DEFINE last == ptcb[u].waiting_threads = 1
<1>2. pc[t] = "join" /\ ~ asleep[t] /\ Joining(t) /\ u \notin freed
  BY <1>1 DEF JoinReturn, Woken, Joining
<1>3. /\ u \in Live /\ u \in Threads /\ u # t /\ t \in Joiners(u)
      /\ ptcb[u].waiting_threads = Cardinality(Joiners(u))
      /\ ptcb[u].waiting_threads \in 1 .. N
      /\ Cardinality(Joiners(u) \ {t}) = ptcb[u].waiting_threads - 1
      /\ last <=> Joiners(u) \ {t} = {}
      /\ \A v \in Threads : v # u => t \notin Joiners(v)
  BY <1>1, <1>2, Collects
<1>4. /\ Without(ptcb_list, u) \in Seq(Others)
      /\ Len(Without(ptcb_list, u)) = Len(ptcb_list) - 1
      /\ ToSet(Without(ptcb_list, u)) = Live \ {u}
      /\ IsInjective(Without(ptcb_list, u))
      /\ thread_count - 1 \in 0 .. N + 1
  BY <1>1, <1>2, Collects
<1>5. /\ ptcb' = [ptcb EXCEPT ![u].waiting_threads = @ - 1]
      /\ thread_count' = thread_count - IF last THEN 1 ELSE 0
      /\ ptcb_list' = IF last THEN Without(ptcb_list, u) ELSE ptcb_list
      /\ freed' = IF last THEN freed \cup {u} ELSE freed
      /\ pc' = [pc EXCEPT ![t] = "run"]
      /\ target' = [target EXCEPT ![t] = None]
      /\ UNCHANGED <<asleep, corrupt>>
  BY <1>1, <1>2 DEF JoinReturn, Collect
<1> HIDE DEF last
<1>6. /\ \A v \in Threads : v # t => pc'[v] = pc[v] /\ target'[v] = target[v]
      /\ pc'[t] = "run" /\ asleep' = asleep
      /\ \A v \in Threads : v # u => ptcb'[v] = ptcb[v]
      /\ ptcb'[u].waiting_threads = ptcb[u].waiting_threads - 1
      /\ ptcb'[u].detached = ptcb[u].detached
  BY <1>3, <1>5 DEF TypeOK
<1>7. /\ Joiners(u)' = Joiners(u) \ {t}
      /\ \A v \in Threads : v # u => Joiners(v)' = Joiners(v)
  BY <1>2, <1>3, <1>6 DEF Joiners
<1>8. Created' = Created /\ Live' = IF last THEN Live \ {u} ELSE Live
  BY <1>2, <1>5, <1>6 DEF Live, Created, Others
<1>9. PlaceInv'
  BY <1>2, <1>3, <1>5, <1>6, <1>8 DEF SafeInv, PlaceInv, Joining, Live, Created
<1>10. PtcbListInv'
  <2>1. CASE last
    <3>1. ptcb_list' = Without(ptcb_list, u) /\ thread_count' = thread_count - 1
      BY <1>5, <2>1
    <3>2. ToSet(ptcb_list') = Live' /\ IsInjective(ptcb_list') /\ Len(ptcb_list') = Len(ptcb_list) - 1
      BY <1>4, <1>8, <2>1, <3>1
    <3> QED BY <3>1, <3>2, ListCount DEF SafeInv, PtcbListInv
  <2>2. CASE ~ last
    <3>1. ptcb_list' = ptcb_list /\ thread_count' = thread_count - 0 /\ Live' = Live
      BY <1>5, <1>8, <2>2
    <3> QED BY <3>1, ListCount DEF SafeInv, PtcbListInv
  <2> QED BY <2>1, <2>2
<1>11. WaitingInv'
  <2>1. ASSUME NEW v \in Live
        PROVE  ptcb'[v].waiting_threads = Cardinality(Joiners(v)')
    <3>1. v \in Threads /\ ptcb[v].waiting_threads = Cardinality(Joiners(v))
      BY DEF Live, Created, Others, SafeInv, WaitingInv
    <3> QED BY <1>3, <1>6, <1>7, <3>1
  <2> QED BY <2>1, <1>8 DEF WaitingInv
<1>12. ExitInv'
  <2>1. ASSUME NEW v \in Live, v \in Live'
        PROVE  /\ pc'[v] = "EXITED" => ptcb'[v].detached /\ Joiners(v)' # {}
               /\ pc'[v] = "exiting" /\ ~ asleep'[v] => Joiners(v)' # {}
    <3>1. v \in Threads /\ (v = u => ~ last)
      BY <2>1, <1>8 DEF Live, Created, Others
    <3> QED BY <1>3, <1>6, <1>7, <3>1 DEF SafeInv, ExitInv
  <2> QED BY <1>8, <2>1 DEF ExitInv
<1>13. SleepInv'
  <2>1. ASSUME NEW v \in Threads, asleep'[v]
        PROVE  /\ Joining(v)' => HasTCB(target[v])' /\ ~ ptcb'[target'[v]].detached /\ target'[v] \notin freed'
               /\ pc'[v] = "exiting" => Joiners(v)' = {}
    <3>1. asleep[v] /\ v # t
      BY <1>2, <1>6, <2>1
    <3>2. pc'[v] = "exiting" => Joiners(v)' = {}
      BY <1>6, <1>7, <3>1 DEF SafeInv, SleepInv
    <3>3. Joining(v) => target[v] \in Threads
      BY DEF SafeInv, PlaceInv, Created, Others
    <3>4. Joining(v) /\ target[v] = u => ~ last
      BY <1>3, <3>1 DEF Joiners, Joining
    <3>5. ASSUME Joining(v)
          PROVE  HasTCB(target[v])' /\ ~ ptcb'[target'[v]].detached /\ target'[v] \notin freed'
      <4>1. HasTCB(target[v]) /\ ~ ptcb[target[v]].detached /\ target[v] \notin freed
        BY <3>1, <3>5 DEF SafeInv, SleepInv
      <4> QED BY <1>5, <1>6, <3>1, <3>3, <3>4, <3>5, <4>1 DEF HasTCB
    <3> QED BY <3>1, <3>2, <3>5, <1>6 DEF Joining
  <2> QED BY <2>1 DEF SleepInv
<1>14. TypeOK'
  <2>1. ptcb_list' \in Seq(Others) /\ thread_count' \in 0 .. N + 1 /\ freed' \subseteq Threads
    BY <1>3, <1>4, <1>5, NAssumption DEF TypeOK
  <2>2. ptcb' \in [Threads -> [waiting_threads : 0 .. N, detached : BOOLEAN]]
    <3>1. ptcb[u].waiting_threads - 1 \in 0 .. N
      BY <1>3, NAssumption
    <3>2. ptcb' = [ptcb EXCEPT ![u].waiting_threads = ptcb[u].waiting_threads - 1]
      BY <1>5
    <3> QED BY <1>3, <3>1, <3>2 DEF TypeOK
  <2> QED BY <1>5, <2>1, <2>2 DEF TypeOK
<1> QED BY <1>9, <1>10, <1>11, <1>12, <1>13, <1>14 DEF SafeInv

\* Whoever sleeps once the joiners of u have been woken does not join u.
LEMMA JoinersWoken ==
  ASSUME TypeOK, SafeInv, NEW u \in Live,
         asleep' = IF ptcb[u].waiting_threads > 0 THEN WakeJoiners(u) ELSE asleep
  PROVE  /\ \A v \in Threads : asleep'[v] <=> asleep[v] /\ v \notin Joiners(u)
         /\ asleep' \in [Threads -> BOOLEAN]
<1>1. u \in Threads
  BY DEF Live, Created, Others
<1>2. ptcb[u].waiting_threads \in Nat /\ (ptcb[u].waiting_threads = 0 <=> Joiners(u) = {})
  BY <1>1, JoinersCount DEF SafeInv, WaitingInv
<1>3. CASE ptcb[u].waiting_threads > 0
  BY <1>3 DEF WakeJoiners, Joiners, TypeOK
<1>4. CASE ptcb[u].waiting_threads = 0
  BY <1>2, <1>4 DEF TypeOK
<1> QED BY <1>2, <1>3, <1>4

LEMMA DetachPreserves ==
  ASSUME TypeOK, SafeInv, NEW t \in Threads, NEW u \in Others, sys_ThreadDetach(t, u), u \notin freed
  PROVE  TypeOK' /\ SafeInv'
<1>1. /\ HasTCB(u)
      /\ ptcb' = [ptcb EXCEPT ![u].detached = TRUE]
      /\ asleep' = IF ptcb[u].waiting_threads > 0 THEN WakeJoiners(u) ELSE asleep
      /\ UNCHANGED <<ptcb_list, thread_count, freed, pc, target, corrupt>>
  BY DEF sys_ThreadDetach
<1>2. u \in Live /\ u \in Threads
  BY <1>1 DEF Live, Created, HasTCB, Others
<1>3. /\ \A v \in Threads : asleep'[v] <=> asleep[v] /\ v \notin Joiners(u)
      /\ asleep' \in [Threads -> BOOLEAN]
  BY <1>1, <1>2, JoinersWoken
<1>4. /\ \A v \in Threads : ptcb'[v].waiting_threads = ptcb[v].waiting_threads
      /\ \A v \in Threads : ptcb'[v].detached <=> ptcb[v].detached \/ v = u
  BY <1>1, <1>2 DEF TypeOK
<1>5. Live' = Live /\ Created' = Created /\ \A v \in Threads : Joiners(v)' = Joiners(v)
  BY <1>1 DEF Live, Created, Joiners
<1>6. PlaceInv' /\ PtcbListInv'
  BY <1>1, <1>5 DEF SafeInv, PlaceInv, PtcbListInv, Joining
<1>7. WaitingInv'
  BY <1>4, <1>5 DEF SafeInv, WaitingInv, Live, Created, Others
<1>8. ExitInv'
  <2>1. ASSUME NEW v \in Live
        PROVE  /\ pc'[v] = "EXITED" => ptcb'[v].detached /\ Joiners(v)' # {}
               /\ pc'[v] = "exiting" /\ ~ asleep'[v] => Joiners(v)' # {}
    <3>1. v \in Threads
      BY DEF Live, Created, Others
    <3>2. pc[v] = "exiting" => v \notin Joiners(u)
      BY DEF Joiners
    <3> QED BY <1>1, <1>3, <1>4, <1>5, <3>1, <3>2 DEF SafeInv, ExitInv
  <2> QED BY <1>5, <2>1 DEF ExitInv
<1>9. SleepInv'
  <2>1. ASSUME NEW v \in Threads, asleep'[v]
        PROVE  /\ Joining(v)' => HasTCB(target[v])' /\ ~ ptcb'[target'[v]].detached /\ target'[v] \notin freed'
               /\ pc'[v] = "exiting" => Joiners(v)' = {}
    <3>1. asleep[v] /\ v \notin Joiners(u)
      BY <1>3, <2>1
    <3>2. pc'[v] = "exiting" => Joiners(v)' = {}
      BY <1>1, <1>5, <3>1 DEF SafeInv, SleepInv
    <3>3. ASSUME Joining(v)
          PROVE  HasTCB(target[v])' /\ ~ ptcb'[target'[v]].detached /\ target'[v] \notin freed'
      <4>1. target[v] \in Threads /\ target[v] # u
        BY <3>1, <3>3 DEF SafeInv, PlaceInv, Created, Others, Joiners, Joining
      <4>2. HasTCB(target[v]) /\ ~ ptcb[target[v]].detached /\ target[v] \notin freed
        BY <3>1, <3>3 DEF SafeInv, SleepInv
      <4> QED BY <1>1, <1>4, <4>1, <4>2 DEF HasTCB
    <3> QED BY <1>1, <3>2, <3>3 DEF Joining
  <2> QED BY <2>1 DEF SleepInv
<1>10. TypeOK'
  BY <1>1, <1>2, <1>3 DEF TypeOK
<1> QED BY <1>6, <1>7, <1>8, <1>9, <1>10 DEF SafeInv

LEMMA ExitDetachedPreserves ==
  ASSUME TypeOK, SafeInv, NEW t \in Live, pc[t] = "run", ptcb[t].detached,
         \E b \in BOOLEAN : ptcb' = [ptcb EXCEPT ![t].detached = @ \/ b], ExitDetached(t)
  PROVE  TypeOK' /\ SafeInv'
<1>1. /\ freed' = freed \cup {t}
      /\ ptcb_list' = Without(ptcb_list, t)
      /\ thread_count' = thread_count - 1
      /\ pc' = [pc EXCEPT ![t] = "EXITED"]
      /\ UNCHANGED <<target, asleep, corrupt>>
  BY DEF ExitDetached
<1>2. t \in Others /\ t \in Threads /\ t # Main
  BY DEF Live, Created, Others
<1>3. \A v \in Threads : ptcb'[v].waiting_threads = ptcb[v].waiting_threads /\ (ptcb'[v].detached <=> ptcb[v].detached)
  BY <1>2 DEF TypeOK
<1>4. /\ \A v \in Threads : v # t => pc'[v] = pc[v]
      /\ pc'[t] = "EXITED"
  BY <1>1, <1>2 DEF TypeOK
<1>5. \A v \in Threads : Joiners(v)' = Joiners(v)
  BY <1>1, <1>4 DEF Joiners
<1>6. Live' = Live \ {t} /\ Created' = Created
  BY <1>1, <1>4 DEF Live, Created, Others
<1>7. PlaceInv'
  BY <1>1, <1>2, <1>4, <1>6 DEF SafeInv, PlaceInv, Joining
<1>8. ptcb_list \in Seq(Others) /\ IsInjective(ptcb_list) /\ t \in ToSet(ptcb_list)
  BY DEF TypeOK, SafeInv, PtcbListInv
<1>9. /\ ptcb_list' \in Seq(Others) /\ Len(ptcb_list') = Len(ptcb_list) - 1
      /\ ToSet(ptcb_list') = ToSet(ptcb_list) \ {t} /\ IsInjective(ptcb_list')
  BY <1>1, <1>8, WithoutElement
<1>10. PtcbListInv' /\ thread_count' \in 0 .. N + 1
  BY <1>1, <1>6, <1>9, ListCount, NAssumption DEF SafeInv, PtcbListInv
<1>11. WaitingInv' /\ ExitInv'
  <2>1. ASSUME NEW v \in Live, v # t
        PROVE  /\ ptcb'[v].waiting_threads = Cardinality(Joiners(v)')
               /\ pc'[v] = "EXITED" => ptcb'[v].detached /\ Joiners(v)' # {}
               /\ pc'[v] = "exiting" /\ ~ asleep'[v] => Joiners(v)' # {}
    <3>1. v \in Threads
      BY DEF Live, Created, Others
    <3> QED BY <1>1, <1>3, <1>4, <1>5, <2>1, <3>1 DEF SafeInv, WaitingInv, ExitInv
  <2> QED BY <1>6, <2>1 DEF WaitingInv, ExitInv
<1>12. SleepInv'
  <2>1. ASSUME NEW v \in Threads, asleep[v], v # t
        PROVE  /\ Joining(v)' => HasTCB(target[v])' /\ ~ ptcb'[target'[v]].detached /\ target'[v] \notin freed'
               /\ pc'[v] = "exiting" => Joiners(v)' = {}
    <3>1. pc'[v] = "exiting" => Joiners(v)' = {}
      BY <1>4, <1>5, <2>1 DEF SafeInv, SleepInv
    <3>2. ASSUME Joining(v)
          PROVE  HasTCB(target[v])' /\ ~ ptcb'[target'[v]].detached /\ target'[v] \notin freed'
      <4>1. target[v] \in Threads
        BY <3>2 DEF SafeInv, PlaceInv, Created, Others
      <4>2. HasTCB(target[v]) /\ ~ ptcb[target[v]].detached /\ target[v] \notin freed
        BY <2>1, <3>2 DEF SafeInv, SleepInv
      <4> QED BY <1>1, <1>3, <1>4, <4>1, <4>2 DEF HasTCB
    <3> QED BY <1>4, <2>1, <3>1, <3>2 DEF Joining
  <2> QED BY <1>1, <1>4, <2>1 DEF SleepInv, Joining
<1>13. TypeOK'
  BY <1>1, <1>2, <1>9, <1>10 DEF TypeOK
<1> QED BY <1>7, <1>10, <1>11, <1>12, <1>13 DEF SafeInv

LEMMA ExitWaitPreserves ==
  ASSUME TypeOK, SafeInv, NEW t \in Live, pc[t] = "run", ~ (ptcb[t].waiting_threads > 0),
         ptcb' = ptcb, ExitWait(t)
  PROVE  TypeOK' /\ SafeInv'
<1>1. /\ pc' = [pc EXCEPT ![t] = "exiting"]
      /\ asleep' = [asleep EXCEPT ![t] = TRUE]
      /\ UNCHANGED <<ptcb_list, thread_count, freed, target, corrupt>>
  BY DEF ExitWait
<1>2. t \in Threads /\ t # Main
  BY DEF Live, Created, Others
<1>3. /\ \A v \in Threads : v # t => pc'[v] = pc[v] /\ asleep'[v] = asleep[v]
      /\ pc'[t] = "exiting" /\ asleep'[t] = TRUE
  BY <1>1, <1>2 DEF TypeOK
<1>4. Joiners(t) = {}
  BY <1>2, JoinersCount DEF SafeInv, WaitingInv
<1>5. \A v \in Threads : Joiners(v)' = Joiners(v)
  BY <1>1, <1>3 DEF Joiners
<1>6. Live' = Live /\ Created' = Created
  BY <1>1, <1>3 DEF Live, Created, Others
<1>7. PlaceInv' /\ PtcbListInv'
  BY <1>1, <1>2, <1>3, <1>6 DEF SafeInv, PlaceInv, PtcbListInv, Joining
<1>8. WaitingInv' /\ ExitInv'
  <2>1. ASSUME NEW v \in Live
        PROVE  /\ ptcb'[v].waiting_threads = Cardinality(Joiners(v)')
               /\ pc'[v] = "EXITED" => ptcb'[v].detached /\ Joiners(v)' # {}
               /\ pc'[v] = "exiting" /\ ~ asleep'[v] => Joiners(v)' # {}
    <3>1. v \in Threads
      BY DEF Live, Created, Others
    <3> QED BY <1>3, <1>5, <3>1 DEF SafeInv, WaitingInv, ExitInv
  <2> QED BY <1>6, <2>1 DEF WaitingInv, ExitInv
<1>9. SleepInv'
  <2>1. ASSUME NEW v \in Threads, asleep[v], v # t
        PROVE  /\ Joining(v)' => HasTCB(target[v])' /\ ~ ptcb'[target'[v]].detached /\ target'[v] \notin freed'
               /\ pc'[v] = "exiting" => Joiners(v)' = {}
    <3>1. pc'[v] = "exiting" => Joiners(v)' = {}
      BY <1>3, <1>5, <2>1 DEF SafeInv, SleepInv
    <3>2. ASSUME Joining(v)
          PROVE  HasTCB(target[v])' /\ ~ ptcb'[target'[v]].detached /\ target'[v] \notin freed'
      <4>1. target[v] \in Threads
        BY <3>2 DEF SafeInv, PlaceInv, Created, Others
      <4>2. HasTCB(target[v]) /\ ~ ptcb[target[v]].detached /\ target[v] \notin freed
        BY <2>1, <3>2 DEF SafeInv, SleepInv
      <4> QED BY <1>1, <1>3, <4>1, <4>2 DEF HasTCB
    <3> QED BY <1>3, <2>1, <3>1, <3>2 DEF Joining
  <2> QED BY <1>1, <1>2, <1>3, <1>4, <1>5, <2>1 DEF SleepInv, Joining
<1>10. TypeOK'
  BY <1>1, <1>2 DEF TypeOK
<1> QED BY <1>7, <1>8, <1>9, <1>10 DEF SafeInv

\* A thread that somebody joins exits, having detached itself and woken all of
\* its joiners.
LEMMA ExitJoinedPreserves ==
  ASSUME TypeOK, SafeInv, NEW t \in Live, pc[t] \in {"run", "exiting"}, Joiners(t) # {},
         ptcb' = [ptcb EXCEPT ![t].detached = TRUE], ExitJoined(t)
  PROVE  TypeOK' /\ SafeInv'
<1>1. /\ asleep' = IF ptcb[t].waiting_threads > 0 THEN WakeJoiners(t) ELSE asleep
      /\ pc' = [pc EXCEPT ![t] = "EXITED"]
      /\ UNCHANGED <<ptcb_list, thread_count, freed, target, corrupt>>
  BY DEF ExitJoined
<1>2. t \in Threads /\ t # Main
  BY DEF Live, Created, Others
<1>3. /\ \A v \in Threads : asleep'[v] <=> asleep[v] /\ v \notin Joiners(t)
      /\ asleep' \in [Threads -> BOOLEAN]
  BY <1>1, JoinersWoken
<1>4. /\ \A v \in Threads : v # t => pc'[v] = pc[v] /\ ptcb'[v] = ptcb[v]
      /\ pc'[t] = "EXITED" /\ ptcb'[t].detached
      /\ ptcb'[t].waiting_threads = ptcb[t].waiting_threads
  BY <1>1, <1>2 DEF TypeOK
<1>5. \A v \in Threads : Joiners(v)' = Joiners(v)
  BY <1>1, <1>4 DEF Joiners
<1>6. Live' = Live /\ Created' = Created
  BY <1>1, <1>4 DEF Live, Created, Others
<1>7. PlaceInv' /\ PtcbListInv'
  BY <1>1, <1>2, <1>4, <1>6 DEF SafeInv, PlaceInv, PtcbListInv, Joining
<1>8. WaitingInv' /\ ExitInv'
  <2>1. ASSUME NEW v \in Live
        PROVE  /\ ptcb'[v].waiting_threads = Cardinality(Joiners(v)')
               /\ pc'[v] = "EXITED" => ptcb'[v].detached /\ Joiners(v)' # {}
               /\ pc'[v] = "exiting" /\ ~ asleep'[v] => Joiners(v)' # {}
    <3>1. v \in Threads
      BY DEF Live, Created, Others
    <3>2. pc[v] = "exiting" => v \notin Joiners(t)
      BY DEF Joiners
    <3> QED BY <1>3, <1>4, <1>5, <3>1, <3>2 DEF SafeInv, WaitingInv, ExitInv
  <2> QED BY <1>6, <2>1 DEF WaitingInv, ExitInv
<1>9. SleepInv'
  <2>1. ASSUME NEW v \in Threads, asleep'[v]
        PROVE  /\ Joining(v)' => HasTCB(target[v])' /\ ~ ptcb'[target'[v]].detached /\ target'[v] \notin freed'
               /\ pc'[v] = "exiting" => Joiners(v)' = {}
    <3>1. asleep[v] /\ v \notin Joiners(t)
      BY <1>3, <2>1
    <3>2. pc'[v] = "exiting" => Joiners(v)' = {}
      BY <1>4, <1>5, <3>1 DEF SafeInv, SleepInv
    <3>3. ASSUME Joining(v)
          PROVE  HasTCB(target[v])' /\ ~ ptcb'[target'[v]].detached /\ target'[v] \notin freed'
      <4>1. target[v] \in Threads /\ target[v] # t
        BY <3>1, <3>3 DEF SafeInv, PlaceInv, Created, Others, Joiners, Joining
      <4>2. HasTCB(target[v]) /\ ~ ptcb[target[v]].detached /\ target[v] \notin freed
        BY <3>1, <3>3 DEF SafeInv, SleepInv
      <4> QED BY <1>1, <1>4, <4>1, <4>2 DEF HasTCB
    <3> QED BY <1>4, <3>2, <3>3 DEF Joining
  <2> QED BY <2>1 DEF SleepInv
<1>10. TypeOK'
  BY <1>1, <1>2, <1>3 DEF TypeOK
<1> QED BY <1>7, <1>8, <1>9, <1>10 DEF SafeInv

-----------------------------------------------------------------------------
(* The main thread's ThreadExit.                                           *)

\* The head of the list, when it can be joined, is a thread that has a TCB.
LEMMA HeadJoinable ==
  ASSUME TypeOK, SafeInv, NEW h \in Live, Joinable(Main, h)
  PROVE  HasTCB(h) /\ ~ ptcb[h].detached /\ h # Main
BY DEF Joinable, HasTCB, SafeInv, ExitInv, Live, Created

\* The main thread moves to a place where it neither joins nor calls anything.
LEMMA MainStops ==
  ASSUME TypeOK, SafeInv, NEW l \in {"spin", "exit", "EXITED"}, ~ Joining(Main),
         pc' = [pc EXCEPT ![Main] = l], freed' = freed \/ freed' = freed \cup {Main},
         UNCHANGED <<ptcb_list, thread_count, ptcb, target, asleep, corrupt>>
  PROVE  TypeOK' /\ SafeInv'
<1>1. Main \in Threads /\ Main \notin Others
  BY NAssumption DEF Main, Threads, Others
<1>2. /\ \A v \in Threads : v # Main => pc'[v] = pc[v]
      /\ pc'[Main] = l /\ pc[Main] # "none"
  BY <1>1 DEF TypeOK, SafeInv, PlaceInv
<1>3. \A v \in Threads : Joiners(v)' = Joiners(v)
  BY <1>2 DEF Joiners, Joining
<1>4. Live' = Live /\ Created' = Created
  BY <1>1, <1>2 DEF Live, Created, Others
<1>5. PlaceInv' /\ PtcbListInv'
  BY <1>1, <1>2, <1>4 DEF SafeInv, PlaceInv, PtcbListInv, Joining
<1>6. WaitingInv' /\ ExitInv'
  <2>1. ASSUME NEW v \in Live
        PROVE  /\ ptcb[v].waiting_threads = Cardinality(Joiners(v)')
               /\ pc'[v] = "EXITED" => ptcb[v].detached /\ Joiners(v)' # {}
               /\ pc'[v] = "exiting" /\ ~ asleep[v] => Joiners(v)' # {}
    <3>1. v \in Threads /\ v # Main
      BY DEF Live, Created, Others
    <3> QED BY <1>2, <1>3, <3>1 DEF SafeInv, WaitingInv, ExitInv
  <2> QED BY <1>4, <2>1 DEF WaitingInv, ExitInv
<1>7. SleepInv'
  <2>1. ASSUME NEW v \in Threads, asleep[v], v # Main
        PROVE  /\ Joining(v)' => HasTCB(target[v])' /\ ~ ptcb'[target'[v]].detached /\ target'[v] \notin freed'
               /\ pc'[v] = "exiting" => Joiners(v)' = {}
    <3>1. pc'[v] = "exiting" => Joiners(v)' = {}
      BY <1>2, <1>3, <2>1 DEF SafeInv, SleepInv
    <3>2. ASSUME Joining(v)
          PROVE  HasTCB(target[v])' /\ ~ ptcb'[target'[v]].detached /\ target'[v] \notin freed'
      <4>1. target[v] \in Threads /\ target[v] # Main
        BY <3>2 DEF SafeInv, PlaceInv, Created, Others
      <4>2. HasTCB(target[v]) /\ ~ ptcb[target[v]].detached /\ target[v] \notin freed
        BY <2>1, <3>2 DEF SafeInv, SleepInv
      <4> QED BY <1>2, <4>1, <4>2 DEF HasTCB
    <3> QED BY <1>2, <2>1, <3>1, <3>2 DEF Joining
  <2> QED BY <1>2, <2>1 DEF SleepInv, Joining
<1>8. TypeOK'
  BY <1>1 DEF TypeOK
<1> QED BY <1>5, <1>6, <1>7, <1>8 DEF SafeInv

LEMMA MainExitPreserves ==
  ASSUME TypeOK, SafeInv, MainExit
  PROVE  TypeOK' /\ SafeInv'
<1> DEFINE h == Head(ptcb_list)
<1>1. Main \in Threads /\ pc[Main] = "run" /\ ~ Joining(Main)
  BY NAssumption DEF Main, Threads, MainExit, Running, Joining
<1>2. CASE ptcb_list # <<>> /\ Joinable(Main, h)
  <2>1. h \in Live
    BY <1>2, TailElements DEF TypeOK, SafeInv, PtcbListInv
  <2>2. JoinSleep(Main, h, "mainexit")
    BY <1>2 DEF MainExit, MainLoop, CountMain, JoinSleep
  <2> HIDE DEF h
  <2>3. HasTCB(h) /\ ~ ptcb[h].detached /\ Main # h
    BY <1>2, <2>1, HeadJoinable
  <2> QED BY <1>1, <2>1, <2>2, <2>3, JoinPreserves
<1>3. CASE ~ (ptcb_list # <<>> /\ Joinable(Main, h))
  <2>1. \E l \in {"spin", "exit"} : pc' = [pc EXCEPT ![Main] = l]
    BY <1>3 DEF MainExit, MainLoop
  <2>2. UNCHANGED <<ptcb_list, thread_count, ptcb, target, asleep, corrupt, freed>>
    BY <1>3 DEF MainExit, MainLoop, CountMain
  <2> QED BY <1>1, <2>1, <2>2, MainStops
<1> QED BY <1>2, <1>3

LEMMA MainGonePreserves ==
  ASSUME TypeOK, SafeInv, MainGone
  PROVE  TypeOK' /\ SafeInv'
BY MainStops DEF MainGone, Joining

LEMMA MainExitResumePreserves ==
  ASSUME TypeOK, SafeInv, MainExitResume, target[Main] \notin freed
  PROVE  TypeOK' /\ SafeInv'
<1>1. PICK u : u = target[Main]
  OBVIOUS
<1>2. /\ Main \in Threads /\ pc[Main] = "mainexit" /\ ~ asleep[Main] /\ Joining(Main) /\ u \notin freed
  BY <1>1, NAssumption DEF MainExitResume, Woken, Joining, Main, Threads
<1>3. PICK last \in BOOLEAN : last <=> ptcb[u].waiting_threads = 1
  OBVIOUS
<1>4. /\ u \in Live /\ u \in Threads /\ u # Main /\ Main \in Joiners(u)
      /\ ptcb[u].waiting_threads = Cardinality(Joiners(u))
      /\ ptcb[u].waiting_threads \in 1 .. N
      /\ Cardinality(Joiners(u) \ {Main}) = ptcb[u].waiting_threads - 1
      /\ last <=> Joiners(u) \ {Main} = {}
      /\ \A v \in Threads : v # u => Main \notin Joiners(v)
  BY <1>1, <1>2, <1>3, Collects
<1>5. /\ Without(ptcb_list, u) \in Seq(Others)
      /\ Len(Without(ptcb_list, u)) = Len(ptcb_list) - 1
      /\ ToSet(Without(ptcb_list, u)) = Live \ {u}
      /\ IsInjective(Without(ptcb_list, u))
      /\ thread_count - 1 \in 0 .. N + 1
  BY <1>1, <1>2, Collects
<1>6. PICK list : list = IF last THEN Without(ptcb_list, u) ELSE ptcb_list
  OBVIOUS
<1>7. PICK p : p = [ptcb EXCEPT ![u].waiting_threads = @ - 1]
  OBVIOUS
<1>8. /\ freed' = IF last THEN freed \cup {u} ELSE freed
      /\ thread_count' = thread_count - IF last THEN 1 ELSE 0
      /\ ptcb_list' = list
      /\ ptcb' = CountMain(p, list)
      /\ MainLoop(list)
      /\ UNCHANGED corrupt
  BY <1>1, <1>2, <1>3, <1>6, <1>7 DEF MainExitResume
<1>9. /\ list \in Seq(Others) /\ IsInjective(list)
      /\ ToSet(list) = IF last THEN Live \ {u} ELSE Live
      /\ thread_count' = Len(list) + 1 /\ thread_count' \in 0 .. N + 1
  <2>1. CASE last
    BY <1>5, <1>6, <1>8, <2>1, ListCount DEF SafeInv, PtcbListInv
  <2>2. CASE ~ last
    BY <1>6, <1>8, <2>2, ListCount DEF SafeInv, PtcbListInv, TypeOK
  <2> QED BY <2>1, <2>2
<1>10. /\ p \in [Threads -> [waiting_threads : 0 .. N, detached : BOOLEAN]]
       /\ \A v \in Threads : v # u => p[v] = ptcb[v]
       /\ p[u].waiting_threads = ptcb[u].waiting_threads - 1
       /\ p[u].detached = ptcb[u].detached
  <2>1. ptcb[u].waiting_threads - 1 \in 0 .. N
    BY <1>4, NAssumption
  <2>2. p = [ptcb EXCEPT ![u].waiting_threads = ptcb[u].waiting_threads - 1]
    BY <1>7
  <2> QED BY <1>4, <2>1, <2>2 DEF TypeOK
<1>11. PICK h : h = IF list # <<>> /\ Joinable(Main, Head(list)) THEN Head(list) ELSE Main
  OBVIOUS
\* What the step does: where the main thread goes, and whom it joins there.
<1>12. /\ \/ h = Main /\ pc'[Main] \in {"spin", "exit"} /\ ptcb' = p /\ asleep' = asleep
          \/ /\ h \in Live /\ h \in Threads /\ h # Main /\ (h = u => ~ last)
             /\ HasTCB(h) /\ ~ ptcb[h].detached
             /\ pc'[Main] = "mainexit" /\ target'[Main] = h /\ asleep'[Main] = TRUE
             /\ ptcb' = [p EXCEPT ![h].waiting_threads = p[h].waiting_threads + 1]
             /\ asleep' = [WakeExiting(h) EXCEPT ![Main] = TRUE]
       /\ \A v \in Threads : v # Main => pc'[v] = pc[v] /\ target'[v] = target[v]
       /\ \A v \in Threads : v # Main => (asleep'[v] <=> asleep[v] /\ ~ (v = h /\ pc[h] = "exiting"))
       /\ pc' \in [Threads -> {"none", "run", "join", "exiting", "mainexit", "spin", "exit", "EXITED"}]
       /\ target' \in [Threads -> Others \cup {None}] /\ asleep' \in [Threads -> BOOLEAN]
  <2>1. CASE list # <<>> /\ Joinable(Main, Head(list))
    <3>1. h = Head(list) /\ h \in ToSet(list)
      BY <1>9, <1>11, <2>1, TailElements
    <3>2. h \in Live /\ h \in Threads /\ h \in Others /\ (h = u => ~ last)
      BY <1>9, <3>1 DEF Live, Created, Others
    <3>3. HasTCB(h) /\ ~ ptcb[h].detached /\ h # Main
      BY <2>1, <3>1, <3>2, HeadJoinable
    <3>4. /\ pc' = [pc EXCEPT ![Main] = "mainexit"]
          /\ target' = [target EXCEPT ![Main] = h]
          /\ asleep' = [WakeExiting(h) EXCEPT ![Main] = TRUE]
          /\ ptcb' = [p EXCEPT ![h].waiting_threads = p[h].waiting_threads + 1]
      BY <1>8, <2>1, <3>1 DEF MainLoop, CountMain
    <3> QED BY <1>2, <3>2, <3>3, <3>4 DEF TypeOK, WakeExiting
  <2>2. CASE ~ (list # <<>> /\ Joinable(Main, Head(list)))
    <3>1. \E l \in {"spin", "exit"} : pc' = [pc EXCEPT ![Main] = l]
      BY <1>8, <2>2 DEF MainLoop
    <3>2. h = Main /\ ptcb' = p /\ asleep' = asleep /\ target' = target
      BY <1>8, <1>11, <2>2 DEF MainLoop, CountMain
    <3> QED BY <1>2, <3>1, <3>2 DEF TypeOK
  <2> QED BY <2>1, <2>2
<1>13. /\ \A v \in Threads : Joiners(v)' = (IF v = u THEN Joiners(v) \ {Main} ELSE Joiners(v))
                                           \cup (IF v = h /\ h # Main THEN {Main} ELSE {})
  BY <1>2, <1>4, <1>12 DEF Joiners
<1>14. Created' = Created /\ Live' = IF last THEN Live \ {u} ELSE Live
  BY <1>2, <1>8, <1>12 DEF Live, Created, Others
<1>15. PlaceInv'
  BY <1>2, <1>4, <1>8, <1>12, <1>14 DEF SafeInv, PlaceInv, Joining, Live, Created
<1>16. PtcbListInv'
  BY <1>8, <1>9, <1>14 DEF PtcbListInv
<1>17. /\ WaitingInv'
       /\ ptcb' \in [Threads -> [waiting_threads : 0 .. N, detached : BOOLEAN]]
       /\ \A v \in Threads : ptcb'[v].detached <=> ptcb[v].detached
  <2>1. CASE h = Main
    <3>1. ASSUME NEW v \in Live
          PROVE  ptcb'[v].waiting_threads = Cardinality(Joiners(v)')
      <4>1. v \in Threads /\ ptcb[v].waiting_threads = Cardinality(Joiners(v))
        BY DEF Live, Created, Others, SafeInv, WaitingInv
      <4>2. Joiners(v)' = IF v = u THEN Joiners(v) \ {Main} ELSE Joiners(v)
        BY <1>13, <2>1, <4>1
      <4> QED BY <1>4, <1>10, <1>12, <2>1, <4>1, <4>2
    <3> QED BY <1>10, <1>12, <1>14, <2>1, <3>1 DEF WaitingInv
  <2>2. CASE h = u /\ h # Main
    <3>1. ptcb' = [p EXCEPT ![u].waiting_threads = ptcb[u].waiting_threads]
      BY <1>4, <1>10, <1>12, <2>2
    <3>2. /\ \A v \in Threads : ptcb'[v].waiting_threads = ptcb[v].waiting_threads
          /\ \A v \in Threads : ptcb'[v].detached <=> ptcb[v].detached
          /\ ptcb' \in [Threads -> [waiting_threads : 0 .. N, detached : BOOLEAN]]
      BY <1>4, <1>10, <3>1, NAssumption
    <3>3. \A v \in Threads : Joiners(v)' = Joiners(v)
      BY <1>4, <1>13, <2>2
    <3>4. Live' \subseteq Live /\ Live \subseteq Threads
      BY <1>14 DEF Live, Created, Others
    <3>5. WaitingInv'
      BY <3>2, <3>3, <3>4 DEF SafeInv, WaitingInv
    <3> QED BY <3>2, <3>5
  <2>3. CASE h # u /\ h # Main
    <3>1. /\ h \in Live /\ h \in Threads /\ Main \notin Joiners(h)
          /\ ptcb' = [p EXCEPT ![h].waiting_threads = ptcb[h].waiting_threads + 1]
      BY <1>4, <1>10, <1>12, <2>3
    <3>2. /\ ptcb[h].waiting_threads = Cardinality(Joiners(h))
          /\ ptcb[h].waiting_threads + 1 \in 0 .. N
          /\ Cardinality(Joiners(h) \cup {Main}) = Cardinality(Joiners(h)) + 1
      <4>1. ptcb[h].waiting_threads = Cardinality(Joiners(h))
        BY <3>1 DEF SafeInv, WaitingInv
      <4>2. /\ Cardinality(Joiners(h)) \in 0 .. N /\ Cardinality(Joiners(h)) < N
            /\ Cardinality(Joiners(h) \cup {Main}) = Cardinality(Joiners(h)) + 1
        BY <1>2, <2>3, <3>1, JoinersCount DEF SafeInv
      <4> QED BY <4>1, <4>2, NAssumption
    <3>3. /\ \A v \in Threads : ptcb'[v].detached <=> ptcb[v].detached
          /\ ptcb' \in [Threads -> [waiting_threads : 0 .. N, detached : BOOLEAN]]
          /\ ptcb'[h].waiting_threads = ptcb[h].waiting_threads + 1
          /\ ptcb'[u].waiting_threads = ptcb[u].waiting_threads - 1
          /\ \A v \in Threads : v # u /\ v # h => ptcb'[v].waiting_threads = ptcb[v].waiting_threads
      BY <1>4, <1>10, <2>3, <3>1, <3>2
    <3>4. /\ Joiners(h)' = Joiners(h) \cup {Main} /\ Joiners(u)' = Joiners(u) \ {Main}
          /\ \A v \in Threads : v # u /\ v # h => Joiners(v)' = Joiners(v)
      BY <1>4, <1>13, <2>3, <3>1
    <3>5. ASSUME NEW v \in Live
          PROVE  ptcb'[v].waiting_threads = Cardinality(Joiners(v)')
      <4>1. v \in Threads /\ ptcb[v].waiting_threads = Cardinality(Joiners(v))
        BY DEF Live, Created, Others, SafeInv, WaitingInv
      <4> QED BY <1>4, <3>2, <3>3, <3>4, <4>1
    <3> QED BY <1>14, <3>3, <3>5 DEF WaitingInv
  <2> QED BY <2>1, <2>2, <2>3
<1>18. ExitInv'
  <2>1. ASSUME NEW v \in Live, v \in Live'
        PROVE  /\ pc'[v] = "EXITED" => ptcb'[v].detached /\ Joiners(v)' # {}
               /\ pc'[v] = "exiting" /\ ~ asleep'[v] => Joiners(v)' # {}
    <3>1. v \in Threads /\ v # Main /\ (v = u => ~ last)
      BY <1>14, <2>1 DEF Live, Created, Others
    <3>2. Joiners(v) # {} => Joiners(v)' # {}
      BY <1>4, <1>13, <3>1
    <3>3. v = h => Joiners(v)' # {}
      BY <1>13, <3>1
    <3> QED BY <1>12, <1>17, <3>1, <3>2, <3>3 DEF SafeInv, ExitInv
  <2> QED BY <1>14, <2>1 DEF ExitInv
<1>19. SleepInv'
  <2>1. ASSUME NEW v \in Threads, asleep'[v], v # Main
        PROVE  /\ Joining(v)' => HasTCB(target[v])' /\ ~ ptcb'[target'[v]].detached /\ target'[v] \notin freed'
               /\ pc'[v] = "exiting" => Joiners(v)' = {}
    <3>1. asleep[v] /\ ~ (v = h /\ pc[h] = "exiting") /\ pc'[v] = pc[v] /\ target'[v] = target[v]
      BY <1>12, <2>1
    <3>2. pc'[v] = "exiting" => Joiners(v)' = {}
      BY <1>13, <3>1 DEF SafeInv, SleepInv
    <3>3. ASSUME Joining(v)
          PROVE  HasTCB(target[v])' /\ ~ ptcb'[target'[v]].detached /\ target'[v] \notin freed'
      <4>1. target[v] \in Threads /\ target[v] # Main /\ (target[v] = u => ~ last)
        BY <1>4, <2>1, <3>3 DEF SafeInv, PlaceInv, Created, Others, Joiners, Joining
      <4>2. HasTCB(target[v]) /\ ~ ptcb[target[v]].detached /\ target[v] \notin freed
        BY <3>1, <3>3 DEF SafeInv, SleepInv
      <4> QED BY <1>8, <1>12, <1>17, <3>1, <4>1, <4>2 DEF HasTCB
    <3> QED BY <3>1, <3>2, <3>3 DEF Joining
  <2>2. ASSUME Joining(Main)'
        PROVE  HasTCB(target[Main])' /\ ~ ptcb'[target'[Main]].detached /\ target'[Main] \notin freed'
    <3>1. h \in Live /\ h \in Threads /\ h # Main /\ (h = u => ~ last) /\ HasTCB(h) /\ ~ ptcb[h].detached
          /\ target'[Main] = h
      BY <1>12, <2>2 DEF Joining
    <3>2. h \notin freed'
      BY <1>8, <3>1 DEF Live
    <3> QED BY <1>12, <1>17, <3>1, <3>2 DEF HasTCB
  <2> QED BY <1>2, <1>12, <2>1, <2>2 DEF SleepInv
<1>20. TypeOK'
  BY <1>4, <1>8, <1>9, <1>12, <1>17 DEF TypeOK
<1> QED BY <1>15, <1>16, <1>17, <1>18, <1>19, <1>20 DEF SafeInv

-----------------------------------------------------------------------------
LEMMA Corrupts == ASSUME TypeOK, Corrupt PROVE IInv'
BY DEF TypeOK, Corrupt, IInv

\* IInv holds in every reachable state.
THEOREM Invariant == Spec => []IInv
<1>1. Init => IInv
  <2> SUFFICES ASSUME Init PROVE IInv
    OBVIOUS
  <2>1. Main \in Threads /\ Main \notin Others /\ Others \subseteq Threads
    BY NAssumption DEF Main, Threads, Others
  <2>2. TypeOK
    <3>1. \A t \in Threads : ptcb[t] = [waiting_threads |-> 0, detached |-> (t = Main)]
      BY DEF Init, Create_PTCB
    <3>2. ptcb \in [Threads -> [waiting_threads : 0 .. N, detached : BOOLEAN]]
      <4>1. 0 \in 0 .. N
        BY NAssumption
      <4>2. \A t \in Threads : ptcb[t] \in [waiting_threads : 0 .. N, detached : BOOLEAN]
        <5> TAKE t \in Threads
        <5>1. PICK b \in BOOLEAN : b = (t = Main)
          OBVIOUS
        <5>2. ptcb[t] = [waiting_threads |-> 0, detached |-> b]
          BY <3>1, <5>1
        <5> QED BY <4>1, <5>2
      <4>3. ptcb = [t \in Threads |-> ptcb[t]]
        BY DEF Init
      <4> QED BY <4>2, <4>3
    <3>3. ptcb_list \in Seq(Others)
      BY DEF Init
    <3>4. thread_count \in 0 .. N + 1 /\ freed \subseteq Threads /\ corrupt \in BOOLEAN
      <4>1. thread_count = 1 /\ freed = {} /\ corrupt = FALSE
        BY DEF Init
      <4>2. 1 \in 0 .. N + 1
        BY NAssumption
      <4>3. FALSE \in BOOLEAN /\ {} \subseteq Threads
        OBVIOUS
      <4> QED BY <4>1, <4>2, <4>3
    <3>5. /\ pc \in [Threads -> {"none", "run", "join", "exiting", "mainexit", "spin", "exit", "EXITED"}]
          /\ target \in [Threads -> Others \cup {None}] /\ asleep \in [Threads -> BOOLEAN]
      BY DEF Init
    <3> QED BY <3>2, <3>3, <3>4, <3>5 DEF TypeOK
  <2>3. Live = {} /\ Created = {}
    BY <2>1 DEF Init, Live, Created
  <2>4. PlaceInv /\ SleepInv
    BY <2>1 DEF Init, PlaceInv, SleepInv, Joining
  <2>5. PtcbListInv
    BY <2>3, EmptyElements DEF Init, PtcbListInv
  <2> QED BY <2>2, <2>3, <2>4, <2>5 DEF IInv, SafeInv, WaitingInv, ExitInv
<1>2. IInv /\ [Next]_vars => IInv'
  <2> SUFFICES ASSUME IInv, [Next]_vars PROVE IInv'
    OBVIOUS
  <2>0. TypeOK /\ (~ corrupt => SafeInv)
    BY DEF IInv
  <2>1. ASSUME NEW t \in Threads, sys_CreateThread(t) PROVE IInv'
    BY <2>0, <2>1, CreatePreserves DEF IInv, sys_CreateThread, Running, KernelFree
  <2>2. ASSUME NEW t \in Threads, NEW u \in Others, sys_ThreadJoin(t, u) PROVE IInv'
    <3>1. CASE u \in freed
      BY <2>0, <2>2, <3>1, Corrupts DEF sys_ThreadJoin
    <3>2. CASE u \notin freed
      <4>1. SafeInv /\ pc[t] = "run"
        BY <2>0, <2>2 DEF sys_ThreadJoin, Running, KernelFree
      <4>2. u \in Live /\ HasTCB(u) /\ t # u /\ ~ ptcb[u].detached /\ JoinSleep(t, u, "join")
        BY <2>2, <3>2 DEF sys_ThreadJoin, Live, Created, HasTCB, Joinable
      <4> QED BY <2>0, <4>1, <4>2, JoinPreserves DEF IInv
    <3> QED BY <3>1, <3>2
  <2>3. ASSUME NEW t \in Threads, NEW u \in Others, sys_ThreadDetach(t, u) PROVE IInv'
    <3>1. CASE u \in freed
      BY <2>0, <2>3, <3>1, Corrupts DEF sys_ThreadDetach
    <3>2. CASE u \notin freed
      BY <2>0, <2>3, <3>2, DetachPreserves DEF IInv, sys_ThreadDetach, Running, KernelFree
    <3> QED BY <3>1, <3>2
  <2>4. ASSUME NEW t \in Threads, sys_ThreadExit(t) PROVE IInv'
    <3>1. CASE t \in freed
      BY <2>0, <2>4, <3>1, Corrupts DEF sys_ThreadExit
    <3>2. CASE t \notin freed
      <4> DEFINE joined == ptcb[t].waiting_threads > 0
      <4>1. SafeInv /\ pc[t] = "run" /\ t \in Live
        BY <2>0, <2>4, <3>2 DEF sys_ThreadExit, Running, KernelFree, Live, Created, Others
      <4>2. ptcb' = [ptcb EXCEPT ![t].detached = @ \/ joined]
        BY <2>4, <3>2 DEF sys_ThreadExit
      <4>3. CASE ptcb[t].detached
        <5>1. ExitDetached(t)
          BY <2>4, <3>2, <4>3 DEF sys_ThreadExit
        <5>2. \E b \in BOOLEAN : ptcb' = [ptcb EXCEPT ![t].detached = @ \/ b]
          BY <4>2
        <5> QED BY <2>0, <4>1, <4>3, <5>1, <5>2, ExitDetachedPreserves DEF IInv
      <4>4. CASE ~ ptcb[t].detached /\ ~ joined
        <5>1. ExitWait(t)
          BY <2>4, <3>2, <4>4 DEF sys_ThreadExit
        <5>2. ptcb' = ptcb
          BY <2>0, <4>2, <4>4 DEF TypeOK
        <5> QED BY <2>0, <4>1, <4>4, <5>1, <5>2, ExitWaitPreserves DEF IInv
      <4>5. CASE ~ ptcb[t].detached /\ joined
        <5>1. ExitJoined(t)
          BY <2>4, <3>2, <4>5 DEF sys_ThreadExit
        <5>2. ptcb' = [ptcb EXCEPT ![t].detached = TRUE]
          BY <2>0, <4>2, <4>5 DEF TypeOK
        <5>3. Joiners(t) # {}
          BY <4>1, <4>5, FS_EmptySet DEF SafeInv, WaitingInv
        <5> QED BY <2>0, <4>1, <5>1, <5>2, <5>3, ExitJoinedPreserves DEF IInv
      <4> QED BY <4>3, <4>4, <4>5
    <3> QED BY <3>1, <3>2
  <2>5. ASSUME NEW t \in Threads, JoinReturn(t) PROVE IInv'
    <3>1. CASE target[t] \in freed
      BY <2>0, <2>5, <3>1, Corrupts DEF JoinReturn
    <3>2. CASE target[t] \notin freed
      BY <2>0, <2>5, <3>2, JoinReturnPreserves DEF IInv, JoinReturn, Woken, KernelFree
    <3> QED BY <3>1, <3>2
  <2>6. ASSUME NEW t \in Threads, ExitResume(t) PROVE IInv'
    <3>1. CASE t \in freed
      BY <2>0, <2>6, <3>1, Corrupts DEF ExitResume
    <3>2. CASE t \notin freed
      <4>1. SafeInv /\ pc[t] = "exiting" /\ ~ asleep[t]
        BY <2>0, <2>6 DEF ExitResume, Woken, KernelFree
      <4>2. t \in Live
        BY <3>2, <4>1 DEF SafeInv, PlaceInv, Live, Created, Others
      <4>3. Joiners(t) # {}
        BY <4>1, <4>2 DEF SafeInv, ExitInv
      <4> QED BY <2>0, <2>6, <3>2, <4>1, <4>2, <4>3, ExitJoinedPreserves DEF IInv, ExitResume
    <3> QED BY <3>1, <3>2
  <2>7. CASE MainExit
    BY <2>0, <2>7, MainExitPreserves DEF IInv, MainExit, Running, KernelFree
  <2>8. CASE MainExitResume
    <3>1. CASE target[Main] \in freed
      BY <2>0, <2>8, <3>1, Corrupts DEF MainExitResume
    <3>2. CASE target[Main] \notin freed
      BY <2>0, <2>8, <3>2, MainExitResumePreserves DEF IInv, MainExitResume, Woken, KernelFree
    <3> QED BY <3>1, <3>2
  <2>9. CASE MainGone
    BY <2>0, <2>9, MainGonePreserves DEF IInv, MainGone, KernelFree
  <2>10. CASE UNCHANGED vars
    BY <2>10 DEF vars, IInv, TypeOK, SafeInv, PlaceInv, PtcbListInv, WaitingInv, ExitInv, SleepInv,
       Live, Created, Joining, Joiners, HasTCB
  <2> QED BY <2>1, <2>2, <2>3, <2>4, <2>5, <2>6, <2>7, <2>8, <2>9, <2>10 DEF Next, Call, Resume
<1> QED BY <1>1, <1>2, PTL DEF Spec

\* ListInv, for any number of threads.
THEOREM ListsAgree == Spec => []ListInv
<1>1. IInv => ListInv
  <2> SUFFICES ASSUME IInv PROVE ListInv
    OBVIOUS
  <2>1. TypeOK
    BY DEF IInv
  <2>2. ASSUME ~ corrupt
        PROVE  /\ ToSet(ptcb_list) = Live
               /\ Len(ptcb_list) = Cardinality(Live)
               /\ thread_count = Len(ptcb_list) + 1
               /\ \A u \in Live : /\ ptcb[u].waiting_threads = Cardinality(Joiners(u))
                                  /\ pc[u] = "EXITED" => Joiners(u) # {}
    BY <2>1, <2>2, ListCount DEF IInv, SafeInv, PtcbListInv, WaitingInv, ExitInv
  <2> QED BY <2>1, <2>2 DEF ListInv, Live, Created
<1> QED BY <1>1, Invariant, PTL

\* JoinInv, for any number of threads.
THEOREM JoinersWait == Spec => []JoinInv
<1>1. IInv => JoinInv
  BY DEF IInv, SafeInv, SleepInv, JoinInv, Joining
<1> QED BY <1>1, Invariant, PTL
=============================================================================
