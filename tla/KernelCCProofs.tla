--------------------------- MODULE KernelCCProofs ---------------------------
(***************************************************************************)
(* Proofs about KernelCC, for any set of threads and condition variables:  *)
(* the kernel lock excludes, the rings hold exactly the waiters, no wakeup *)
(* is lost and no signal is spent in vain, and KernelCC implements the     *)
(* abstract monitor KernelLock.                                            *)
(*                                                                         *)
(* KernelExclusion is not inductive by itself: that the thread which found *)
(* the semaphore free still finds it so when it decrements it depends on   *)
(* kernel_mutex, and that the rings stay well formed is needed to know     *)
(* that a waiter that removes itself is there.  IInv adds both.            *)
(*                                                                         *)
(* Nor is WakeInv: a sleeper stays in its ring because a signal finds it   *)
(* there only once it has let go of waitset_lock, that is, once it sleeps; *)
(* so who holds each waitset_lock (OwnerInv) and what a waiter's flags are *)
(* before it sleeps (WaiterInv) have to be known.  WInv adds them.         *)
(***************************************************************************)
EXTENDS KernelCC, SequenceTheorems, TLAPS

\* kernel_mutex is locked by the thread whose position says so.
LockInv == \A t \in Threads : HasMutex(t) <=> kernel_mutex = t

\* A thread in Cond_Signal or Cond_Broadcast has a condition variable to signal.
CallInv == \A t \in Threads : Signalling(t) => call[t] \in CV

\* Nobody takes the semaphore between a thread's test and its decrement.
TakeInv == \A t \in Threads : pc[t] = "take" => kernel_sem = 1

IInv == TypeOK /\ LockInv /\ CallInv /\ TakeInv /\ KernelExclusion /\ RingInv

-----------------------------------------------------------------------------
(* What the operations on a ring do to its members.                        *)

\* cv_wait's push adds the waiter to the ring, and nobody twice.
LEMMA PushedMembers ==
  ASSUME NEW S, NEW s \in Seq(S), NEW t \in S
  PROVE  /\ Pushed(s, t) \in Seq(S)
         /\ Members(Pushed(s, t)) = Members(s) \cup {t}
         /\ Distinct(s) /\ t \notin Members(s) => Distinct(Pushed(s, t))
<1> DEFINE p == Append(s, t)
<1>1. /\ p \in Seq(S) /\ Len(p) = Len(s) + 1
      /\ DOMAIN p = 1 .. Len(s) + 1 /\ DOMAIN s = 1 .. Len(s)
      /\ \A i \in 1 .. Len(s) : p[i] = s[i]
      /\ p[Len(s) + 1] = t /\ Len(s) \in Nat
  OBVIOUS
<1> HIDE DEF p
<1>2. Members(p) = Members(s) \cup {t}
  BY <1>1 DEF Members
<1>3. Distinct(s) /\ t \notin Members(s) => Distinct(p)
  BY <1>1 DEF Members, Distinct
<1> QED BY <1>1, <1>2, <1>3 DEF Pushed, p

\* cv_signal removes the first waiter, and no other.
LEMMA TailMembers ==
  ASSUME NEW S, NEW s \in Seq(S), s # <<>>, Distinct(s)
  PROVE  /\ Tail(s) \in Seq(S) /\ Head(s) \in Members(s) /\ Head(s) \in S
         /\ Members(Tail(s)) = Members(s) \ {Head(s)}
         /\ Distinct(Tail(s))
<1> DEFINE p == Tail(s)
<1>1. /\ p \in Seq(S) /\ Len(p) = Len(s) - 1 /\ Len(s) \in Nat \ {0}
      /\ DOMAIN p = 1 .. Len(s) - 1 /\ DOMAIN s = 1 .. Len(s)
      /\ \A i \in 1 .. Len(s) - 1 : p[i] = s[i + 1]
      /\ Head(s) = s[1] /\ Head(s) \in S
  OBVIOUS
<1> HIDE DEF p
<1>2. \A i \in 2 .. Len(s) : i - 1 \in DOMAIN p /\ s[i] = p[i - 1]
  BY <1>1
<1>3. Members(p) = Members(s) \ {Head(s)}
  <2>1. \A x \in Members(p) : x \in Members(s) /\ x # Head(s)
    BY <1>1 DEF Members, Distinct
  <2>2. \A x \in Members(s) : x # Head(s) => x \in Members(p)
    BY <1>1, <1>2 DEF Members
  <2> QED BY <2>1, <2>2
<1>4. Distinct(p)
  <2>1. SUFFICES ASSUME NEW i \in DOMAIN p, NEW j \in DOMAIN p, p[i] = p[j]
                 PROVE  i = j
    BY DEF Distinct
  <2>2. /\ i \in Nat /\ j \in Nat /\ i + 1 \in DOMAIN s /\ j + 1 \in DOMAIN s
        /\ p[i] = s[i + 1] /\ p[j] = s[j + 1]
    BY <1>1
  <2>3. i + 1 = j + 1
    BY <2>1, <2>2 DEF Distinct
  <2> QED BY <2>2, <2>3
<1>5. Head(s) \in Members(s)
  BY <1>1 DEF Members
<1> QED BY <1>1, <1>3, <1>4, <1>5 DEF p

\* remove_from_ring removes a waiter that is in the ring, and no other.
LEMMA WithoutMembers ==
  ASSUME NEW S, NEW s \in Seq(S), NEW t \in Members(s), Distinct(s)
  PROVE  /\ Without(s, t) \in Seq(S)
         /\ Members(Without(s, t)) = Members(s) \ {t}
         /\ Distinct(Without(s, t))
<1> DEFINE at == CHOOSE i \in DOMAIN s : s[i] = t
<1>0. PICK i : i = at
  OBVIOUS
<1>1. i \in 1 .. Len(s) /\ s[i] = t /\ Len(s) \in Nat /\ DOMAIN s = 1 .. Len(s)
  BY <1>0 DEF Members
<1> DEFINE p == SubSeq(s, 1, i - 1)
           q == SubSeq(s, i + 1, Len(s))
           r == p \o q
<1>2. /\ p \in Seq(S) /\ Len(p) = i - 1
      /\ \A j \in 1 .. i - 1 : p[j] = s[j]
  BY <1>1, SubSeqProperties
<1>3. /\ q \in Seq(S) /\ Len(q) = Len(s) - i
      /\ \A j \in 1 .. Len(s) - i : q[j] = s[i + j]
  <2>1. \A j \in i + 1 .. Len(s) : s[j] \in S
    BY <1>1
  <2>2. /\ q \in Seq(S)
        /\ Len(q) = IF i + 1 <= Len(s) THEN Len(s) - (i + 1) + 1 ELSE 0
        /\ \A j \in 1 .. Len(s) - (i + 1) + 1 : q[j] = s[(i + 1) + j - 1]
    BY <2>1, <1>1, SubSeqProperties
  <2> HIDE DEF q
  <2>3. Len(q) = Len(s) - i /\ Len(s) - (i + 1) + 1 = Len(s) - i
    <3> DEFINE n == Len(s)
    <3>1. n \in Nat /\ i \in 1 .. n
      BY <1>1
    <3>2. Len(q) = IF i + 1 <= n THEN n - (i + 1) + 1 ELSE 0
      BY <2>2
    <3> HIDE DEF n
    <3>3. Len(q) = n - i /\ n - (i + 1) + 1 = n - i
      BY <3>1, <3>2
    <3> QED BY <3>3 DEF n
  <2>4. ASSUME NEW j \in 1 .. Len(s) - i
        PROVE  q[j] = s[i + j]
    <3>1. (i + 1) + j - 1 = i + j
      BY <1>1
    <3> QED BY <2>2, <2>3, <3>1
  <2> QED BY <2>2, <2>3, <2>4
<1> HIDE DEF p, q
<1>4. /\ r \in Seq(S) /\ Len(r) = Len(s) - 1 /\ DOMAIN r = 1 .. Len(s) - 1
      /\ \A j \in 1 .. Len(s) - 1 : r[j] = IF j < i THEN s[j] ELSE s[j + 1]
  <2>1. /\ r \in Seq(S) /\ Len(r) = Len(p) + Len(q)
        /\ \A j \in 1 .. Len(p) + Len(q) :
              r[j] = IF j <= Len(p) THEN p[j] ELSE q[j - Len(p)]
    BY <1>2, <1>3, ConcatProperties
  <2> HIDE DEF r
  <2>2. Len(r) = Len(s) - 1 /\ DOMAIN r = 1 .. Len(s) - 1
    BY <2>1, <1>1, <1>2, <1>3
  <2>3. ASSUME NEW j \in 1 .. Len(s) - 1
        PROVE  r[j] = IF j < i THEN s[j] ELSE s[j + 1]
    <3>1. r[j] = IF j <= i - 1 THEN p[j] ELSE q[j - (i - 1)]
      BY <2>1, <1>1, <1>2, <1>3
    <3>2. CASE j < i
      BY <3>1, <3>2, <1>1, <1>2
    <3>3. CASE ~ (j < i)
      <4>1. j - (i - 1) \in 1 .. Len(s) - i /\ i + (j - (i - 1)) = j + 1
        BY <3>3, <1>1
      <4> QED BY <3>1, <3>3, <4>1, <1>1, <1>3
    <3> QED BY <3>2, <3>3
  <2> QED BY <2>1, <2>2, <2>3
<1> HIDE DEF r
<1>5. Members(r) = Members(s) \ {t}
  <2>1. ASSUME NEW j \in DOMAIN r
        PROVE  r[j] \in Members(s) /\ r[j] # t
    <3>1. PICK k \in 1 .. Len(s) : k # i /\ r[j] = s[k]
      <4>1. j \in 1 .. Len(s) /\ j + 1 \in 1 .. Len(s) /\ j + 1 # j
        BY <1>1, <1>4
      <4>2. r[j] = IF j < i THEN s[j] ELSE s[j + 1]
        BY <1>4
      <4> QED BY <1>1, <4>1, <4>2
    <3> QED BY <1>1, <3>1 DEF Members, Distinct
  <2>2. ASSUME NEW j \in 1 .. Len(s), s[j] # t
        PROVE  s[j] \in Members(r)
    <3>1. CASE j < i
      BY <3>1, <1>1, <1>4 DEF Members
    <3>2. CASE j > i
      <4>1. j - 1 \in DOMAIN r /\ r[j - 1] = s[j]
        BY <3>2, <1>1, <1>4
      <4> QED BY <4>1 DEF Members
    <3> QED BY <3>1, <3>2, <2>2, <1>1
  <2> QED BY <2>1, <2>2, <1>1 DEF Members
<1>6. Distinct(r)
  <2>1. SUFFICES ASSUME NEW j \in DOMAIN r, NEW k \in DOMAIN r, r[j] = r[k]
                 PROVE  j = k
    BY DEF Distinct
  <2> DEFINE up(n) == IF n < i THEN n ELSE n + 1
  <2>2. /\ up(j) \in DOMAIN s /\ up(k) \in DOMAIN s
        /\ r[j] = s[up(j)] /\ r[k] = s[up(k)]
    BY <1>1, <1>4
  <2>3. up(j) = up(k)
    BY <2>1, <2>2 DEF Distinct
  <2> QED BY <2>3, <1>1, <1>4
<1>7. Without(s, t) = r
  BY <1>0 DEF Without, p, q, r
<1> QED BY <1>4, <1>5, <1>6, <1>7

-----------------------------------------------------------------------------
(* The invariant, action by action.                                       *)

\* A thread inside the kernel has decremented the semaphore.
LEMMA SemBusy ==
  ASSUME KernelExclusion, NEW t \in Threads, pc[t] = "in"
  PROVE  kernel_sem = 0
BY DEF KernelExclusion, InKernel

\* A waiter that nobody has removed finds itself in the ring.
LEMMA InItsRing ==
  ASSUME TypeOK, RingInv, NEW t \in Threads, pc[t] = "wake", ~ removed[t]
  PROVE  /\ cv[t] \in CV /\ waitset[cv[t]] \in Seq(Threads)
         /\ t \in Members(waitset[cv[t]]) /\ Distinct(waitset[cv[t]])
BY DEF TypeOK, RingInv, InRing

\* Every step keeps the types, and a caller of Cond_Signal its condition variable.
LEMMA TypePreserved == IInv /\ [Next]_vars => TypeOK' /\ CallInv'
<1> SUFFICES ASSUME IInv, [Next]_vars PROVE TypeOK' /\ CallInv'
  OBVIOUS
<1>1. ASSUME NEW t \in Threads, FindSem(t)
      PROVE  TypeOK' /\ CallInv'
  BY <1>1 DEF FindSem, Goto, SemFree, IInv, TypeOK, CallInv, TakeInv, CV,
     Label, Signalling
<1>2. ASSUME NEW t \in Threads, TakeSem(t)
      PROVE  TypeOK' /\ CallInv'
  BY <1>2 DEF TakeSem, Goto, UnlockKernelMutex, IInv, TypeOK, CallInv,
     TakeInv, CV, Label, Signalling
<1>3. ASSUME NEW t \in Threads, WaitForSem(t)
      PROVE  TypeOK' /\ CallInv'
  BY <1>3 DEF WaitForSem, Goto, SemFree, IInv, TypeOK, CallInv, TakeInv,
     CV, Label, Signalling
<1>4. ASSUME NEW t \in Threads, PushWaiter(t)
      PROVE  TypeOK' /\ CallInv'
  <2>1. Pushed(waitset[cv[t]], t) \in Seq(Threads)
    BY PushedMembers DEF IInv, TypeOK
  <2> QED BY <1>4, <2>1 DEF PushWaiter, Goto, Free, IInv, TypeOK, CallInv, TakeInv, CV, Label, Signalling
<1>5. ASSUME NEW t \in Threads, ReleaseMutex(t)
      PROVE  TypeOK' /\ CallInv'
  BY <1>5 DEF ReleaseMutex, Goto, UnlockKernelMutex, IInv, TypeOK,
     CallInv, TakeInv, CV, Label, Signalling
<1>6. ASSUME NEW t \in Threads, Sleep(t)
      PROVE  TypeOK' /\ CallInv'
  BY <1>6 DEF Sleep, Goto, IInv, TypeOK, CallInv, TakeInv, CV, Label,
     Signalling
<1>7. ASSUME NEW t \in Threads, WakeUp(t)
      PROVE  TypeOK' /\ CallInv'
  <2>1. waitset' \in [CV -> Seq(Threads)]
    <3>1. CASE removed[t]
      BY <1>7, <3>1 DEF WakeUp, IInv, TypeOK
    <3>2. CASE ~ removed[t]
      <4>1. Without(waitset[cv[t]], t) \in Seq(Threads)
        BY <1>7, <3>2, InItsRing, WithoutMembers DEF WakeUp, IInv
      <4> QED BY <1>7, <3>2, <4>1 DEF WakeUp, IInv, TypeOK
    <3> QED BY <3>1, <3>2
  <2> QED BY <1>7, <2>1 DEF WakeUp, Goto, Free, IInv, TypeOK, CallInv, TakeInv, CV, Label, Signalling
<1>8. ASSUME NEW t \in Threads, Relock(t)
      PROVE  TypeOK' /\ CallInv'
  BY <1>8 DEF Relock, Goto, LockKernelMutex, Free, IInv, TypeOK, CallInv,
     TakeInv, CV, Label, Signalling
<1>9. ASSUME NEW t \in Threads, LockRing(t)
      PROVE  TypeOK' /\ CallInv'
  BY <1>9 DEF LockRing, Goto, Free, IInv, TypeOK, CallInv, TakeInv, CV,
     Label, Signalling
<1>10. ASSUME NEW t \in Threads, SignalFirst(t)
      PROVE  TypeOK' /\ CallInv'
  <2> DEFINE k == call[t]
  <2>1. /\ k \in CV /\ Tail(waitset[k]) \in Seq(Threads)
        /\ Head(waitset[k]) \in Threads
    BY <1>10, TailMembers DEF SignalFirst, IInv, TypeOK, CallInv, RingInv, Signalling
  <2>2. waitset' \in [CV -> Seq(Threads)]
    BY <1>10, <2>1 DEF SignalFirst, IInv, TypeOK
  <2>3. /\ state' \in [Threads -> {"RUNNING", "STOPPED", "EXITED"}]
        /\ removed' \in [Threads -> BOOLEAN]
        /\ signalled' \in [Threads -> BOOLEAN]
    BY <1>10, <2>1 DEF SignalFirst, Woken, IInv, TypeOK
  <2>4. \/ EndCall(t)
        \/ UNCHANGED <<waitset_lock, call, all, after, pc>>
    BY <1>10 DEF SignalFirst
  <2>5. /\ waitset_lock' \in [CV -> Threads \cup {NoThread}]
        /\ pc' \in [Threads -> Label]
        /\ call' \in [Threads -> CV \cup {NoCV}]
        /\ all' \in [Threads -> BOOLEAN]
        /\ after' \in [Threads -> {"user", "in", "push", "unlock", "exit"}]
    <3>1. CASE EndCall(t)
      <4>1. /\ after[t] \in Label
            /\ pc' = [pc EXCEPT ![t] = after[t]]
            /\ pc \in [Threads -> Label]
        BY <3>1 DEF IInv, TypeOK, EndCall, Goto, Label
      <4>2. pc' \in [Threads -> Label]
        BY <4>1
      <4> QED BY <3>1, <4>2 DEF EndCall, IInv, TypeOK
    <3>2. CASE UNCHANGED <<waitset_lock, call, all, after, pc>>
      BY <3>2 DEF IInv, TypeOK
    <3> QED BY <2>4, <3>1, <3>2
  <2>7. CallInv'
    <3>1. CASE EndCall(t)
      <4>1. after[t] \notin {"signal", "ring"}
        BY DEF IInv, TypeOK
      <4> QED BY <3>1, <4>1 DEF EndCall, Goto, IInv, TypeOK, CallInv, Signalling
    <3>2. CASE UNCHANGED <<waitset_lock, call, all, after, pc>>
      BY <3>2 DEF IInv, CallInv, Signalling
    <3> QED BY <2>4, <3>1, <3>2
  <2>6. UNCHANGED <<kernel_mutex, kernel_sem, cv, timed>>
    BY <1>10 DEF SignalFirst
  <2> QED BY <2>2, <2>3, <2>5, <2>6, <2>7 DEF IInv, TypeOK
<1>11. ASSUME NEW t \in Threads, RingEmpty(t)
      PROVE  TypeOK' /\ CallInv'
  BY <1>11 DEF RingEmpty, EndCall, Goto, IInv, TypeOK, CallInv, TakeInv,
     CV, Label, Signalling
<1>12. ASSUME NEW t \in Threads, EndUnlock(t)
      PROVE  TypeOK' /\ CallInv'
  BY <1>12 DEF EndUnlock, Goto, UnlockKernelMutex, IInv, TypeOK, CallInv,
     TakeInv, CV, Label, Signalling
<1>13. ASSUME NEW t \in Threads, SleepExited(t)
      PROVE  TypeOK' /\ CallInv'
  BY <1>13 DEF SleepExited, Goto, UnlockKernelMutex, IInv, TypeOK,
     CallInv, TakeInv, CV, Label, Signalling
<1>14. ASSUME NEW t \in Threads, kernel_lock(t)
      PROVE  TypeOK' /\ CallInv'
  BY <1>14 DEF kernel_lock, Goto, LockKernelMutex, Free, IInv, TypeOK,
     CallInv, TakeInv, CV, Label, Signalling
<1>15. ASSUME NEW t \in Threads, kernel_unlock(t)
      PROVE  TypeOK' /\ CallInv'
  BY <1>15, SemBusy DEF kernel_unlock, ReleaseSem, StartCall, Goto,
     LockKernelMutex, Free, IInv, TypeOK, CallInv, TakeInv, CV, Label,
     Signalling
<1>16. ASSUME NEW t \in Threads, kernel_sleep(t)
      PROVE  TypeOK' /\ CallInv'
  BY <1>16, SemBusy DEF kernel_sleep, ReleaseSem, StartCall, Goto,
     LockKernelMutex, Free, IInv, TypeOK, CallInv, TakeInv, CV, Label,
     Signalling
<1>17. ASSUME NEW t \in Threads, NEW k \in WaitCVs, HandlerBroadcast(t, k)
      PROVE  TypeOK' /\ CallInv'
  BY <1>17 DEF HandlerBroadcast, StartCall, Goto, IInv, TypeOK, CallInv,
     TakeInv, CV, Label, Signalling
<1>18. ASSUME NEW t \in Threads, NEW k \in WaitCVs, NEW b \in BOOLEAN,
             kernel_wait(t, k, b)
      PROVE  TypeOK' /\ CallInv'
  BY <1>18, SemBusy DEF kernel_wait, ReleaseSem, StartCall, Goto,
     LockKernelMutex, Free, IInv, TypeOK, CallInv, TakeInv, CV, Label,
     Signalling
<1>19. ASSUME NEW t \in Threads, NEW k \in WaitCVs, NEW b \in BOOLEAN,
             kernel_signal(t, k, b)
      PROVE  TypeOK' /\ CallInv'
  BY <1>19 DEF kernel_signal, StartCall, Goto, IInv, TypeOK, CallInv,
     TakeInv, CV, Label, Signalling
<1>20. ASSUME NEW t \in Threads, Timeout(t)
      PROVE  TypeOK' /\ CallInv'
  BY <1>20 DEF Timeout, IInv, TypeOK, CallInv, TakeInv, CV, Label,
     Signalling
<1>21. CASE UNCHANGED vars
  BY <1>21 DEF vars, IInv, TypeOK, CallInv, TakeInv, CV, Label, Signalling
<1> QED
  BY <1>1, <1>2, <1>3, <1>4, <1>5, <1>6, <1>7, <1>8, <1>9, <1>10, <1>11,
     <1>12, <1>13, <1>14, <1>15, <1>16, <1>17, <1>18, <1>19, <1>20, <1>21
     DEF Next, Step, Decision

\* A return from Cond_Signal changes neither who has kernel_mutex nor who is
\* inside the kernel: both are decided by where the call was made from.
LEMMA CallKeeps ==
  ASSUME IInv, NEW t \in Threads, pc[t] = "ring",
         EndCall(t) \/ UNCHANGED <<waitset_lock, call, all, after, pc>>
  PROVE  \A u \in Threads : /\ HasMutex(u)' <=> HasMutex(u)
                            /\ InKernel(u)' <=> InKernel(u)
                            /\ pc'[u] = "take" <=> pc[u] = "take"
<1>1. CASE EndCall(t)
  <2>1. /\ after[t] \in {"user", "in", "push", "unlock", "exit"}
        /\ pc' = [pc EXCEPT ![t] = after[t]] /\ pc \in [Threads -> Label]
        /\ after' = [after EXCEPT ![t] = "user"]
        /\ \A u \in Threads \ {t} : after'[u] = after[u]
    BY <1>1 DEF IInv, TypeOK, EndCall, Goto
  <2>2. \A u \in Threads \ {t} : pc'[u] = pc[u]
    BY <2>1
  <2>3. pc'[t] = after[t]
    BY <2>1
  <2> QED BY <2>1, <2>2, <2>3 DEF HasMutex, InKernel, Signalling
<1>2. CASE UNCHANGED <<waitset_lock, call, all, after, pc>>
  BY <1>2 DEF HasMutex, InKernel, Signalling
<1> QED BY <1>1, <1>2

\* A step locks kernel_mutex only when it is free, and unlocks it only when it has it.
LEMMA LockPreserved == IInv /\ [Next]_vars => LockInv'
<1> SUFFICES ASSUME IInv, [Next]_vars PROVE LockInv'
  OBVIOUS
<1>1. ASSUME NEW t \in Threads, FindSem(t)
      PROVE  LockInv'
  BY <1>1, KernelCCAssumption DEF FindSem, Goto, SemFree, IInv, TypeOK,
     LockInv, HasMutex, Signalling, Label
<1>2. ASSUME NEW t \in Threads, TakeSem(t)
      PROVE  LockInv'
  BY <1>2, KernelCCAssumption DEF TakeSem, Goto, UnlockKernelMutex, IInv,
     TypeOK, LockInv, HasMutex, Signalling, Label
<1>3. ASSUME NEW t \in Threads, WaitForSem(t)
      PROVE  LockInv'
  BY <1>3, KernelCCAssumption DEF WaitForSem, Goto, SemFree, IInv, TypeOK,
     LockInv, HasMutex, Signalling, Label
<1>4. ASSUME NEW t \in Threads, PushWaiter(t)
      PROVE  LockInv'
  BY <1>4, KernelCCAssumption DEF PushWaiter, Goto, Free, IInv, TypeOK,
     LockInv, HasMutex, Signalling, Label
<1>5. ASSUME NEW t \in Threads, ReleaseMutex(t)
      PROVE  LockInv'
  BY <1>5, KernelCCAssumption DEF ReleaseMutex, Goto, UnlockKernelMutex,
     IInv, TypeOK, LockInv, HasMutex, Signalling, Label
<1>6. ASSUME NEW t \in Threads, Sleep(t)
      PROVE  LockInv'
  BY <1>6, KernelCCAssumption DEF Sleep, Goto, IInv, TypeOK, LockInv,
     HasMutex, Signalling, Label
<1>7. ASSUME NEW t \in Threads, WakeUp(t)
      PROVE  LockInv'
  BY <1>7, KernelCCAssumption DEF WakeUp, Goto, Free, IInv, TypeOK,
     LockInv, HasMutex, Signalling, Label
<1>8. ASSUME NEW t \in Threads, Relock(t)
      PROVE  LockInv'
  BY <1>8, KernelCCAssumption DEF Relock, Goto, LockKernelMutex, Free,
     IInv, TypeOK, LockInv, HasMutex, Signalling, Label
<1>9. ASSUME NEW t \in Threads, LockRing(t)
      PROVE  LockInv'
  BY <1>9, KernelCCAssumption DEF LockRing, Goto, Free, IInv, TypeOK,
     LockInv, HasMutex, Signalling, Label
<1>10. ASSUME NEW t \in Threads, SignalFirst(t)
      PROVE  LockInv'
  <2>1. pc[t] = "ring" /\ kernel_mutex' = kernel_mutex
    BY <1>10 DEF SignalFirst
  <2>2. EndCall(t) \/ UNCHANGED <<waitset_lock, call, all, after, pc>>
    BY <1>10 DEF SignalFirst
  <2> QED BY <2>1, <2>2, CallKeeps DEF IInv, LockInv
<1>11. ASSUME NEW t \in Threads, RingEmpty(t)
      PROVE  LockInv'
  BY <1>11, KernelCCAssumption DEF RingEmpty, EndCall, Goto, IInv, TypeOK,
     LockInv, HasMutex, Signalling, Label
<1>12. ASSUME NEW t \in Threads, EndUnlock(t)
      PROVE  LockInv'
  BY <1>12, KernelCCAssumption DEF EndUnlock, Goto, UnlockKernelMutex,
     IInv, TypeOK, LockInv, HasMutex, Signalling, Label
<1>13. ASSUME NEW t \in Threads, SleepExited(t)
      PROVE  LockInv'
  BY <1>13, KernelCCAssumption DEF SleepExited, Goto, UnlockKernelMutex,
     IInv, TypeOK, LockInv, HasMutex, Signalling, Label
<1>14. ASSUME NEW t \in Threads, kernel_lock(t)
      PROVE  LockInv'
  BY <1>14, KernelCCAssumption DEF kernel_lock, Goto, LockKernelMutex,
     Free, IInv, TypeOK, LockInv, HasMutex, Signalling, Label
<1>15. ASSUME NEW t \in Threads, kernel_unlock(t)
      PROVE  LockInv'
  BY <1>15, KernelCCAssumption DEF kernel_unlock, ReleaseSem, StartCall,
     Goto, LockKernelMutex, Free, IInv, TypeOK, LockInv, HasMutex,
     Signalling, Label
<1>16. ASSUME NEW t \in Threads, kernel_sleep(t)
      PROVE  LockInv'
  BY <1>16, KernelCCAssumption DEF kernel_sleep, ReleaseSem, StartCall,
     Goto, LockKernelMutex, Free, IInv, TypeOK, LockInv, HasMutex,
     Signalling, Label
<1>17. ASSUME NEW t \in Threads, NEW k \in WaitCVs, HandlerBroadcast(t, k)
      PROVE  LockInv'
  BY <1>17, KernelCCAssumption DEF HandlerBroadcast, StartCall, Goto,
     IInv, TypeOK, LockInv, HasMutex, Signalling, Label
<1>18. ASSUME NEW t \in Threads, NEW k \in WaitCVs, NEW b \in BOOLEAN,
             kernel_wait(t, k, b)
      PROVE  LockInv'
  BY <1>18, KernelCCAssumption DEF kernel_wait, ReleaseSem, StartCall,
     Goto, LockKernelMutex, Free, IInv, TypeOK, LockInv, HasMutex,
     Signalling, Label
<1>19. ASSUME NEW t \in Threads, NEW k \in WaitCVs, NEW b \in BOOLEAN,
             kernel_signal(t, k, b)
      PROVE  LockInv'
  BY <1>19, KernelCCAssumption DEF kernel_signal, StartCall, Goto, IInv,
     TypeOK, LockInv, HasMutex, Signalling, Label
<1>20. ASSUME NEW t \in Threads, Timeout(t)
      PROVE  LockInv'
  BY <1>20, KernelCCAssumption DEF Timeout, IInv, TypeOK, LockInv,
     HasMutex, Signalling, Label
<1>21. CASE UNCHANGED vars
  BY <1>21 DEF vars, IInv, TypeOK, LockInv, HasMutex, Signalling, Label
<1> QED
  BY <1>1, <1>2, <1>3, <1>4, <1>5, <1>6, <1>7, <1>8, <1>9, <1>10, <1>11,
     <1>12, <1>13, <1>14, <1>15, <1>16, <1>17, <1>18, <1>19, <1>20, <1>21
     DEF Next, Step, Decision

\* Between the test of the semaphore and its decrement nobody else can touch it, so it counts the threads inside.
LEMMA ExclusionPreserved == IInv /\ [Next]_vars => KernelExclusion' /\ TakeInv'
<1> SUFFICES ASSUME IInv, [Next]_vars PROVE KernelExclusion' /\ TakeInv'
  OBVIOUS
<1>1. ASSUME NEW t \in Threads, FindSem(t)
      PROVE  KernelExclusion' /\ TakeInv'
  BY <1>1, KernelCCAssumption DEF FindSem, Goto, SemFree, IInv, TypeOK,
     LockInv, TakeInv, KernelExclusion, InKernel, HasMutex, Signalling,
     Label
<1>2. ASSUME NEW t \in Threads, TakeSem(t)
      PROVE  KernelExclusion' /\ TakeInv'
  BY <1>2, KernelCCAssumption DEF TakeSem, Goto, UnlockKernelMutex, IInv,
     TypeOK, LockInv, TakeInv, KernelExclusion, InKernel, HasMutex,
     Signalling, Label
<1>3. ASSUME NEW t \in Threads, WaitForSem(t)
      PROVE  KernelExclusion' /\ TakeInv'
  BY <1>3, KernelCCAssumption DEF WaitForSem, Goto, SemFree, IInv, TypeOK,
     LockInv, TakeInv, KernelExclusion, InKernel, HasMutex, Signalling,
     Label
<1>4. ASSUME NEW t \in Threads, PushWaiter(t)
      PROVE  KernelExclusion' /\ TakeInv'
  BY <1>4, KernelCCAssumption DEF PushWaiter, Goto, Free, IInv, TypeOK,
     LockInv, TakeInv, KernelExclusion, InKernel, HasMutex, Signalling,
     Label
<1>5. ASSUME NEW t \in Threads, ReleaseMutex(t)
      PROVE  KernelExclusion' /\ TakeInv'
  BY <1>5, KernelCCAssumption DEF ReleaseMutex, Goto, UnlockKernelMutex,
     IInv, TypeOK, LockInv, TakeInv, KernelExclusion, InKernel, HasMutex,
     Signalling, Label
<1>6. ASSUME NEW t \in Threads, Sleep(t)
      PROVE  KernelExclusion' /\ TakeInv'
  BY <1>6, KernelCCAssumption DEF Sleep, Goto, IInv, TypeOK, LockInv,
     TakeInv, KernelExclusion, InKernel, HasMutex, Signalling, Label
<1>7. ASSUME NEW t \in Threads, WakeUp(t)
      PROVE  KernelExclusion' /\ TakeInv'
  BY <1>7, KernelCCAssumption DEF WakeUp, Goto, Free, IInv, TypeOK,
     LockInv, TakeInv, KernelExclusion, InKernel, HasMutex, Signalling,
     Label
<1>8. ASSUME NEW t \in Threads, Relock(t)
      PROVE  KernelExclusion' /\ TakeInv'
  BY <1>8, KernelCCAssumption DEF Relock, Goto, LockKernelMutex, Free,
     IInv, TypeOK, LockInv, TakeInv, KernelExclusion, InKernel, HasMutex,
     Signalling, Label
<1>9. ASSUME NEW t \in Threads, LockRing(t)
      PROVE  KernelExclusion' /\ TakeInv'
  BY <1>9, KernelCCAssumption DEF LockRing, Goto, Free, IInv, TypeOK,
     LockInv, TakeInv, KernelExclusion, InKernel, HasMutex, Signalling,
     Label
<1>10. ASSUME NEW t \in Threads, SignalFirst(t)
      PROVE  KernelExclusion' /\ TakeInv'
  <2>1. pc[t] = "ring" /\ kernel_sem' = kernel_sem
    BY <1>10 DEF SignalFirst
  <2>2. EndCall(t) \/ UNCHANGED <<waitset_lock, call, all, after, pc>>
    BY <1>10 DEF SignalFirst
  <2> QED BY <2>1, <2>2, CallKeeps DEF IInv, KernelExclusion, TakeInv
<1>11. ASSUME NEW t \in Threads, RingEmpty(t)
      PROVE  KernelExclusion' /\ TakeInv'
  <2>1. pc[t] = "ring" /\ kernel_sem' = kernel_sem
    BY <1>11 DEF RingEmpty
  <2>2. EndCall(t) \/ UNCHANGED <<waitset_lock, call, all, after, pc>>
    BY <1>11 DEF RingEmpty
  <2> QED BY <2>1, <2>2, CallKeeps DEF IInv, KernelExclusion, TakeInv
<1>12. ASSUME NEW t \in Threads, EndUnlock(t)
      PROVE  KernelExclusion' /\ TakeInv'
  BY <1>12, KernelCCAssumption DEF EndUnlock, Goto, UnlockKernelMutex,
     IInv, TypeOK, LockInv, TakeInv, KernelExclusion, InKernel, HasMutex,
     Signalling, Label
<1>13. ASSUME NEW t \in Threads, SleepExited(t)
      PROVE  KernelExclusion' /\ TakeInv'
  BY <1>13, KernelCCAssumption DEF SleepExited, Goto, UnlockKernelMutex,
     IInv, TypeOK, LockInv, TakeInv, KernelExclusion, InKernel, HasMutex,
     Signalling, Label
<1>14. ASSUME NEW t \in Threads, kernel_lock(t)
      PROVE  KernelExclusion' /\ TakeInv'
  BY <1>14, KernelCCAssumption DEF kernel_lock, Goto, LockKernelMutex,
     Free, IInv, TypeOK, LockInv, TakeInv, KernelExclusion, InKernel,
     HasMutex, Signalling, Label
<1>15. ASSUME NEW t \in Threads, kernel_unlock(t)
      PROVE  KernelExclusion' /\ TakeInv'
  BY <1>15, SemBusy DEF kernel_unlock, ReleaseSem, StartCall, Goto,
     LockKernelMutex, Free, IInv, TypeOK, LockInv, TakeInv,
     KernelExclusion, InKernel, HasMutex, Signalling, Label
<1>16. ASSUME NEW t \in Threads, kernel_sleep(t)
      PROVE  KernelExclusion' /\ TakeInv'
  BY <1>16, SemBusy DEF kernel_sleep, ReleaseSem, StartCall, Goto,
     LockKernelMutex, Free, IInv, TypeOK, LockInv, TakeInv,
     KernelExclusion, InKernel, HasMutex, Signalling, Label
<1>17. ASSUME NEW t \in Threads, NEW k \in WaitCVs, HandlerBroadcast(t, k)
      PROVE  KernelExclusion' /\ TakeInv'
  BY <1>17, KernelCCAssumption DEF HandlerBroadcast, StartCall, Goto,
     IInv, TypeOK, LockInv, TakeInv, KernelExclusion, InKernel, HasMutex,
     Signalling, Label
<1>18. ASSUME NEW t \in Threads, NEW k \in WaitCVs, NEW b \in BOOLEAN,
             kernel_wait(t, k, b)
      PROVE  KernelExclusion' /\ TakeInv'
  BY <1>18, SemBusy DEF kernel_wait, ReleaseSem, StartCall, Goto,
     LockKernelMutex, Free, IInv, TypeOK, LockInv, TakeInv,
     KernelExclusion, InKernel, HasMutex, Signalling, Label
<1>19. ASSUME NEW t \in Threads, NEW k \in WaitCVs, NEW b \in BOOLEAN,
             kernel_signal(t, k, b)
      PROVE  KernelExclusion' /\ TakeInv'
  BY <1>19, KernelCCAssumption DEF kernel_signal, StartCall, Goto, IInv,
     TypeOK, LockInv, TakeInv, KernelExclusion, InKernel, HasMutex,
     Signalling, Label
<1>20. ASSUME NEW t \in Threads, Timeout(t)
      PROVE  KernelExclusion' /\ TakeInv'
  BY <1>20, KernelCCAssumption DEF Timeout, IInv, TypeOK, LockInv,
     TakeInv, KernelExclusion, InKernel, HasMutex, Signalling, Label
<1>21. CASE UNCHANGED vars
  BY <1>21 DEF vars, IInv, TypeOK, LockInv, TakeInv, KernelExclusion,
     InKernel, HasMutex, Signalling, Label
<1> QED
  BY <1>1, <1>2, <1>3, <1>4, <1>5, <1>6, <1>7, <1>8, <1>9, <1>10, <1>11,
     <1>12, <1>13, <1>14, <1>15, <1>16, <1>17, <1>18, <1>19, <1>20, <1>21
     DEF Next, Step, Decision

\* Whoever pushes, removes itself or is removed by a signal, the rings hold the waiters.
LEMMA RingPreserved == IInv /\ [Next]_vars => RingInv'
<1> SUFFICES ASSUME IInv, [Next]_vars PROVE RingInv'
  OBVIOUS
<1>1. ASSUME NEW t \in Threads, FindSem(t)
      PROVE  RingInv'
  BY <1>1 DEF FindSem, Goto, SemFree, IInv, TypeOK, RingInv, InRing,
     Signalling, CV, Label
<1>2. ASSUME NEW t \in Threads, TakeSem(t)
      PROVE  RingInv'
  BY <1>2 DEF TakeSem, Goto, UnlockKernelMutex, IInv, TypeOK, RingInv,
     InRing, Signalling, CV, Label
<1>3. ASSUME NEW t \in Threads, WaitForSem(t)
      PROVE  RingInv'
  BY <1>3 DEF WaitForSem, Goto, SemFree, IInv, TypeOK, RingInv, InRing,
     Signalling, CV, Label
<1>4. ASSUME NEW t \in Threads, PushWaiter(t)
      PROVE  RingInv'
  <2> DEFINE k == cv[t]
  <2>1. /\ k \in CV /\ waitset[k] \in Seq(Threads)
        /\ t \notin Members(waitset[k]) /\ Distinct(waitset[k])
    BY <1>4 DEF PushWaiter, IInv, TypeOK, RingInv, InRing
  <2>2. /\ Members(waitset'[k]) = Members(waitset[k]) \cup {t}
        /\ Distinct(waitset'[k])
        /\ \A j \in CV \ {k} : waitset'[j] = waitset[j]
    BY <1>4, <2>1, PushedMembers DEF PushWaiter, IInv, TypeOK
  <2>3. /\ cv' = cv /\ InRing(t)' /\ ~ InRing(t)
        /\ \A u \in Threads \ {t} : InRing(u)' <=> InRing(u)
    BY <1>4 DEF PushWaiter, Goto, IInv, TypeOK, InRing
  <2> QED BY <2>1, <2>2, <2>3 DEF IInv, RingInv
<1>5. ASSUME NEW t \in Threads, ReleaseMutex(t)
      PROVE  RingInv'
  BY <1>5 DEF ReleaseMutex, Goto, UnlockKernelMutex, IInv, TypeOK,
     RingInv, InRing, Signalling, CV, Label
<1>6. ASSUME NEW t \in Threads, Sleep(t)
      PROVE  RingInv'
  BY <1>6 DEF Sleep, Goto, IInv, TypeOK, RingInv, InRing, Signalling, CV,
     Label
<1>7. ASSUME NEW t \in Threads, WakeUp(t)
      PROVE  RingInv'
  <2> DEFINE k == cv[t]
  <2>1. /\ cv' = cv /\ k \in CV /\ ~ InRing(t)'
        /\ \A u \in Threads \ {t} : InRing(u)' <=> InRing(u)
    BY <1>7 DEF WakeUp, Goto, IInv, TypeOK, InRing
  <2>2. CASE removed[t]
    <3>1. waitset' = waitset /\ ~ InRing(t)
      BY <1>7, <2>2 DEF WakeUp, InRing
    <3> QED BY <2>1, <3>1 DEF IInv, RingInv
  <2>3. CASE ~ removed[t]
    <3>1. /\ Members(waitset'[k]) = Members(waitset[k]) \ {t}
          /\ Distinct(waitset'[k])
          /\ \A j \in CV \ {k} : waitset'[j] = waitset[j]
      BY <1>7, <2>1, <2>3, InItsRing, WithoutMembers DEF WakeUp, IInv, TypeOK
    <3> QED BY <2>1, <3>1 DEF IInv, RingInv
  <2> QED BY <2>2, <2>3
<1>8. ASSUME NEW t \in Threads, Relock(t)
      PROVE  RingInv'
  BY <1>8 DEF Relock, Goto, LockKernelMutex, Free, IInv, TypeOK, RingInv,
     InRing, Signalling, CV, Label
<1>9. ASSUME NEW t \in Threads, LockRing(t)
      PROVE  RingInv'
  BY <1>9 DEF LockRing, Goto, Free, IInv, TypeOK, RingInv, InRing,
     Signalling, CV, Label
<1>10. ASSUME NEW t \in Threads, SignalFirst(t)
      PROVE  RingInv'
  <2> DEFINE k == call[t]
             w == Head(waitset[k])
  <2>1. /\ k \in CV /\ waitset[k] \in Seq(Threads) /\ waitset[k] # <<>>
        /\ Distinct(waitset[k]) /\ pc[t] = "ring"
    BY <1>10 DEF SignalFirst, IInv, TypeOK, CallInv, RingInv, Signalling
  <2>2. /\ w \in Members(waitset[k]) /\ w \in Threads
        /\ Members(Tail(waitset[k])) = Members(waitset[k]) \ {w}
        /\ Distinct(Tail(waitset[k]))
    BY <2>1, TailMembers
  <2>3. /\ waitset'[k] = Tail(waitset[k])
        /\ \A j \in CV \ {k} : waitset'[j] = waitset[j]
        /\ cv' = cv /\ removed' = [removed EXCEPT ![w] = TRUE]
    BY <1>10, <2>1 DEF SignalFirst, IInv, TypeOK
  <2>4. InRing(w) /\ cv[w] = k
    BY <2>1, <2>2 DEF IInv, RingInv
  <2>5. \A u \in Threads : pc'[u] = pc[u] \/ u = t
    BY <1>10 DEF SignalFirst, EndCall, Goto, IInv, TypeOK
  <2>6. ~ InRing(t) /\ ~ InRing(t)'
    <3>1. pc'[t] = "ring" \/ pc'[t] \in {"user", "in", "push", "unlock", "exit"}
      BY <1>10 DEF SignalFirst, EndCall, Goto, IInv, TypeOK
    <3> QED BY <3>1, <2>1 DEF InRing
  <2>7. \A u \in Threads : InRing(u)' <=> InRing(u) /\ u # w
    BY <2>2, <2>3, <2>4, <2>5, <2>6 DEF InRing, IInv, TypeOK
  <2> HIDE DEF k, w
  <2> QED BY <2>1, <2>2, <2>3, <2>4, <2>7 DEF IInv, RingInv
<1>11. ASSUME NEW t \in Threads, RingEmpty(t)
      PROVE  RingInv'
  <2>1. /\ waitset' = waitset /\ cv' = cv /\ removed' = removed
        /\ pc[t] = "ring" /\ pc' = [pc EXCEPT ![t] = after[t]]
        /\ after[t] \in {"user", "in", "push", "unlock", "exit"}
    BY <1>11 DEF RingEmpty, EndCall, Goto, IInv, TypeOK
  <2>2. \A u \in Threads : InRing(u)' <=> InRing(u)
    BY <2>1 DEF InRing, IInv, TypeOK
  <2> QED BY <2>1, <2>2 DEF IInv, RingInv
<1>12. ASSUME NEW t \in Threads, EndUnlock(t)
      PROVE  RingInv'
  BY <1>12 DEF EndUnlock, Goto, UnlockKernelMutex, IInv, TypeOK, RingInv,
     InRing, Signalling, CV, Label
<1>13. ASSUME NEW t \in Threads, SleepExited(t)
      PROVE  RingInv'
  BY <1>13 DEF SleepExited, Goto, UnlockKernelMutex, IInv, TypeOK,
     RingInv, InRing, Signalling, CV, Label
<1>14. ASSUME NEW t \in Threads, kernel_lock(t)
      PROVE  RingInv'
  BY <1>14 DEF kernel_lock, Goto, LockKernelMutex, Free, IInv, TypeOK,
     RingInv, InRing, Signalling, CV, Label
<1>15. ASSUME NEW t \in Threads, kernel_unlock(t)
      PROVE  RingInv'
  BY <1>15 DEF kernel_unlock, ReleaseSem, StartCall, Goto,
     LockKernelMutex, Free, IInv, TypeOK, RingInv, InRing, Signalling, CV,
     Label
<1>16. ASSUME NEW t \in Threads, kernel_sleep(t)
      PROVE  RingInv'
  BY <1>16 DEF kernel_sleep, ReleaseSem, StartCall, Goto, LockKernelMutex,
     Free, IInv, TypeOK, RingInv, InRing, Signalling, CV, Label
<1>17. ASSUME NEW t \in Threads, NEW k \in WaitCVs, HandlerBroadcast(t, k)
      PROVE  RingInv'
  BY <1>17 DEF HandlerBroadcast, StartCall, Goto, IInv, TypeOK, RingInv,
     InRing, Signalling, CV, Label
<1>18. ASSUME NEW t \in Threads, NEW k \in WaitCVs, NEW b \in BOOLEAN,
             kernel_wait(t, k, b)
      PROVE  RingInv'
  BY <1>18 DEF kernel_wait, ReleaseSem, StartCall, Goto, LockKernelMutex,
     Free, IInv, TypeOK, RingInv, InRing, Signalling, CV, Label
<1>19. ASSUME NEW t \in Threads, NEW k \in WaitCVs, NEW b \in BOOLEAN,
             kernel_signal(t, k, b)
      PROVE  RingInv'
  BY <1>19 DEF kernel_signal, StartCall, Goto, IInv, TypeOK, RingInv,
     InRing, Signalling, CV, Label
<1>20. ASSUME NEW t \in Threads, Timeout(t)
      PROVE  RingInv'
  BY <1>20 DEF Timeout, IInv, TypeOK, RingInv, InRing, Signalling, CV,
     Label
<1>21. CASE UNCHANGED vars
  BY <1>21 DEF vars, IInv, TypeOK, RingInv, InRing, Signalling, CV, Label
<1> QED
  BY <1>1, <1>2, <1>3, <1>4, <1>5, <1>6, <1>7, <1>8, <1>9, <1>10, <1>11,
     <1>12, <1>13, <1>14, <1>15, <1>16, <1>17, <1>18, <1>19, <1>20, <1>21
     DEF Next, Step, Decision

-----------------------------------------------------------------------------
\* IInv holds in every reachable state.
THEOREM Invariant == Spec => []IInv
<1>1. Init => IInv
  <2> SUFFICES ASSUME Init PROVE IInv
    OBVIOUS
  <2>1. TypeOK
    BY DEF Init, TypeOK, CV, Label
  <2>2. LockInv /\ CallInv /\ TakeInv /\ KernelExclusion
    BY KernelCCAssumption DEF Init, LockInv, CallInv, TakeInv,
       KernelExclusion, HasMutex, InKernel, Signalling
  <2>3. RingInv
    BY DEF Init, RingInv, InRing, Members, Distinct
  <2> QED BY <2>1, <2>2, <2>3 DEF IInv
<1>2. IInv /\ [Next]_vars => IInv'
  BY TypePreserved, LockPreserved, ExclusionPreserved, RingPreserved DEF IInv
<1> QED BY <1>1, <1>2, PTL DEF Spec

\* The types of kernel_cc.c's data, the bounds of the kernel semaphore included.
THEOREM TypeCorrect == Spec => []TypeOK
BY Invariant, PTL DEF IInv

\* The kernel lock excludes: system calls run one at a time, for any number of
\* threads and condition variables.
THEOREM Exclusion == Spec => []KernelExclusion
BY Invariant, PTL DEF IInv

\* The ring of every condition variable holds exactly its waiters.
THEOREM RingsHoldWaiters == Spec => []RingInv
BY Invariant, PTL DEF IInv

-----------------------------------------------------------------------------
(* Wake-ups.                                                               *)

\* waitset_lock of k is held where cv_wait and the signalling calls hold it.
OwnerInv == \A t \in Threads, k \in CV :
  waitset_lock[k] = t <=> \/ pc[t] \in {"release", "sleep"} /\ cv[t] = k
                          \/ pc[t] = "ring" /\ call[t] = k

\* What a waiter's position says of it: in the ring and awake until it sleeps,
\* woken by nobody only when its wait has a timeout; a timed wait is a
\* kernel_wait, never one for the semaphore; the dead are gone.
WaiterInv == \A t \in Threads :
  /\ state[t] = "EXITED" => pc[t] = "gone"
  /\ pc[t] \in {"release", "sleep"} => ~ removed[t] /\ ~ Asleep(t)
  /\ pc[t] = "wake" /\ ~ removed[t] /\ ~ Asleep(t) => timed[t]
  /\ Signalling(t) /\ after[t] = "push" => cv[t] # SemCV

\* u is about to take the semaphore or to signal it.
PendingSem(u) ==
  \/ Signalling(u) /\ call[u] = SemCV
  \/ pc[u] \in {"test", "take"}
  \/ cv[u] = SemCV /\ (pc[u] = "relock" \/ (pc[u] = "wake" /\ ~ Asleep(u)))

\* A thread that goes to wait for the semaphore has found it taken, and it stays
\* taken until that thread is in the ring; from then on a sleeper is waited for.
SemInv ==
  /\ \A t \in Threads : pc[t] \in {"push", "release"} /\ cv[t] = SemCV => kernel_sem = 0
  /\ kernel_sem = 1 /\ (\E t \in Threads : (Asleep(t) \/ pc[t] = "sleep") /\ cv[t] = SemCV) =>
       \E u \in Threads : PendingSem(u)

\* The inductive invariant of the wake-ups, over IInv.
WInv == OwnerInv /\ WaiterInv /\ NoOrphanSleeper /\ SignalledInv /\ SemInv

\* The waiter that cv_signal removes has released waitset_lock: it is asleep,
\* or awake and waiting for that lock.
LEMMA SignalledWaiter ==
  ASSUME IInv, WInv, NEW t \in Threads, SignalFirst(t)
  PROVE  LET k == call[t]
             w == Head(waitset[k])
         IN  /\ pc[t] = "ring" /\ k \in CV /\ waitset_lock[k] = t
             /\ w \in Threads /\ w # t /\ pc[w] = "wake" /\ ~ removed[w] /\ cv[w] = k
<1> DEFINE k == call[t]
           w == Head(waitset[k])
<1>1. /\ k \in CV /\ waitset[k] \in Seq(Threads) /\ waitset[k] # <<>>
      /\ Distinct(waitset[k]) /\ pc[t] = "ring"
  BY DEF SignalFirst, IInv, TypeOK, CallInv, RingInv, Signalling
<1>2. w \in Members(waitset[k]) /\ w \in Threads
  BY <1>1, TailMembers
<1>3. InRing(w) /\ cv[w] = k
  BY <1>1, <1>2 DEF IInv, RingInv
<1>4. waitset_lock[k] = t
  BY <1>1 DEF WInv, OwnerInv
<1>5. pc[w] = "wake" /\ ~ removed[w]
  BY <1>1, <1>2, <1>3, <1>4 DEF WInv, OwnerInv, InRing
<1> QED BY <1>1, <1>2, <1>3, <1>4, <1>5

\* A signalling call that goes on or returns: where its caller is afterwards.
LEMMA SignalGoes ==
  ASSUME IInv, NEW t \in Threads, SignalFirst(t) \/ RingEmpty(t)
  PROVE  /\ pc[t] = "ring" /\ call[t] \in CV
         /\ \A u \in Threads \ {t} : /\ pc'[u] = pc[u] /\ call'[u] = call[u]
                                     /\ after'[u] = after[u]
         /\ \/ /\ pc'[t] = after[t] /\ after[t] \in {"user", "in", "push", "unlock", "exit"}
               /\ waitset_lock' = [waitset_lock EXCEPT ![call[t]] = NoThread]
            \/ pc' = pc /\ call' = call /\ after' = after /\ waitset_lock' = waitset_lock
         /\ cv' = cv /\ kernel_sem' = kernel_sem /\ timed' = timed
<1>1. CASE EndCall(t)
  BY <1>1 DEF SignalFirst, RingEmpty, EndCall, Goto, IInv, TypeOK, CallInv, Signalling
<1>2. CASE ~ EndCall(t)
  BY <1>2 DEF SignalFirst, RingEmpty, IInv, CallInv, Signalling
<1> QED BY <1>1, <1>2

\* waitset_lock is released by the thread that took it, step by step.
LEMMA OwnerPreserved == IInv /\ WInv /\ [Next]_vars => OwnerInv'
<1> SUFFICES ASSUME IInv, WInv, [Next]_vars PROVE OwnerInv'
  OBVIOUS
<1>1. ASSUME NEW t \in Threads, FindSem(t)
      PROVE  OwnerInv'
  BY <1>1, KernelCCAssumption DEF FindSem, Goto, SemFree, IInv, TypeOK,
     CallInv, WInv, OwnerInv, Signalling, Label
<1>2. ASSUME NEW t \in Threads, TakeSem(t)
      PROVE  OwnerInv'
  BY <1>2, KernelCCAssumption DEF TakeSem, Goto, UnlockKernelMutex, IInv,
     TypeOK, CallInv, WInv, OwnerInv, Signalling, Label
<1>3. ASSUME NEW t \in Threads, WaitForSem(t)
      PROVE  OwnerInv'
  BY <1>3, KernelCCAssumption DEF WaitForSem, Goto, SemFree, IInv, TypeOK,
     CallInv, WInv, OwnerInv, Signalling, Label
<1>4. ASSUME NEW t \in Threads, PushWaiter(t)
      PROVE  OwnerInv'
  BY <1>4, KernelCCAssumption DEF PushWaiter, Goto, Free, IInv, TypeOK,
     CallInv, WInv, OwnerInv, Signalling, Label
<1>5. ASSUME NEW t \in Threads, ReleaseMutex(t)
      PROVE  OwnerInv'
  BY <1>5, KernelCCAssumption DEF ReleaseMutex, Goto, UnlockKernelMutex,
     IInv, TypeOK, CallInv, WInv, OwnerInv, Signalling, Label
<1>6. ASSUME NEW t \in Threads, Sleep(t)
      PROVE  OwnerInv'
  BY <1>6, KernelCCAssumption DEF Sleep, Goto, IInv, TypeOK, CallInv,
     WInv, OwnerInv, Signalling, Label
<1>7. ASSUME NEW t \in Threads, WakeUp(t)
      PROVE  OwnerInv'
  BY <1>7, KernelCCAssumption DEF WakeUp, Goto, Free, IInv, TypeOK,
     CallInv, WInv, OwnerInv, Signalling, Label
<1>8. ASSUME NEW t \in Threads, Relock(t)
      PROVE  OwnerInv'
  BY <1>8, KernelCCAssumption DEF Relock, Goto, LockKernelMutex, Free,
     IInv, TypeOK, CallInv, WInv, OwnerInv, Signalling, Label
<1>9. ASSUME NEW t \in Threads, LockRing(t)
      PROVE  OwnerInv'
  BY <1>9, KernelCCAssumption DEF LockRing, Goto, Free, IInv, TypeOK,
     CallInv, WInv, OwnerInv, Signalling, Label
<1>10. ASSUME NEW t \in Threads, SignalFirst(t)
      PROVE  OwnerInv'
  <2>1. CASE pc' = pc /\ call' = call /\ waitset_lock' = waitset_lock
    BY <1>10, <2>1, SignalGoes DEF WInv, OwnerInv
  <2>2. CASE /\ pc'[t] = after[t] /\ after[t] \in {"user", "in", "push", "unlock", "exit"}
             /\ waitset_lock' = [waitset_lock EXCEPT ![call[t]] = NoThread]
    <3>1. /\ pc[t] = "ring" /\ call[t] \in CV /\ cv' = cv
          /\ \A u \in Threads \ {t} : pc'[u] = pc[u] /\ call'[u] = call[u]
      BY <1>10, SignalGoes
    <3> QED BY <2>2, <3>1, KernelCCAssumption DEF IInv, TypeOK, WInv, OwnerInv
  <2> QED BY <1>10, <2>1, <2>2, SignalGoes
<1>11. ASSUME NEW t \in Threads, RingEmpty(t)
      PROVE  OwnerInv'
  <2>1. CASE pc' = pc /\ call' = call /\ waitset_lock' = waitset_lock
    BY <1>11, <2>1, SignalGoes DEF WInv, OwnerInv
  <2>2. CASE /\ pc'[t] = after[t] /\ after[t] \in {"user", "in", "push", "unlock", "exit"}
             /\ waitset_lock' = [waitset_lock EXCEPT ![call[t]] = NoThread]
    <3>1. /\ pc[t] = "ring" /\ call[t] \in CV /\ cv' = cv
          /\ \A u \in Threads \ {t} : pc'[u] = pc[u] /\ call'[u] = call[u]
      BY <1>11, SignalGoes
    <3> QED BY <2>2, <3>1, KernelCCAssumption DEF IInv, TypeOK, WInv, OwnerInv
  <2> QED BY <1>11, <2>1, <2>2, SignalGoes
<1>12. ASSUME NEW t \in Threads, EndUnlock(t)
      PROVE  OwnerInv'
  BY <1>12, KernelCCAssumption DEF EndUnlock, Goto, UnlockKernelMutex,
     IInv, TypeOK, CallInv, WInv, OwnerInv, Signalling, Label
<1>13. ASSUME NEW t \in Threads, SleepExited(t)
      PROVE  OwnerInv'
  BY <1>13, KernelCCAssumption DEF SleepExited, Goto, UnlockKernelMutex,
     IInv, TypeOK, CallInv, WInv, OwnerInv, Signalling, Label
<1>14. ASSUME NEW t \in Threads, kernel_lock(t)
      PROVE  OwnerInv'
  BY <1>14, KernelCCAssumption DEF kernel_lock, Goto, LockKernelMutex,
     Free, IInv, TypeOK, CallInv, WInv, OwnerInv, Signalling, Label
<1>15. ASSUME NEW t \in Threads, kernel_unlock(t)
      PROVE  OwnerInv'
  BY <1>15, KernelCCAssumption DEF kernel_unlock, ReleaseSem, StartCall,
     Goto, LockKernelMutex, Free, IInv, TypeOK, CallInv, WInv, OwnerInv,
     Signalling, Label
<1>16. ASSUME NEW t \in Threads, kernel_sleep(t)
      PROVE  OwnerInv'
  BY <1>16, KernelCCAssumption DEF kernel_sleep, ReleaseSem, StartCall,
     Goto, LockKernelMutex, Free, IInv, TypeOK, CallInv, WInv, OwnerInv,
     Signalling, Label
<1>17. ASSUME NEW t \in Threads, NEW k \in WaitCVs, HandlerBroadcast(t, k)
      PROVE  OwnerInv'
  BY <1>17, KernelCCAssumption DEF HandlerBroadcast, StartCall, Goto,
     IInv, TypeOK, CallInv, WInv, OwnerInv, Signalling, Label
<1>18. ASSUME NEW t \in Threads, NEW k \in WaitCVs, NEW b \in BOOLEAN,
            kernel_wait(t, k, b)
      PROVE  OwnerInv'
  BY <1>18, KernelCCAssumption DEF kernel_wait, ReleaseSem, StartCall,
     Goto, LockKernelMutex, Free, IInv, TypeOK, CallInv, WInv, OwnerInv,
     Signalling, Label
<1>19. ASSUME NEW t \in Threads, NEW k \in WaitCVs, NEW b \in BOOLEAN,
            kernel_signal(t, k, b)
      PROVE  OwnerInv'
  BY <1>19, KernelCCAssumption DEF kernel_signal, StartCall, Goto, IInv,
     TypeOK, CallInv, WInv, OwnerInv, Signalling, Label
<1>20. ASSUME NEW t \in Threads, Timeout(t)
      PROVE  OwnerInv'
  BY <1>20, KernelCCAssumption DEF Timeout, IInv, TypeOK, CallInv, WInv,
     OwnerInv, Signalling, Label
<1>21. CASE UNCHANGED vars
  BY <1>21 DEF vars, IInv, TypeOK, CallInv, WInv, OwnerInv, Signalling,
     Label
<1> QED
  BY <1>1, <1>2, <1>3, <1>4, <1>5, <1>6, <1>7, <1>8, <1>9, <1>10, <1>11,
     <1>12, <1>13, <1>14, <1>15, <1>16, <1>17, <1>18, <1>19, <1>20, <1>21 DEF
     Next, Step, Decision

\* No sleeper leaves its ring, and the flags of its __cv_waiter tell the truth.
LEMMA WaiterPreserved ==
  IInv /\ WInv /\ [Next]_vars => WaiterInv' /\ NoOrphanSleeper' /\ SignalledInv'
<1> SUFFICES ASSUME IInv, WInv, [Next]_vars PROVE WaiterInv' /\ NoOrphanSleeper' /\ SignalledInv'
  OBVIOUS
<1>1. ASSUME NEW t \in Threads, FindSem(t)
      PROVE  WaiterInv' /\ NoOrphanSleeper' /\ SignalledInv'
  BY <1>1, KernelCCAssumption DEF FindSem, Goto, SemFree, IInv, TypeOK,
     WInv, WaiterInv, NoOrphanSleeper, SignalledInv, InRing, Asleep,
     Signalling, Label
<1>2. ASSUME NEW t \in Threads, TakeSem(t)
      PROVE  WaiterInv' /\ NoOrphanSleeper' /\ SignalledInv'
  BY <1>2, KernelCCAssumption DEF TakeSem, Goto, UnlockKernelMutex, IInv,
     TypeOK, WInv, WaiterInv, NoOrphanSleeper, SignalledInv, InRing, Asleep,
     Signalling, Label
<1>3. ASSUME NEW t \in Threads, WaitForSem(t)
      PROVE  WaiterInv' /\ NoOrphanSleeper' /\ SignalledInv'
  BY <1>3, KernelCCAssumption DEF WaitForSem, Goto, SemFree, IInv, TypeOK,
     WInv, WaiterInv, NoOrphanSleeper, SignalledInv, InRing, Asleep,
     Signalling, Label
<1>4. ASSUME NEW t \in Threads, PushWaiter(t)
      PROVE  WaiterInv' /\ NoOrphanSleeper' /\ SignalledInv'
  BY <1>4, KernelCCAssumption DEF PushWaiter, Goto, Free, IInv, TypeOK,
     WInv, WaiterInv, NoOrphanSleeper, SignalledInv, InRing, Asleep,
     Signalling, Label
<1>5. ASSUME NEW t \in Threads, ReleaseMutex(t)
      PROVE  WaiterInv' /\ NoOrphanSleeper' /\ SignalledInv'
  BY <1>5, KernelCCAssumption DEF ReleaseMutex, Goto, UnlockKernelMutex,
     IInv, TypeOK, WInv, WaiterInv, NoOrphanSleeper, SignalledInv, InRing,
     Asleep, Signalling, Label
<1>6. ASSUME NEW t \in Threads, Sleep(t)
      PROVE  WaiterInv' /\ NoOrphanSleeper' /\ SignalledInv'
  BY <1>6, KernelCCAssumption DEF Sleep, Goto, IInv, TypeOK, WInv,
     WaiterInv, NoOrphanSleeper, SignalledInv, InRing, Asleep, Signalling,
     Label
<1>7. ASSUME NEW t \in Threads, WakeUp(t)
      PROVE  WaiterInv' /\ NoOrphanSleeper' /\ SignalledInv'
  BY <1>7, KernelCCAssumption DEF WakeUp, Goto, Free, IInv, TypeOK, WInv,
     WaiterInv, NoOrphanSleeper, SignalledInv, InRing, Asleep, Signalling,
     Label
<1>8. ASSUME NEW t \in Threads, Relock(t)
      PROVE  WaiterInv' /\ NoOrphanSleeper' /\ SignalledInv'
  BY <1>8, KernelCCAssumption DEF Relock, Goto, LockKernelMutex, Free,
     IInv, TypeOK, WInv, WaiterInv, NoOrphanSleeper, SignalledInv, InRing,
     Asleep, Signalling, Label
<1>9. ASSUME NEW t \in Threads, LockRing(t)
      PROVE  WaiterInv' /\ NoOrphanSleeper' /\ SignalledInv'
  BY <1>9, KernelCCAssumption DEF LockRing, Goto, Free, IInv, TypeOK,
     WInv, WaiterInv, NoOrphanSleeper, SignalledInv, InRing, Asleep,
     Signalling, Label
<1>10. ASSUME NEW t \in Threads, SignalFirst(t)
      PROVE  WaiterInv' /\ NoOrphanSleeper' /\ SignalledInv'
  <2> DEFINE w == Head(waitset[call[t]])
  <2>1. /\ w \in Threads /\ w # t /\ pc[w] = "wake" /\ ~ removed[w] /\ pc[t] = "ring"
        /\ cv[w] = call[t]
    BY <1>10, SignalledWaiter
  <2>2. /\ removed' = [removed EXCEPT ![w] = TRUE]
        /\ state' = [state EXCEPT ![w] = IF @ = "STOPPED" THEN "RUNNING" ELSE @]
        /\ signalled' = [signalled EXCEPT ![w] = state[w] = "STOPPED"]
    BY <1>10 DEF SignalFirst, Woken
  <2>3. /\ \A u \in Threads \ {t} : pc'[u] = pc[u] /\ after'[u] = after[u]
        /\ pc'[t] \in {"ring", "user", "in", "push", "unlock", "exit"}
        /\ pc'[t] = "ring" => after'[t] = after[t]
        /\ cv' = cv /\ timed' = timed
    BY <1>10, SignalGoes
  <2> HIDE DEF w
  <2>4. WaiterInv'
    <3>1. ASSUME NEW u \in Threads
          PROVE  /\ state'[u] = "EXITED" => pc'[u] = "gone"
                 /\ pc'[u] \in {"release", "sleep"} => ~ removed'[u] /\ state'[u] # "STOPPED"
      BY <2>1, <2>2, <2>3 DEF IInv, TypeOK, WInv, WaiterInv, Asleep
    <3>2. ASSUME NEW u \in Threads
          PROVE  /\ pc'[u] = "wake" /\ ~ removed'[u] /\ state'[u] # "STOPPED" => timed'[u]
                 /\ Signalling(u)' /\ after'[u] = "push" => cv'[u] # SemCV
      BY <2>1, <2>2, <2>3 DEF IInv, TypeOK, WInv, WaiterInv, Asleep, Signalling
    <3> QED BY <3>1, <3>2 DEF WaiterInv, Asleep
  <2>5. NoOrphanSleeper'
    BY <2>1, <2>2, <2>3 DEF IInv, TypeOK, WInv, NoOrphanSleeper, Asleep, InRing
  <2>6. SignalledInv'
    BY <2>1, <2>2, <2>3 DEF IInv, TypeOK, WInv, WaiterInv, SignalledInv, Asleep, InRing
  <2> QED BY <2>4, <2>5, <2>6
<1>11. ASSUME NEW t \in Threads, RingEmpty(t)
      PROVE  WaiterInv' /\ NoOrphanSleeper' /\ SignalledInv'
  BY <1>11, KernelCCAssumption DEF RingEmpty, EndCall, Goto, IInv, TypeOK,
     WInv, WaiterInv, NoOrphanSleeper, SignalledInv, InRing, Asleep,
     Signalling, Label
<1>12. ASSUME NEW t \in Threads, EndUnlock(t)
      PROVE  WaiterInv' /\ NoOrphanSleeper' /\ SignalledInv'
  BY <1>12, KernelCCAssumption DEF EndUnlock, Goto, UnlockKernelMutex,
     IInv, TypeOK, WInv, WaiterInv, NoOrphanSleeper, SignalledInv, InRing,
     Asleep, Signalling, Label
<1>13. ASSUME NEW t \in Threads, SleepExited(t)
      PROVE  WaiterInv' /\ NoOrphanSleeper' /\ SignalledInv'
  BY <1>13, KernelCCAssumption DEF SleepExited, Goto, UnlockKernelMutex,
     IInv, TypeOK, WInv, WaiterInv, NoOrphanSleeper, SignalledInv, InRing,
     Asleep, Signalling, Label
<1>14. ASSUME NEW t \in Threads, kernel_lock(t)
      PROVE  WaiterInv' /\ NoOrphanSleeper' /\ SignalledInv'
  BY <1>14, KernelCCAssumption DEF kernel_lock, Goto, LockKernelMutex,
     Free, IInv, TypeOK, WInv, WaiterInv, NoOrphanSleeper, SignalledInv,
     InRing, Asleep, Signalling, Label
<1>15. ASSUME NEW t \in Threads, kernel_unlock(t)
      PROVE  WaiterInv' /\ NoOrphanSleeper' /\ SignalledInv'
  BY <1>15, KernelCCAssumption DEF kernel_unlock, ReleaseSem, StartCall,
     Goto, LockKernelMutex, Free, IInv, TypeOK, WInv, WaiterInv,
     NoOrphanSleeper, SignalledInv, InRing, Asleep, Signalling, Label
<1>16. ASSUME NEW t \in Threads, kernel_sleep(t)
      PROVE  WaiterInv' /\ NoOrphanSleeper' /\ SignalledInv'
  BY <1>16, KernelCCAssumption DEF kernel_sleep, ReleaseSem, StartCall,
     Goto, LockKernelMutex, Free, IInv, TypeOK, WInv, WaiterInv,
     NoOrphanSleeper, SignalledInv, InRing, Asleep, Signalling, Label
<1>17. ASSUME NEW t \in Threads, NEW k \in WaitCVs, HandlerBroadcast(t, k)
      PROVE  WaiterInv' /\ NoOrphanSleeper' /\ SignalledInv'
  BY <1>17, KernelCCAssumption DEF HandlerBroadcast, StartCall, Goto,
     IInv, TypeOK, WInv, WaiterInv, NoOrphanSleeper, SignalledInv, InRing,
     Asleep, Signalling, Label
<1>18. ASSUME NEW t \in Threads, NEW k \in WaitCVs, NEW b \in BOOLEAN,
            kernel_wait(t, k, b)
      PROVE  WaiterInv' /\ NoOrphanSleeper' /\ SignalledInv'
  BY <1>18, KernelCCAssumption DEF kernel_wait, ReleaseSem, StartCall,
     Goto, LockKernelMutex, Free, IInv, TypeOK, WInv, WaiterInv,
     NoOrphanSleeper, SignalledInv, InRing, Asleep, Signalling, Label
<1>19. ASSUME NEW t \in Threads, NEW k \in WaitCVs, NEW b \in BOOLEAN,
            kernel_signal(t, k, b)
      PROVE  WaiterInv' /\ NoOrphanSleeper' /\ SignalledInv'
  BY <1>19, KernelCCAssumption DEF kernel_signal, StartCall, Goto, IInv,
     TypeOK, WInv, WaiterInv, NoOrphanSleeper, SignalledInv, InRing, Asleep,
     Signalling, Label
<1>20. ASSUME NEW t \in Threads, Timeout(t)
      PROVE  WaiterInv' /\ NoOrphanSleeper' /\ SignalledInv'
  BY <1>20, KernelCCAssumption DEF Timeout, IInv, TypeOK, WInv, WaiterInv,
     NoOrphanSleeper, SignalledInv, InRing, Asleep, Signalling, Label
<1>21. CASE UNCHANGED vars
  BY <1>21 DEF vars, IInv, TypeOK, WInv, WaiterInv, NoOrphanSleeper,
     SignalledInv, InRing, Asleep, Signalling, Label
<1> QED
  BY <1>1, <1>2, <1>3, <1>4, <1>5, <1>6, <1>7, <1>8, <1>9, <1>10, <1>11,
     <1>12, <1>13, <1>14, <1>15, <1>16, <1>17, <1>18, <1>19, <1>20, <1>21 DEF
     Next, Step, Decision

\* No thread falls asleep on a free semaphore, and none that sleeps is forgotten.
LEMMA SemPreserved == IInv /\ WInv /\ [Next]_vars => SemInv'
<1> SUFFICES ASSUME IInv, WInv, [Next]_vars PROVE SemInv'
  OBVIOUS
<1>1. ASSUME NEW t \in Threads, FindSem(t)
      PROVE  SemInv'
  BY <1>1, KernelCCAssumption DEF FindSem, Goto, SemFree, IInv, TypeOK,
     LockInv, HasMutex, WInv, SemInv, PendingSem, Asleep, Signalling, Label
<1>2. ASSUME NEW t \in Threads, TakeSem(t)
      PROVE  SemInv'
  BY <1>2, KernelCCAssumption DEF TakeSem, Goto, UnlockKernelMutex, IInv,
     TypeOK, LockInv, HasMutex, WInv, SemInv, PendingSem, Asleep, Signalling,
     Label
<1>3. ASSUME NEW t \in Threads, WaitForSem(t)
      PROVE  SemInv'
  BY <1>3, KernelCCAssumption DEF WaitForSem, Goto, SemFree, IInv, TypeOK,
     LockInv, HasMutex, WInv, SemInv, PendingSem, Asleep, Signalling, Label
<1>4. ASSUME NEW t \in Threads, PushWaiter(t)
      PROVE  SemInv'
  BY <1>4, KernelCCAssumption DEF PushWaiter, Goto, Free, IInv, TypeOK,
     LockInv, HasMutex, WInv, SemInv, PendingSem, Asleep, Signalling, Label
<1>5. ASSUME NEW t \in Threads, ReleaseMutex(t)
      PROVE  SemInv'
  BY <1>5, KernelCCAssumption DEF ReleaseMutex, Goto, UnlockKernelMutex,
     IInv, TypeOK, LockInv, HasMutex, WInv, SemInv, PendingSem, Asleep,
     Signalling, Label
<1>6. ASSUME NEW t \in Threads, Sleep(t)
      PROVE  SemInv'
  BY <1>6, KernelCCAssumption DEF Sleep, Goto, IInv, TypeOK, LockInv,
     HasMutex, WInv, SemInv, PendingSem, Asleep, Signalling, Label
<1>7. ASSUME NEW t \in Threads, WakeUp(t)
      PROVE  SemInv'
  BY <1>7, KernelCCAssumption DEF WakeUp, Goto, Free, IInv, TypeOK,
     LockInv, HasMutex, WInv, SemInv, PendingSem, Asleep, Signalling, Label
<1>8. ASSUME NEW t \in Threads, Relock(t)
      PROVE  SemInv'
  BY <1>8, KernelCCAssumption DEF Relock, Goto, LockKernelMutex, Free,
     IInv, TypeOK, LockInv, HasMutex, WInv, SemInv, PendingSem, Asleep,
     Signalling, Label
<1>9. ASSUME NEW t \in Threads, LockRing(t)
      PROVE  SemInv'
  BY <1>9, KernelCCAssumption DEF LockRing, Goto, Free, IInv, TypeOK,
     LockInv, HasMutex, WInv, SemInv, PendingSem, Asleep, Signalling, Label
<1>10. ASSUME NEW t \in Threads, SignalFirst(t)
      PROVE  SemInv'
  <2> DEFINE w == Head(waitset[call[t]])
  <2>1. /\ w \in Threads /\ w # t /\ pc[w] = "wake" /\ pc[t] = "ring" /\ cv[w] = call[t]
    BY <1>10, SignalledWaiter
  <2>2. /\ state' = [state EXCEPT ![w] = IF @ = "STOPPED" THEN "RUNNING" ELSE @]
        /\ pc' = pc \/ state[w] = "STOPPED"
    BY <1>10 DEF SignalFirst, Woken
  <2>3. /\ \A u \in Threads \ {t} : pc'[u] = pc[u] /\ call'[u] = call[u]
        /\ \/ pc' = pc /\ call' = call
           \/ pc'[t] = after[t] /\ after[t] \in {"user", "in", "push", "unlock", "exit"}
        /\ cv' = cv /\ kernel_sem' = kernel_sem
    BY <1>10, SignalGoes
  <2> HIDE DEF w
  <2>4. \A u \in Threads : Asleep(u)' => Asleep(u)
    BY <2>1, <2>2 DEF IInv, TypeOK, Asleep
  <2>5. ASSUME NEW u \in Threads, pc'[u] \in {"push", "release"}, cv'[u] = SemCV
        PROVE  kernel_sem' = 0
    BY <2>1, <2>3, <2>5 DEF WInv, SemInv, WaiterInv, Signalling
  <2>6. ASSUME NEW u \in Threads, PendingSem(u)
        PROVE  \E v \in Threads : PendingSem(v)'
    <3>1. CASE u # t
      <4>1. PendingSem(u)'
        BY <2>3, <2>4, <2>6, <3>1 DEF PendingSem, Signalling
      <4> QED BY <4>1
    <3>2. CASE u = t /\ pc' = pc
      BY <2>1, <2>2, <2>3, <2>6, <3>2 DEF PendingSem, Signalling
    <3>3. CASE u = t /\ pc' # pc
      <4>1. call[t] = SemCV /\ state'[w] = "RUNNING"
        BY <2>1, <2>2, <2>6, <3>3 DEF IInv, TypeOK, PendingSem, Signalling
      <4> QED BY <4>1, <2>1, <2>3 DEF PendingSem, Asleep
    <3> QED BY <3>1, <3>2, <3>3
  <2>7. \A u \in Threads : pc'[u] = "sleep" => pc[u] = "sleep"
    BY <2>1, <2>3
  <2> QED BY <2>3, <2>4, <2>5, <2>6, <2>7 DEF WInv, SemInv
<1>11. ASSUME NEW t \in Threads, RingEmpty(t)
      PROVE  SemInv'
  <2>1. /\ pc[t] = "ring" /\ waitset[call[t]] = <<>> /\ state' = state /\ removed' = removed
        /\ call[t] \in CV
    BY <1>11, SignalGoes DEF RingEmpty
  <2>2. /\ \A u \in Threads \ {t} : pc'[u] = pc[u] /\ call'[u] = call[u]
        /\ pc'[t] = after[t] /\ after[t] \in {"user", "in", "push", "unlock", "exit"}
        /\ cv' = cv /\ kernel_sem' = kernel_sem
    BY <1>11, SignalGoes DEF RingEmpty, EndCall, Goto, IInv, TypeOK
  <2>3. \A u \in Threads : cv[u] = call[t] => ~ Asleep(u) /\ pc[u] # "sleep"
    <3>1. Members(waitset[call[t]]) = {}
      BY <2>1 DEF Members
    <3> QED BY <2>1, <3>1 DEF IInv, RingInv, WInv, NoOrphanSleeper, WaiterInv, InRing
  <2>4. ASSUME NEW u \in Threads, pc'[u] \in {"push", "release"}, cv'[u] = SemCV
        PROVE  kernel_sem' = 0
    BY <2>1, <2>2, <2>4 DEF WInv, SemInv, WaiterInv, Signalling
  <2>5. ASSUME NEW u \in Threads, PendingSem(u), call[t] # SemCV
        PROVE  PendingSem(u)'
    BY <2>1, <2>2, <2>5 DEF PendingSem, Signalling, Asleep
  <2> QED BY <2>1, <2>2, <2>3, <2>4, <2>5 DEF WInv, SemInv, Asleep
<1>12. ASSUME NEW t \in Threads, EndUnlock(t)
      PROVE  SemInv'
  BY <1>12, KernelCCAssumption DEF EndUnlock, Goto, UnlockKernelMutex,
     IInv, TypeOK, LockInv, HasMutex, WInv, SemInv, PendingSem, Asleep,
     Signalling, Label
<1>13. ASSUME NEW t \in Threads, SleepExited(t)
      PROVE  SemInv'
  BY <1>13, KernelCCAssumption DEF SleepExited, Goto, UnlockKernelMutex,
     IInv, TypeOK, LockInv, HasMutex, WInv, SemInv, PendingSem, Asleep,
     Signalling, Label
<1>14. ASSUME NEW t \in Threads, kernel_lock(t)
      PROVE  SemInv'
  BY <1>14, KernelCCAssumption DEF kernel_lock, Goto, LockKernelMutex,
     Free, IInv, TypeOK, LockInv, HasMutex, WInv, SemInv, PendingSem, Asleep,
     Signalling, Label
<1>15. ASSUME NEW t \in Threads, kernel_unlock(t)
      PROVE  SemInv'
  BY <1>15, KernelCCAssumption DEF kernel_unlock, ReleaseSem, StartCall,
     Goto, LockKernelMutex, Free, IInv, TypeOK, LockInv, HasMutex, WInv,
     SemInv, PendingSem, Asleep, Signalling, Label
<1>16. ASSUME NEW t \in Threads, kernel_sleep(t)
      PROVE  SemInv'
  BY <1>16, KernelCCAssumption DEF kernel_sleep, ReleaseSem, StartCall,
     Goto, LockKernelMutex, Free, IInv, TypeOK, LockInv, HasMutex, WInv,
     SemInv, PendingSem, Asleep, Signalling, Label
<1>17. ASSUME NEW t \in Threads, NEW k \in WaitCVs, HandlerBroadcast(t, k)
      PROVE  SemInv'
  BY <1>17, KernelCCAssumption DEF HandlerBroadcast, StartCall, Goto,
     IInv, TypeOK, LockInv, HasMutex, WInv, SemInv, PendingSem, Asleep,
     Signalling, Label
<1>18. ASSUME NEW t \in Threads, NEW k \in WaitCVs, NEW b \in BOOLEAN,
            kernel_wait(t, k, b)
      PROVE  SemInv'
  BY <1>18, KernelCCAssumption DEF kernel_wait, ReleaseSem, StartCall,
     Goto, LockKernelMutex, Free, IInv, TypeOK, LockInv, HasMutex, WInv,
     SemInv, PendingSem, Asleep, Signalling, Label
<1>19. ASSUME NEW t \in Threads, NEW k \in WaitCVs, NEW b \in BOOLEAN,
            kernel_signal(t, k, b)
      PROVE  SemInv'
  BY <1>19, KernelCCAssumption DEF kernel_signal, StartCall, Goto, IInv,
     TypeOK, LockInv, HasMutex, WInv, SemInv, PendingSem, Asleep, Signalling,
     Label
<1>20. ASSUME NEW t \in Threads, Timeout(t)
      PROVE  SemInv'
  BY <1>20, KernelCCAssumption DEF Timeout, IInv, TypeOK, LockInv,
     HasMutex, WInv, SemInv, PendingSem, Asleep, Signalling, Label
<1>21. CASE UNCHANGED vars
  BY <1>21 DEF vars, IInv, TypeOK, LockInv, HasMutex, WInv, SemInv,
     PendingSem, Asleep, Signalling, Label
<1> QED
  BY <1>1, <1>2, <1>3, <1>4, <1>5, <1>6, <1>7, <1>8, <1>9, <1>10, <1>11,
     <1>12, <1>13, <1>14, <1>15, <1>16, <1>17, <1>18, <1>19, <1>20, <1>21 DEF
     Next, Step, Decision

\* WInv holds in every reachable state.
LEMMA WakeInvariant == Spec => []WInv
<1>1. Init => WInv
  BY KernelCCAssumption DEF Init, WInv, OwnerInv, WaiterInv, NoOrphanSleeper,
     SignalledInv, SemInv, PendingSem, InRing, Asleep, Signalling
<1>2. IInv /\ WInv /\ [Next]_vars => WInv'
  BY OwnerPreserved, WaiterPreserved, SemPreserved DEF WInv
<1> QED BY <1>1, <1>2, Invariant, PTL DEF Spec

\* No wake-up is lost or given twice, for any number of threads and condition variables.
THEOREM WakeUps == Spec => []WakeInv
<1>1. WInv => WakeInv
  BY DEF WInv, SemInv, PendingSem, WakeInv, SemWakeupPending
<1> QED BY <1>1, WakeInvariant, PTL

\* A step moves only the thread that takes it, and a thread leaves its
\* signalling loop only by the two steps of that loop.
LEMMA OwnSteps ==
  ASSUME IInv, [Next]_vars, NEW t \in Threads, pc[t] = "ring", pc'[t] # "ring"
  PROVE  SignalFirst(t) \/ RingEmpty(t)
<1>1. ASSUME NEW u \in Threads, Step(u) \/ Decision(u), u # t
      PROVE  pc'[t] = pc[t]
  <2>1. CASE SignalFirst(u) \/ RingEmpty(u)
    BY <1>1, <2>1, SignalGoes
  <2>2. CASE ~ (SignalFirst(u) \/ RingEmpty(u))
    BY <1>1, <2>2 DEF IInv, TypeOK, Step, Decision, Timeout, EndUnlock,
       FindSem, Free, Goto, HandlerBroadcast, LockKernelMutex, LockRing,
       PushWaiter, ReleaseMutex, ReleaseSem, Relock, SemFree, Sleep,
       SleepExited, StartCall, TakeSem, UnlockKernelMutex, WaitForSem,
       WakeUp, kernel_lock, kernel_signal, kernel_sleep, kernel_unlock,
       kernel_wait
  <2> QED BY <2>1, <2>2
<1>2. PICK u \in Threads : Step(u) \/ Decision(u)
  BY DEF Next, vars
<1>3. u = t
  BY <1>1, <1>2
<1> QED
  BY <1>2, <1>3 DEF IInv, TypeOK, Step, Decision, Timeout, EndUnlock,
     FindSem, Free, Goto, HandlerBroadcast, LockKernelMutex, LockRing,
     PushWaiter, ReleaseMutex, ReleaseSem, Relock, SemFree, Sleep,
     SleepExited, StartCall, TakeSem, UnlockKernelMutex, WaitForSem, WakeUp,
     kernel_lock, kernel_signal, kernel_sleep, kernel_unlock, kernel_wait

\* A signal or broadcast that returns has woken a thread, or none sleeps on the
\* condition variable any more: by WInv every sleeper is in its ring, and the
\* waiters that a signal passes over were not asleep.
THEOREM SignalsReach == Spec => SignalReaches
<1> DEFINE Reaches(t) == \/ ~ all[t] /\ \E u \in Threads : Asleep(u) /\ ~ Asleep(u)'
                         \/ \A u \in Threads : ~ (Asleep(u) /\ cv[u] = call[t])
<1>1. ASSUME IInv, WInv, [Next]_vars, NEW t \in Threads, pc[t] = "ring", pc'[t] # "ring"
      PROVE  Reaches(t)
  <2>1. CASE SignalFirst(t)
    <3> DEFINE w == Head(waitset[call[t]])
    <3>1. w \in Threads
      BY <2>1, <1>1, SignalledWaiter
    <3>2. /\ ~ all[t] /\ state[w] = "STOPPED"
          /\ state' = [state EXCEPT ![w] = IF @ = "STOPPED" THEN "RUNNING" ELSE @]
      BY <1>1, <2>1 DEF SignalFirst, Woken
    <3> HIDE DEF w
    <3> QED BY <1>1, <3>1, <3>2 DEF IInv, TypeOK, Asleep
  <2>2. CASE RingEmpty(t)
    <3>1. Members(waitset[call[t]]) = {} /\ call[t] \in CV
      BY <1>1, <2>2, SignalGoes DEF RingEmpty, Members
    <3> QED BY <1>1, <3>1 DEF IInv, RingInv, WInv, NoOrphanSleeper
  <2> QED BY <1>1, <2>1, <2>2, OwnSteps
<1>2. IInv /\ WInv /\ [Next]_vars =>
        [\A t \in Threads : pc[t] = "ring" /\ pc'[t] # "ring" => Reaches(t)]_vars
  BY <1>1
<1> QED BY <1>2, Invariant, WakeInvariant, PTL DEF Spec, SignalReaches

-----------------------------------------------------------------------------
(***************************************************************************)
(* KernelCC implements KernelLock: kernel_cc.c's mutex, rings and          *)
(* semaphore make the kernel a monitor.                                    *)
(*                                                                         *)
(* The monitor's variables are functions of a thread's own fields          *)
(* (WhereOf, CallOf), so a step is mapped by looking at the threads whose  *)
(* fields it changes: the one that takes it and, in a signal, the one it   *)
(* wakes.  The lemmas Moves to WakesOne turn such a change into an action  *)
(* of the monitor; LockStep shows for each action which one it is.  A      *)
(* signal that finds the ring empty may end only because nobody waits in   *)
(* the monitor's sense, who is not in the ring yet included; that          *)
(* kernel_wait has no such moment follows from kernel_sem and CallerInv.   *)
(***************************************************************************)

\* Whom a call signals is decided by where it was made: inside the kernel or by
\* an interrupt handler, a condition variable of the programs; on the way out of
\* the kernel, the semaphore's.
CallerInv == \A t \in Threads :
  /\ Signalling(t) => IF after[t] \in {"in", "user"}
                      THEN call[t] \in WaitCVs ELSE call[t] = SemCV /\ kernel_sem = 1
  /\ pc[t] \in {"push", "release"} /\ cv[t] # SemCV => kernel_sem = 1

\* The fields of u that the monitor's view of it depends on.
Same(u) == /\ pc'[u] = pc[u] /\ state'[u] = state[u] /\ cv'[u] = cv[u]
           /\ timed'[u] = timed[u] /\ call'[u] = call[u] /\ all'[u] = all[u]
           /\ after'[u] = after[u]

\* The monitor's timed and all, of one thread, and what it sees of a thread.
TimedOf(t) == WhereOf(t) \in WaitCVs /\ timed[t]
AllOf(t) == CallOf(t) # NoCV /\ all[t]

SameCall(u) == CallOf(u)' = CallOf(u) /\ (AllOf(u)' <=> AllOf(u))
SameView(u) == WhereOf(u)' = WhereOf(u) /\ (TimedOf(u)' <=> TimedOf(u)) /\ SameCall(u)

\* The monitor sees of a thread only the fields Same compares.
LEMMA SameSees == ASSUME NEW u, Same(u) PROVE SameView(u)
BY DEF Same, SameView, SameCall, WhereOf, TimedOf, CallOf, AllOf, InKernel, Signalling, Asleep

\* A step that changes no thread's view is a stutter of the monitor.
LEMMA Stutters ==
  ASSUME \A u \in Threads : SameView(u)
  PROVE  UNCHANGED Lock!vars
<1>1. \A u \in Threads : TimedOf(u)' = TimedOf(u) /\ AllOf(u)' = AllOf(u)
  BY DEF SameView, SameCall, TimedOf, AllOf
<1> QED BY <1>1 DEF Lock!vars, SameView, SameCall, TimedOf, AllOf

\* The monitor's variables when every thread but t keeps its view.
LEMMA Changes ==
  ASSUME NEW t \in Threads, \A u \in Threads \ {t} : SameView(u)
  PROVE  /\ [u \in Threads |-> WhereOf(u)]' = [[u \in Threads |-> WhereOf(u)] EXCEPT ![t] = WhereOf(t)']
         /\ [u \in Threads |-> TimedOf(u)]' = [[u \in Threads |-> TimedOf(u)] EXCEPT ![t] = TimedOf(t)']
         /\ [u \in Threads |-> CallOf(u)]' = [[u \in Threads |-> CallOf(u)] EXCEPT ![t] = CallOf(t)']
         /\ [u \in Threads |-> AllOf(u)]' = [[u \in Threads |-> AllOf(u)] EXCEPT ![t] = AllOf(t)']
<1>1. [u \in Threads |-> WhereOf(u)]' = [[u \in Threads |-> WhereOf(u)] EXCEPT ![t] = WhereOf(t)']
  BY DEF SameView
<1>2. [u \in Threads |-> TimedOf(u)]' = [[u \in Threads |-> TimedOf(u)] EXCEPT ![t] = TimedOf(t)']
  BY DEF SameView, TimedOf
<1>3. [u \in Threads |-> CallOf(u)]' = [[u \in Threads |-> CallOf(u)] EXCEPT ![t] = CallOf(t)']
  BY DEF SameView, SameCall
<1>4. [u \in Threads |-> AllOf(u)]' = [[u \in Threads |-> AllOf(u)] EXCEPT ![t] = AllOf(t)']
  BY DEF SameView, SameCall, AllOf
<1> QED BY <1>1, <1>2, <1>3, <1>4

\* A thread goes from one place of the monitor to the next.
LEMMA Moves ==
  ASSUME NEW t \in Threads, \A u \in Threads \ {t} : SameView(u), SameCall(t), TimedOf(t)' <=> TimedOf(t)
  PROVE  /\ WhereOf(t) = "user" /\ WhereOf(t)' = "entering" => Lock!Call(t)
         /\ WhereOf(t) = "entering" /\ WhereOf(t)' = "in" /\ (\A u \in Threads : WhereOf(u) # "in") => Lock!Enter(t)
         /\ WhereOf(t) = "in" /\ CallOf(t) = NoCV /\ WhereOf(t)' \in {"user", "gone"} => Lock!Leave(t)
<1> DEFINE W == [u \in Threads |-> WhereOf(u)]
<1>1. W' = [W EXCEPT ![t] = WhereOf(t)']
  BY DEF SameView
<1>2. \A u \in Threads : TimedOf(u)' = TimedOf(u) /\ AllOf(u)' = AllOf(u) /\ CallOf(u)' = CallOf(u)
  BY DEF SameView, SameCall, TimedOf, AllOf
<1>3. /\ [u \in Threads |-> TimedOf(u)]' = [u \in Threads |-> TimedOf(u)]
      /\ [u \in Threads |-> CallOf(u)]' = [u \in Threads |-> CallOf(u)]
      /\ [u \in Threads |-> AllOf(u)]' = [u \in Threads |-> AllOf(u)]
  BY <1>2
<1>4. WhereOf(t) = "user" /\ WhereOf(t)' = "entering" => Lock!Call(t)
  BY <1>1, <1>3 DEF Lock!Call, TimedOf, AllOf
<1>5. WhereOf(t) = "entering" /\ WhereOf(t)' = "in" /\ (\A u \in Threads : WhereOf(u) # "in") => Lock!Enter(t)
  BY <1>1, <1>3 DEF Lock!Enter, TimedOf, AllOf
<1>6. WhereOf(t) = "in" /\ CallOf(t) = NoCV /\ WhereOf(t)' \in {"user", "gone"} => Lock!Leave(t)
  BY <1>1, <1>3 DEF Lock!Leave, Lock!Inside, TimedOf, AllOf
<1> QED BY <1>4, <1>5, <1>6

\* A thread inside the kernel starts waiting.
LEMMA Waits ==
  ASSUME NEW t \in Threads, \A u \in Threads \ {t} : SameView(u), SameCall(t),
         WhereOf(t) = "in", CallOf(t) = NoCV, WhereOf(t)' \in WaitCVs
  PROVE  Lock!Wait(t)
<1>1. [u \in Threads |-> WhereOf(u)]' = [[u \in Threads |-> WhereOf(u)] EXCEPT ![t] = WhereOf(t)']
  BY DEF SameView
<1>2. [u \in Threads |-> TimedOf(u)]' = [[u \in Threads |-> TimedOf(u)] EXCEPT ![t] = TimedOf(t)']
  BY DEF SameView, TimedOf
<1>3. /\ [u \in Threads |-> CallOf(u)]' = [u \in Threads |-> CallOf(u)]
      /\ [u \in Threads |-> AllOf(u)]' = [u \in Threads |-> AllOf(u)]
  BY DEF SameView, SameCall, AllOf
<1> QED BY <1>1, <1>2, <1>3 DEF Lock!Wait, Lock!Inside, TimedOf, AllOf

\* A thread inside the kernel starts a signal or a broadcast.
LEMMA Signals ==
  ASSUME NEW t \in Threads, \A u \in Threads \ {t} : SameView(u),
         WhereOf(t) = "in", WhereOf(t)' = "in", TimedOf(t)' <=> TimedOf(t),
         CallOf(t) = NoCV, CallOf(t)' \in WaitCVs
  PROVE  Lock!StartSignal(t)
<1>1. [u \in Threads |-> CallOf(u)]' = [[u \in Threads |-> CallOf(u)] EXCEPT ![t] = CallOf(t)']
  BY DEF SameView, SameCall
<1>2. [u \in Threads |-> AllOf(u)]' = [[u \in Threads |-> AllOf(u)] EXCEPT ![t] = AllOf(t)']
  BY DEF SameView, SameCall, AllOf
<1>3. /\ [u \in Threads |-> WhereOf(u)]' = [u \in Threads |-> WhereOf(u)]
      /\ [u \in Threads |-> TimedOf(u)]' = [u \in Threads |-> TimedOf(u)]
  BY DEF SameView, TimedOf
<1> QED BY <1>1, <1>2, <1>3 DEF Lock!StartSignal, Lock!Inside, TimedOf, AllOf

\* A signal or broadcast ends, nobody waiting.
LEMMA Ends ==
  ASSUME NEW t \in Threads, \A u \in Threads \ {t} : SameView(u), ~ AllOf(t)',
         WhereOf(t)' = WhereOf(t), TimedOf(t)' <=> TimedOf(t),
         CallOf(t) # NoCV, CallOf(t)' = NoCV, \A u \in Threads : WhereOf(u) # CallOf(t)
  PROVE  Lock!EndSignal(t)
<1>1. [u \in Threads |-> CallOf(u)]' = [[u \in Threads |-> CallOf(u)] EXCEPT ![t] = CallOf(t)']
  BY Changes
<1>2. [u \in Threads |-> AllOf(u)]' = [[u \in Threads |-> AllOf(u)] EXCEPT ![t] = FALSE]
  BY DEF SameView, SameCall, AllOf
<1>3. /\ [u \in Threads |-> WhereOf(u)]' = [u \in Threads |-> WhereOf(u)]
      /\ [u \in Threads |-> TimedOf(u)]' = [u \in Threads |-> TimedOf(u)]
  BY DEF SameView, TimedOf
<1> QED BY <1>1, <1>2, <1>3 DEF Lock!EndSignal, Lock!Waiting, TimedOf, AllOf

\* A waiter stops waiting and nothing else changes: a timeout or a handler.
LEMMA Wakes ==
  ASSUME NEW w \in Threads, \A u \in Threads \ {w} : SameView(u), SameCall(w),
         WhereOf(w) \in WaitCVs, WhereOf(w)' = "entering", ~ TimedOf(w)'
  PROVE  Lock!Handler(w)
<1>1. [u \in Threads |-> WhereOf(u)]' = [[u \in Threads |-> WhereOf(u)] EXCEPT ![w] = "entering"]
  BY DEF SameView
<1>2. [u \in Threads |-> TimedOf(u)]' = [[u \in Threads |-> TimedOf(u)] EXCEPT ![w] = FALSE]
  BY DEF SameView, TimedOf
<1>3. /\ [u \in Threads |-> CallOf(u)]' = [u \in Threads |-> CallOf(u)]
      /\ [u \in Threads |-> AllOf(u)]' = [u \in Threads |-> AllOf(u)]
  BY DEF SameView, SameCall, AllOf
<1> QED BY <1>1, <1>2, <1>3 DEF Lock!Handler, Lock!StopsWaiting, TimedOf, AllOf

\* A signal wakes one waiter and is over, unless it is a broadcast.
LEMMA WakesOne ==
  ASSUME NEW t \in Threads, NEW w \in Threads, w # t,
         \A u \in Threads \ {t, w} : SameView(u), SameCall(w),
         WhereOf(t)' = WhereOf(t), TimedOf(t)' <=> TimedOf(t),
         CallOf(t) # NoCV, WhereOf(w) = CallOf(t), WhereOf(w)' = "entering", ~ TimedOf(w)',
         AllOf(t)' <=> AllOf(t), CallOf(t)' = IF AllOf(t) THEN CallOf(t) ELSE NoCV
  PROVE  Lock!WakeOne(t)
<1>1. [u \in Threads |-> WhereOf(u)]' = [[u \in Threads |-> WhereOf(u)] EXCEPT ![w] = "entering"]
  BY DEF SameView
<1>2. [u \in Threads |-> TimedOf(u)]' = [[u \in Threads |-> TimedOf(u)] EXCEPT ![w] = FALSE]
  BY DEF SameView, TimedOf
<1>3. [u \in Threads |-> CallOf(u)]' =
        [[u \in Threads |-> CallOf(u)] EXCEPT ![t] = IF AllOf(t) THEN @ ELSE NoCV]
  BY DEF SameView, SameCall
<1>4. [u \in Threads |-> AllOf(u)]' = [u \in Threads |-> AllOf(u)]
  BY DEF SameView, SameCall, AllOf
<1> QED BY <1>1, <1>2, <1>3, <1>4 DEF Lock!WakeOne, Lock!Waiting, Lock!StopsWaiting, TimedOf, AllOf

\* An empty ring: nobody waits there, in the monitor's view either.
LEMMA NobodyWaits ==
  ASSUME IInv, WInv, CallerInv, NEW k \in WaitCVs, waitset[k] = <<>>, NEW t \in Threads, pc[t] = "ring", after[t] = "in"
  PROVE  \A u \in Threads : WhereOf(u) # k
<1>1. ASSUME NEW u \in Threads, WhereOf(u) = k
      PROVE  FALSE
  <2>1. kernel_sem = 0 /\ u # t
    BY <1>1, PlacesAssumption DEF IInv, KernelExclusion, InKernel, Signalling, WhereOf, CV
  <2>2. ~ (cv[u] = k /\ InRing(u))
    BY DEF IInv, RingInv, Members, CV
  <2>3. /\ cv[u] = k
        /\ \/ Signalling(u) /\ after[u] = "push"
           \/ pc[u] \in {"push", "release", "sleep"}
           \/ pc[u] = "wake" /\ Asleep(u)
    BY <1>1, PlacesAssumption, KernelCCAssumption DEF WhereOf, CV
  <2> QED BY <2>1, <2>2, <2>3, KernelCCAssumption
          DEF CallerInv, WInv, WaiterInv, NoOrphanSleeper, InRing
<1> QED BY <1>1

\* CallerInv is inductive over IInv and WInv.
LEMMA CallerPreserved == IInv /\ WInv /\ CallerInv /\ [Next]_vars => CallerInv'
<1> SUFFICES ASSUME IInv, WInv, CallerInv, [Next]_vars PROVE CallerInv'
  OBVIOUS
<1>1. ASSUME NEW t \in Threads, FindSem(t)
      PROVE  CallerInv'
  BY <1>1, KernelCCAssumption DEF FindSem, Goto, SemFree, IInv, TypeOK,
     LockInv, TakeInv, HasMutex, KernelExclusion, InKernel, WInv, WaiterInv,
     CallerInv, Signalling, Label
<1>2. ASSUME NEW t \in Threads, TakeSem(t)
      PROVE  CallerInv'
  BY <1>2, KernelCCAssumption DEF TakeSem, Goto, UnlockKernelMutex, IInv,
     TypeOK, LockInv, TakeInv, HasMutex, KernelExclusion, InKernel, WInv,
     WaiterInv, CallerInv, Signalling, Label
<1>3. ASSUME NEW t \in Threads, WaitForSem(t)
      PROVE  CallerInv'
  BY <1>3, KernelCCAssumption DEF WaitForSem, Goto, SemFree, IInv, TypeOK,
     LockInv, TakeInv, HasMutex, KernelExclusion, InKernel, WInv, WaiterInv,
     CallerInv, Signalling, Label
<1>4. ASSUME NEW t \in Threads, PushWaiter(t)
      PROVE  CallerInv'
  BY <1>4, KernelCCAssumption DEF PushWaiter, Goto, Free, IInv, TypeOK,
     LockInv, TakeInv, HasMutex, KernelExclusion, InKernel, WInv, WaiterInv,
     CallerInv, Signalling, Label
<1>5. ASSUME NEW t \in Threads, ReleaseMutex(t)
      PROVE  CallerInv'
  BY <1>5, KernelCCAssumption DEF ReleaseMutex, Goto, UnlockKernelMutex,
     IInv, TypeOK, LockInv, TakeInv, HasMutex, KernelExclusion, InKernel,
     WInv, WaiterInv, CallerInv, Signalling, Label
<1>6. ASSUME NEW t \in Threads, Sleep(t)
      PROVE  CallerInv'
  BY <1>6, KernelCCAssumption DEF Sleep, Goto, IInv, TypeOK, LockInv,
     TakeInv, HasMutex, KernelExclusion, InKernel, WInv, WaiterInv,
     CallerInv, Signalling, Label
<1>7. ASSUME NEW t \in Threads, WakeUp(t)
      PROVE  CallerInv'
  BY <1>7, KernelCCAssumption DEF WakeUp, Goto, Free, IInv, TypeOK,
     LockInv, TakeInv, HasMutex, KernelExclusion, InKernel, WInv, WaiterInv,
     CallerInv, Signalling, Label
<1>8. ASSUME NEW t \in Threads, Relock(t)
      PROVE  CallerInv'
  BY <1>8, KernelCCAssumption DEF Relock, Goto, LockKernelMutex, Free,
     IInv, TypeOK, LockInv, TakeInv, HasMutex, KernelExclusion, InKernel,
     WInv, WaiterInv, CallerInv, Signalling, Label
<1>9. ASSUME NEW t \in Threads, LockRing(t)
      PROVE  CallerInv'
  BY <1>9, KernelCCAssumption DEF LockRing, Goto, Free, IInv, TypeOK,
     LockInv, TakeInv, HasMutex, KernelExclusion, InKernel, WInv, WaiterInv,
     CallerInv, Signalling, Label
<1>10. ASSUME NEW t \in Threads, SignalFirst(t)
      PROVE  CallerInv'
  <2>1. /\ pc[t] = "ring" /\ cv' = cv /\ kernel_sem' = kernel_sem
        /\ \A u \in Threads \ {t} : /\ pc'[u] = pc[u] /\ call'[u] = call[u]
                                    /\ after'[u] = after[u]
        /\ \/ pc'[t] = after[t] /\ after[t] \in {"user", "in", "push", "unlock", "exit"}
           \/ pc' = pc /\ call' = call /\ after' = after
    BY <1>10, SignalGoes
  <2>2. ASSUME NEW u \in Threads, u # t
        PROVE  /\ Signalling(u)' <=> Signalling(u)
               /\ call'[u] = call[u] /\ after'[u] = after[u] /\ pc'[u] = pc[u] /\ cv'[u] = cv[u]
    BY <2>1, <2>2 DEF Signalling
  <2>3. CASE pc'[t] = after[t] /\ after[t] \in {"user", "in", "push", "unlock", "exit"}
    BY <2>1, <2>2, <2>3 DEF CallerInv, Signalling
  <2>4. CASE pc' = pc /\ call' = call /\ after' = after
    BY <2>1, <2>4 DEF CallerInv, Signalling
  <2> QED BY <2>1, <2>3, <2>4
<1>11. ASSUME NEW t \in Threads, RingEmpty(t)
      PROVE  CallerInv'
  <2>1. /\ pc[t] = "ring" /\ cv' = cv /\ kernel_sem' = kernel_sem
        /\ \A u \in Threads \ {t} : /\ pc'[u] = pc[u] /\ call'[u] = call[u]
                                    /\ after'[u] = after[u]
        /\ \/ pc'[t] = after[t] /\ after[t] \in {"user", "in", "push", "unlock", "exit"}
           \/ pc' = pc /\ call' = call /\ after' = after
    BY <1>11, SignalGoes
  <2>2. ASSUME NEW u \in Threads, u # t
        PROVE  /\ Signalling(u)' <=> Signalling(u)
               /\ call'[u] = call[u] /\ after'[u] = after[u] /\ pc'[u] = pc[u] /\ cv'[u] = cv[u]
    BY <2>1, <2>2 DEF Signalling
  <2>3. CASE pc'[t] = after[t] /\ after[t] \in {"user", "in", "push", "unlock", "exit"}
    BY <2>1, <2>2, <2>3 DEF CallerInv, Signalling
  <2>4. CASE pc' = pc /\ call' = call /\ after' = after
    BY <2>1, <2>4 DEF CallerInv, Signalling
  <2> QED BY <2>1, <2>3, <2>4
<1>12. ASSUME NEW t \in Threads, EndUnlock(t)
      PROVE  CallerInv'
  BY <1>12, KernelCCAssumption DEF EndUnlock, Goto, UnlockKernelMutex,
     IInv, TypeOK, LockInv, TakeInv, HasMutex, KernelExclusion, InKernel,
     WInv, WaiterInv, CallerInv, Signalling, Label
<1>13. ASSUME NEW t \in Threads, SleepExited(t)
      PROVE  CallerInv'
  BY <1>13, KernelCCAssumption DEF SleepExited, Goto, UnlockKernelMutex,
     IInv, TypeOK, LockInv, TakeInv, HasMutex, KernelExclusion, InKernel,
     WInv, WaiterInv, CallerInv, Signalling, Label
<1>14. ASSUME NEW t \in Threads, kernel_lock(t)
      PROVE  CallerInv'
  BY <1>14, KernelCCAssumption DEF kernel_lock, Goto, LockKernelMutex,
     Free, IInv, TypeOK, LockInv, TakeInv, HasMutex, KernelExclusion,
     InKernel, WInv, WaiterInv, CallerInv, Signalling, Label
<1>15. ASSUME NEW t \in Threads, kernel_unlock(t)
      PROVE  CallerInv'
  BY <1>15, KernelCCAssumption DEF kernel_unlock, ReleaseSem, StartCall,
     Goto, LockKernelMutex, Free, IInv, TypeOK, LockInv, TakeInv, HasMutex,
     KernelExclusion, InKernel, WInv, WaiterInv, CallerInv, Signalling, Label
<1>16. ASSUME NEW t \in Threads, kernel_sleep(t)
      PROVE  CallerInv'
  BY <1>16, KernelCCAssumption DEF kernel_sleep, ReleaseSem, StartCall,
     Goto, LockKernelMutex, Free, IInv, TypeOK, LockInv, TakeInv, HasMutex,
     KernelExclusion, InKernel, WInv, WaiterInv, CallerInv, Signalling, Label
<1>17. ASSUME NEW t \in Threads, NEW k \in WaitCVs, HandlerBroadcast(t, k)
      PROVE  CallerInv'
  BY <1>17, KernelCCAssumption DEF HandlerBroadcast, StartCall, Goto,
     IInv, TypeOK, LockInv, TakeInv, HasMutex, KernelExclusion, InKernel,
     WInv, WaiterInv, CallerInv, Signalling, Label
<1>18. ASSUME NEW t \in Threads, NEW k \in WaitCVs, NEW b \in BOOLEAN,
            kernel_wait(t, k, b)
      PROVE  CallerInv'
  BY <1>18, KernelCCAssumption DEF kernel_wait, ReleaseSem, StartCall,
     Goto, LockKernelMutex, Free, IInv, TypeOK, LockInv, TakeInv, HasMutex,
     KernelExclusion, InKernel, WInv, WaiterInv, CallerInv, Signalling, Label
<1>19. ASSUME NEW t \in Threads, NEW k \in WaitCVs, NEW b \in BOOLEAN,
            kernel_signal(t, k, b)
      PROVE  CallerInv'
  BY <1>19, KernelCCAssumption DEF kernel_signal, StartCall, Goto, IInv,
     TypeOK, LockInv, TakeInv, HasMutex, KernelExclusion, InKernel, WInv,
     WaiterInv, CallerInv, Signalling, Label
<1>20. ASSUME NEW t \in Threads, Timeout(t)
      PROVE  CallerInv'
  BY <1>20, KernelCCAssumption DEF Timeout, IInv, TypeOK, LockInv,
     TakeInv, HasMutex, KernelExclusion, InKernel, WInv, WaiterInv,
     CallerInv, Signalling, Label
<1>21. CASE UNCHANGED vars
  BY <1>21 DEF vars, IInv, TypeOK, LockInv, TakeInv, HasMutex,
     KernelExclusion, InKernel, WInv, WaiterInv, CallerInv, Signalling, Label
<1> QED
  BY <1>1, <1>2, <1>3, <1>4, <1>5, <1>6, <1>7, <1>8, <1>9, <1>10, <1>11,
     <1>12, <1>13, <1>14, <1>15, <1>16, <1>17, <1>18, <1>19, <1>20, <1>21 DEF
     Next, Step, Decision

\* A step changes nobody but the thread that takes it, unless it wakes a waiter.
LEMMA OthersSame ==
  ASSUME IInv, NEW t \in Threads, Step(t) \/ Decision(t), ~ SignalFirst(t)
  PROVE  \A u \in Threads \ {t} : Same(u)
<1>1. CASE RingEmpty(t)
  BY <1>1 DEF RingEmpty, EndCall, Goto, IInv, TypeOK, Same
<1>2. CASE Step(t) /\ ~ RingEmpty(t)
  BY <1>2 DEF IInv, TypeOK, Step, Same, EndUnlock, FindSem, Goto,
     LockKernelMutex, LockRing, PushWaiter, ReleaseMutex, Relock, Sleep,
     SleepExited, TakeSem, UnlockKernelMutex, WaitForSem, WakeUp
<1>3. CASE Decision(t)
  BY <1>3 DEF IInv, TypeOK, Decision, Same, Goto, HandlerBroadcast,
     LockKernelMutex, ReleaseSem, StartCall, Timeout, kernel_lock,
     kernel_signal, kernel_sleep, kernel_unlock, kernel_wait
<1> QED BY <1>1, <1>2, <1>3

\* Inside the kernel means the same in both.
LEMMA Inside == ASSUME IInv, NEW t \in Threads PROVE WhereOf(t) = "in" <=> InKernel(t)
<1>1. cv[t] # "in" /\ cv[t] \in CV
  BY PlacesAssumption DEF IInv, TypeOK
<1>2. CASE InKernel(t)
  BY <1>2 DEF WhereOf, InKernel, Signalling
<1>3. CASE ~ InKernel(t)
  BY <1>1, <1>3 DEF WhereOf, InKernel, Signalling
<1> QED BY <1>2, <1>3

\* Every step of kernel_cc.c is a step of the monitor or a stutter.
LEMMA LockStep == IInv /\ WInv /\ CallerInv /\ [Next]_vars => [Lock!Next]_(Lock!vars)
<1> SUFFICES ASSUME IInv, WInv, CallerInv, [Next]_vars PROVE [Lock!Next]_(Lock!vars)
  OBVIOUS
<1>1. ASSUME NEW t \in Threads, FindSem(t)
      PROVE  [Lock!Next]_(Lock!vars)
  <2>0. ~ SignalFirst(t)
    BY <1>1 DEF SignalFirst, FindSem
  <2>1. \A u \in Threads \ {t} : SameView(u)
    BY <1>1, <2>0, OthersSame, SameSees DEF Step, Decision
  <2>2. SameView(t)
    BY <1>1, PlacesAssumption, KernelCCAssumption DEF WInv, WaiterInv,
       NoOrphanSleeper, FindSem, Goto, SemFree, IInv, TypeOK, SameView,
       SameCall, WhereOf, CallOf, TimedOf, AllOf, InKernel, Signalling,
       Asleep, CV
  <2> QED BY <2>1, <2>2, Stutters
<1>2. ASSUME NEW t \in Threads, TakeSem(t)
      PROVE  [Lock!Next]_(Lock!vars)
  <2>0. ~ SignalFirst(t)
    BY <1>2 DEF SignalFirst, TakeSem
  <2>1. \A u \in Threads \ {t} : SameView(u)
    BY <1>2, <2>0, OthersSame, SameSees DEF Step, Decision
  <2>2. /\ WhereOf(t) = "entering" /\ WhereOf(t)' = "in"
        /\ SameCall(t) /\ (TimedOf(t)' <=> TimedOf(t)) /\ CallOf(t) = NoCV
    BY <1>2, PlacesAssumption, KernelCCAssumption DEF TakeSem, Goto,
       UnlockKernelMutex, IInv, TypeOK, SameCall, WhereOf, CallOf, TimedOf,
       AllOf, InKernel, Signalling, Asleep, CV
  <2>3. \A u \in Threads : WhereOf(u) # "in"
    BY <1>2, Inside DEF TakeSem, IInv, TakeInv, KernelExclusion
  <2> QED BY <2>1, <2>2, <2>3, Moves DEF Lock!Next
<1>3. ASSUME NEW t \in Threads, WaitForSem(t)
      PROVE  [Lock!Next]_(Lock!vars)
  <2>0. ~ SignalFirst(t)
    BY <1>3 DEF SignalFirst, WaitForSem
  <2>1. \A u \in Threads \ {t} : SameView(u)
    BY <1>3, <2>0, OthersSame, SameSees DEF Step, Decision
  <2>2. SameView(t)
    BY <1>3, PlacesAssumption, KernelCCAssumption DEF WInv, WaiterInv,
       NoOrphanSleeper, WaitForSem, Goto, SemFree, IInv, TypeOK, SameView,
       SameCall, WhereOf, CallOf, TimedOf, AllOf, InKernel, Signalling,
       Asleep, CV
  <2> QED BY <2>1, <2>2, Stutters
<1>4. ASSUME NEW t \in Threads, PushWaiter(t)
      PROVE  [Lock!Next]_(Lock!vars)
  <2>0. ~ SignalFirst(t)
    BY <1>4 DEF SignalFirst, PushWaiter
  <2>1. \A u \in Threads \ {t} : SameView(u)
    BY <1>4, <2>0, OthersSame, SameSees DEF Step, Decision
  <2>2. SameView(t)
    BY <1>4, PlacesAssumption, KernelCCAssumption DEF WInv, WaiterInv,
       NoOrphanSleeper, PushWaiter, Goto, Free, IInv, TypeOK, SameView,
       SameCall, WhereOf, CallOf, TimedOf, AllOf, InKernel, Signalling,
       Asleep, CV
  <2> QED BY <2>1, <2>2, Stutters
<1>5. ASSUME NEW t \in Threads, ReleaseMutex(t)
      PROVE  [Lock!Next]_(Lock!vars)
  <2>0. ~ SignalFirst(t)
    BY <1>5 DEF SignalFirst, ReleaseMutex
  <2>1. \A u \in Threads \ {t} : SameView(u)
    BY <1>5, <2>0, OthersSame, SameSees DEF Step, Decision
  <2>2. SameView(t)
    BY <1>5, PlacesAssumption, KernelCCAssumption DEF WInv, WaiterInv,
       NoOrphanSleeper, ReleaseMutex, Goto, UnlockKernelMutex, IInv, TypeOK,
       SameView, SameCall, WhereOf, CallOf, TimedOf, AllOf, InKernel,
       Signalling, Asleep, CV
  <2> QED BY <2>1, <2>2, Stutters
<1>6. ASSUME NEW t \in Threads, Sleep(t)
      PROVE  [Lock!Next]_(Lock!vars)
  <2>0. ~ SignalFirst(t)
    BY <1>6 DEF SignalFirst, Sleep
  <2>1. \A u \in Threads \ {t} : SameView(u)
    BY <1>6, <2>0, OthersSame, SameSees DEF Step, Decision
  <2>2. SameView(t)
    BY <1>6, PlacesAssumption, KernelCCAssumption DEF WInv, WaiterInv,
       NoOrphanSleeper, Sleep, Goto, IInv, TypeOK, SameView, SameCall,
       WhereOf, CallOf, TimedOf, AllOf, InKernel, Signalling, Asleep, CV
  <2> QED BY <2>1, <2>2, Stutters
<1>7. ASSUME NEW t \in Threads, WakeUp(t)
      PROVE  [Lock!Next]_(Lock!vars)
  <2>0. ~ SignalFirst(t)
    BY <1>7 DEF SignalFirst, WakeUp
  <2>1. \A u \in Threads \ {t} : SameView(u)
    BY <1>7, <2>0, OthersSame, SameSees DEF Step, Decision
  <2>2. SameView(t)
    BY <1>7, PlacesAssumption, KernelCCAssumption DEF WInv, WaiterInv,
       NoOrphanSleeper, WakeUp, Goto, Free, IInv, TypeOK, SameView, SameCall,
       WhereOf, CallOf, TimedOf, AllOf, InKernel, Signalling, Asleep, CV
  <2> QED BY <2>1, <2>2, Stutters
<1>8. ASSUME NEW t \in Threads, Relock(t)
      PROVE  [Lock!Next]_(Lock!vars)
  <2>0. ~ SignalFirst(t)
    BY <1>8 DEF SignalFirst, Relock
  <2>1. \A u \in Threads \ {t} : SameView(u)
    BY <1>8, <2>0, OthersSame, SameSees DEF Step, Decision
  <2>2. SameView(t)
    BY <1>8, PlacesAssumption, KernelCCAssumption DEF WInv, WaiterInv,
       NoOrphanSleeper, Relock, Goto, LockKernelMutex, Free, IInv, TypeOK,
       SameView, SameCall, WhereOf, CallOf, TimedOf, AllOf, InKernel,
       Signalling, Asleep, CV
  <2> QED BY <2>1, <2>2, Stutters
<1>9. ASSUME NEW t \in Threads, LockRing(t)
      PROVE  [Lock!Next]_(Lock!vars)
  <2>0. ~ SignalFirst(t)
    BY <1>9 DEF SignalFirst, LockRing
  <2>1. \A u \in Threads \ {t} : SameView(u)
    BY <1>9, <2>0, OthersSame, SameSees DEF Step, Decision
  <2>2. SameView(t)
    BY <1>9, PlacesAssumption, KernelCCAssumption DEF WInv, WaiterInv,
       NoOrphanSleeper, LockRing, Goto, Free, IInv, TypeOK, SameView,
       SameCall, WhereOf, CallOf, TimedOf, AllOf, InKernel, Signalling,
       Asleep, CV
  <2> QED BY <2>1, <2>2, Stutters
<1>10. ASSUME NEW t \in Threads, SignalFirst(t)
      PROVE  [Lock!Next]_(Lock!vars)
  <2>1. PICK w \in Threads :
           /\ w = Head(waitset[call[t]])
           /\ w # t /\ pc[w] = "wake" /\ pc[t] = "ring" /\ cv[w] = call[t]
           /\ call[t] \in CV
    BY <1>10, SignalledWaiter
  <2>2. /\ state' = [state EXCEPT ![w] = IF @ = "STOPPED" THEN "RUNNING" ELSE @]
        /\ cv' = cv /\ timed' = timed
    BY <1>10, <2>1 DEF SignalFirst
  <2>3. \/ /\ state[w] = "STOPPED" /\ ~ all[t]
           /\ pc' = [pc EXCEPT ![t] = after[t]] /\ call' = [call EXCEPT ![t] = NoCV]
           /\ all' = [all EXCEPT ![t] = FALSE] /\ after' = [after EXCEPT ![t] = "user"]
        \/ /\ ~ (state[w] = "STOPPED" /\ ~ all[t])
           /\ pc' = pc /\ call' = call /\ all' = all /\ after' = after
    <3>1. CASE state[w] = "STOPPED" /\ ~ all[t]
      BY <1>10, <2>1, <3>1 DEF SignalFirst, Woken, EndCall, Goto
    <3>2. CASE ~ (state[w] = "STOPPED" /\ ~ all[t])
      BY <1>10, <2>1, <3>2 DEF SignalFirst, Woken
    <3> QED BY <3>1, <3>2
  <2>4. \A u \in Threads \ {t, w} : SameView(u)
    <3>1. ASSUME NEW u \in Threads \ {t, w} PROVE Same(u)
      BY <2>1, <2>2, <2>3 DEF Same, IInv, TypeOK
    <3> QED BY <3>1, SameSees
  <2>5. /\ pc'[w] = "wake" /\ call'[w] = call[w] /\ all'[w] = all[w] /\ after'[w] = after[w]
        /\ cv'[w] = cv[w] /\ timed'[w] = timed[w]
        /\ state'[w] = IF state[w] = "STOPPED" THEN "RUNNING" ELSE state[w]
    BY <2>1, <2>2, <2>3 DEF IInv, TypeOK
  <2>6. /\ cv'[t] = cv[t] /\ timed'[t] = timed[t] /\ state'[t] = state[t]
        /\ \/ /\ state[w] = "STOPPED" /\ ~ all[t] /\ ~ all'[t]
              /\ pc'[t] = after[t] /\ call'[t] = NoCV /\ after'[t] = "user"
           \/ /\ ~ (state[w] = "STOPPED" /\ ~ all[t])
              /\ pc'[t] = "ring" /\ call'[t] = call[t] /\ all'[t] = all[t] /\ after'[t] = after[t]
        /\ after[t] \in {"user", "in", "push", "unlock", "exit"}
    BY <2>1, <2>2, <2>3 DEF IInv, TypeOK
  <2>7. SameCall(w)
    BY <2>1, <2>5 DEF SameCall, CallOf, AllOf, Signalling
  <2>8. WhereOf(t)' = WhereOf(t) /\ (TimedOf(t)' <=> TimedOf(t))
    <3>1. WhereOf(t)' = WhereOf(t)
      BY <2>1, <2>6, PlacesAssumption DEF WInv, WaiterInv, IInv, TypeOK, WhereOf, InKernel, Signalling, CV
    <3> QED BY <3>1, <2>6 DEF TimedOf
  <2>9. CASE state[w] = "STOPPED" /\ call[t] \in WaitCVs
    <3>1. /\ WhereOf(w) = call[t] /\ WhereOf(w)' = "entering" /\ ~ TimedOf(w)'
      BY <2>1, <2>5, <2>9, PlacesAssumption DEF TimedOf, WhereOf, InKernel, Signalling, Asleep, CV
    <3>2. CASE after[t] = "in"
      <4>1. /\ CallOf(t) = call[t] /\ CallOf(t) # NoCV /\ (AllOf(t) <=> all[t])
        BY <2>1, <3>2, KernelCCAssumption DEF CallOf, AllOf, Signalling, CV
      <4>2. CallOf(t)' = (IF AllOf(t) THEN CallOf(t) ELSE NoCV) /\ (AllOf(t)' <=> AllOf(t))
        BY <2>6, <2>9, <3>2, <4>1 DEF CallOf, AllOf, Signalling
      <4>3. Lock!WakeOne(t)
        BY <2>1, <2>4, <2>7, <2>8, <3>1, <4>1, <4>2, WakesOne
      <4> QED BY <4>3 DEF Lock!Next
    <3>3. CASE after[t] # "in"
      <4>1. SameCall(t)
        BY <2>1, <2>6, <3>3 DEF SameCall, CallOf, AllOf, Signalling
      <4>2. SameView(t)
        BY <2>8, <4>1 DEF SameView
      <4>3. Lock!Handler(w)
        BY <2>1, <2>4, <2>7, <2>9, <3>1, <4>2, Wakes
      <4> QED BY <2>1, <4>3 DEF Lock!Next
    <3> QED BY <3>2, <3>3
  <2>10. CASE ~ (state[w] = "STOPPED" /\ call[t] \in WaitCVs)
    <3>1. WhereOf(w)' = WhereOf(w)
      BY <2>1, <2>5, <2>10, PlacesAssumption DEF WhereOf, InKernel, Signalling, Asleep, CV
    <3>2. SameView(w)
      BY <3>1, <2>5, <2>7 DEF SameView, TimedOf
    <3>3. after[t] = "in" /\ pc'[t] # "ring" => FALSE
      BY <2>1, <2>6, <2>10 DEF CallerInv, Signalling
    <3>4. SameCall(t)
      BY <2>1, <2>6, <3>3 DEF SameCall, CallOf, AllOf, Signalling
    <3>5. SameView(t)
      BY <2>8, <3>4 DEF SameView
    <3> QED BY <2>4, <3>2, <3>5, Stutters
  <2> QED BY <2>9, <2>10
<1>11. ASSUME NEW t \in Threads, RingEmpty(t)
      PROVE  [Lock!Next]_(Lock!vars)
  <2>0. ~ SignalFirst(t)
    BY <1>11 DEF SignalFirst, RingEmpty
  <2>1. \A u \in Threads \ {t} : SameView(u)
    BY <1>11, <2>0, OthersSame, SameSees DEF Step, Decision
  <2>2. /\ pc[t] = "ring" /\ pc'[t] = after[t] /\ after[t] \in {"user", "in", "push", "unlock", "exit"}
        /\ cv' = cv /\ state' = state /\ timed' = timed /\ call[t] \in CV
    BY <1>11, SignalGoes DEF RingEmpty, EndCall, Goto, IInv, TypeOK
  <2>3. CASE after[t] # "in"
    <3>1. SameView(t)
      BY <2>2, <2>3, PlacesAssumption DEF WInv, WaiterInv, IInv, TypeOK, SameView,
         SameCall, WhereOf, CallOf, TimedOf, AllOf, InKernel, Signalling, Asleep, CV
    <3> QED BY <2>1, <3>1, Stutters
  <2>4. CASE after[t] = "in"
    <3>1. /\ WhereOf(t) = "in" /\ WhereOf(t)' = "in" /\ CallOf(t) = call[t] /\ CallOf(t) # NoCV
          /\ CallOf(t)' = NoCV /\ ~ TimedOf(t) /\ ~ TimedOf(t)' /\ ~ AllOf(t)'
      BY <2>2, <2>4, PlacesAssumption, KernelCCAssumption DEF
         WhereOf, CallOf, TimedOf, AllOf, InKernel, Signalling, CV
    <3>2. \A u \in Threads : WhereOf(u) # call[t]
      BY <1>11, <2>2, <2>4, NobodyWaits DEF RingEmpty, CallerInv, Signalling
    <3>3. Lock!EndSignal(t)
      BY <2>1, <3>1, <3>2, Ends
    <3> QED BY <3>3 DEF Lock!Next
  <2> QED BY <2>3, <2>4
<1>12. ASSUME NEW t \in Threads, EndUnlock(t)
      PROVE  [Lock!Next]_(Lock!vars)
  <2>0. ~ SignalFirst(t)
    BY <1>12 DEF SignalFirst, EndUnlock
  <2>1. \A u \in Threads \ {t} : SameView(u)
    BY <1>12, <2>0, OthersSame, SameSees DEF Step, Decision
  <2>2. SameView(t)
    BY <1>12, PlacesAssumption, KernelCCAssumption DEF WInv, WaiterInv,
       NoOrphanSleeper, EndUnlock, Goto, UnlockKernelMutex, IInv, TypeOK,
       SameView, SameCall, WhereOf, CallOf, TimedOf, AllOf, InKernel,
       Signalling, Asleep, CV
  <2> QED BY <2>1, <2>2, Stutters
<1>13. ASSUME NEW t \in Threads, SleepExited(t)
      PROVE  [Lock!Next]_(Lock!vars)
  <2>0. ~ SignalFirst(t)
    BY <1>13 DEF SignalFirst, SleepExited
  <2>1. \A u \in Threads \ {t} : SameView(u)
    BY <1>13, <2>0, OthersSame, SameSees DEF Step, Decision
  <2>2. SameView(t)
    BY <1>13, PlacesAssumption, KernelCCAssumption DEF WInv, WaiterInv,
       NoOrphanSleeper, SleepExited, Goto, UnlockKernelMutex, IInv, TypeOK,
       SameView, SameCall, WhereOf, CallOf, TimedOf, AllOf, InKernel,
       Signalling, Asleep, CV
  <2> QED BY <2>1, <2>2, Stutters
<1>14. ASSUME NEW t \in Threads, kernel_lock(t)
      PROVE  [Lock!Next]_(Lock!vars)
  <2>0. ~ SignalFirst(t)
    BY <1>14 DEF SignalFirst, kernel_lock
  <2>1. \A u \in Threads \ {t} : SameView(u)
    BY <1>14, <2>0, OthersSame, SameSees DEF Step, Decision
  <2>2. /\ WhereOf(t) = "user" /\ WhereOf(t)' = "entering"
        /\ SameCall(t) /\ (TimedOf(t)' <=> TimedOf(t)) /\ CallOf(t) = NoCV
    BY <1>14, PlacesAssumption, KernelCCAssumption DEF kernel_lock, Goto,
       LockKernelMutex, Free, IInv, TypeOK, SameCall, WhereOf, CallOf,
       TimedOf, AllOf, InKernel, Signalling, Asleep, CV
  <2> QED BY <2>1, <2>2, Moves DEF Lock!Next
<1>15. ASSUME NEW t \in Threads, kernel_unlock(t)
      PROVE  [Lock!Next]_(Lock!vars)
  <2>0. ~ SignalFirst(t)
    BY <1>15 DEF SignalFirst, kernel_unlock
  <2>1. \A u \in Threads \ {t} : SameView(u)
    BY <1>15, <2>0, OthersSame, SameSees DEF Step, Decision
  <2>2. /\ WhereOf(t) = "in" /\ WhereOf(t)' = "user"
        /\ SameCall(t) /\ (TimedOf(t)' <=> TimedOf(t)) /\ CallOf(t) = NoCV
    BY <1>15, PlacesAssumption, KernelCCAssumption DEF kernel_unlock,
       ReleaseSem, StartCall, Goto, LockKernelMutex, Free, IInv, TypeOK,
       SameCall, WhereOf, CallOf, TimedOf, AllOf, InKernel, Signalling,
       Asleep, CV
  <2> QED BY <2>1, <2>2, Moves DEF Lock!Next
<1>16. ASSUME NEW t \in Threads, kernel_sleep(t)
      PROVE  [Lock!Next]_(Lock!vars)
  <2>0. ~ SignalFirst(t)
    BY <1>16 DEF SignalFirst, kernel_sleep
  <2>1. \A u \in Threads \ {t} : SameView(u)
    BY <1>16, <2>0, OthersSame, SameSees DEF Step, Decision
  <2>2. /\ WhereOf(t) = "in" /\ WhereOf(t)' = "gone"
        /\ SameCall(t) /\ (TimedOf(t)' <=> TimedOf(t)) /\ CallOf(t) = NoCV
    BY <1>16, PlacesAssumption, KernelCCAssumption DEF kernel_sleep,
       ReleaseSem, StartCall, Goto, LockKernelMutex, Free, IInv, TypeOK,
       SameCall, WhereOf, CallOf, TimedOf, AllOf, InKernel, Signalling,
       Asleep, CV
  <2> QED BY <2>1, <2>2, Moves DEF Lock!Next
<1>17. ASSUME NEW t \in Threads, NEW k \in WaitCVs, HandlerBroadcast(t, k)
      PROVE  [Lock!Next]_(Lock!vars)
  <2>0. ~ SignalFirst(t)
    BY <1>17 DEF SignalFirst, HandlerBroadcast
  <2>1. \A u \in Threads \ {t} : SameView(u)
    BY <1>17, <2>0, OthersSame, SameSees DEF Step, Decision
  <2>2. SameView(t)
    BY <1>17, PlacesAssumption, KernelCCAssumption DEF WInv, WaiterInv,
       NoOrphanSleeper, HandlerBroadcast, StartCall, Goto, IInv, TypeOK,
       SameView, SameCall, WhereOf, CallOf, TimedOf, AllOf, InKernel,
       Signalling, Asleep, CV
  <2> QED BY <2>1, <2>2, Stutters
<1>18. ASSUME NEW t \in Threads, NEW k \in WaitCVs, NEW b \in BOOLEAN,
            kernel_wait(t, k, b)
      PROVE  [Lock!Next]_(Lock!vars)
  <2>0. ~ SignalFirst(t)
    BY <1>18 DEF SignalFirst, kernel_wait
  <2>1. \A u \in Threads \ {t} : SameView(u)
    BY <1>18, <2>0, OthersSame, SameSees DEF Step, Decision
  <2>2. /\ WhereOf(t) = "in" /\ WhereOf(t)' = k /\ ~ TimedOf(t) /\ CallOf(t) = NoCV
        /\ (TimedOf(t)' <=> b) /\ SameCall(t)
    BY <1>18, PlacesAssumption, KernelCCAssumption DEF kernel_wait, ReleaseSem, StartCall, Goto,
       IInv, TypeOK, SameCall, WhereOf, CallOf, TimedOf, AllOf, InKernel, Signalling, CV
  <2>3. Lock!Wait(t)
    BY <2>1, <2>2, Waits
  <2> QED BY <2>3 DEF Lock!Next
<1>19. ASSUME NEW t \in Threads, NEW k \in WaitCVs, NEW b \in BOOLEAN,
            kernel_signal(t, k, b)
      PROVE  [Lock!Next]_(Lock!vars)
  <2>0. ~ SignalFirst(t)
    BY <1>19 DEF SignalFirst, kernel_signal
  <2>1. \A u \in Threads \ {t} : SameView(u)
    BY <1>19, <2>0, OthersSame, SameSees DEF Step, Decision
  <2>2. /\ WhereOf(t) = "in" /\ WhereOf(t)' = "in" /\ ~ TimedOf(t) /\ ~ TimedOf(t)'
        /\ CallOf(t) = NoCV /\ CallOf(t)' = k /\ (AllOf(t)' <=> b)
    BY <1>19, PlacesAssumption, KernelCCAssumption DEF kernel_signal, StartCall, Goto,
       IInv, TypeOK, WhereOf, CallOf, TimedOf, AllOf, InKernel, Signalling, CV
  <2>3. Lock!StartSignal(t)
    BY <2>1, <2>2, Signals
  <2> QED BY <2>3 DEF Lock!Next
<1>20. ASSUME NEW t \in Threads, Timeout(t)
      PROVE  [Lock!Next]_(Lock!vars)
  <2>0. ~ SignalFirst(t)
    BY <1>20 DEF SignalFirst, Timeout, WInv, NoOrphanSleeper, Asleep
  <2>1. \A u \in Threads \ {t} : SameView(u)
    BY <1>20, <2>0, OthersSame, SameSees DEF Step, Decision
  <2>2. /\ SameCall(t)
        /\ \/ SameView(t)
           \/ WhereOf(t) \in WaitCVs /\ TimedOf(t) /\ WhereOf(t)' = "entering" /\ ~ TimedOf(t)'
    BY <1>20, PlacesAssumption, KernelCCAssumption DEF Timeout, WInv, NoOrphanSleeper,
       IInv, TypeOK, SameView, SameCall, WhereOf, CallOf, TimedOf, AllOf, InKernel, Signalling, Asleep, CV
  <2>3. CASE SameView(t)
    BY <2>1, <2>3, Stutters
  <2>4. CASE ~ SameView(t)
    BY <2>1, <2>2, <2>4, Wakes DEF Lock!Next
  <2> QED BY <2>3, <2>4
<1>21. CASE UNCHANGED vars
  <2>1. \A u \in Threads : SameView(u)
    BY <1>21, SameSees DEF vars, Same
  <2> QED BY <2>1, Stutters
<1> QED
  BY <1>1, <1>2, <1>3, <1>4, <1>5, <1>6, <1>7, <1>8, <1>9, <1>10, <1>11,
     <1>12, <1>13, <1>14, <1>15, <1>16, <1>17, <1>18, <1>19, <1>20, <1>21 DEF
     Next, Step, Decision

\* CallerInv holds in every reachable state.
LEMMA CallerInvariant == Spec => []CallerInv
<1>1. Init => CallerInv
  BY DEF Init, CallerInv, Signalling
<1>2. IInv /\ WInv /\ CallerInv /\ [Next]_vars => CallerInv'
  BY CallerPreserved
<1> QED BY <1>1, <1>2, Invariant, WakeInvariant, PTL DEF Spec

\* The monitor built from mutexes, rings and the scheduler is the monitor that
\* system calls are written for, for any number of threads and condition variables.
THEOREM Refines == Spec => ImplementsKernelLock
<1>1. Init => Lock!Init
  <2> SUFFICES ASSUME Init PROVE Lock!Init
    OBVIOUS
  <2>1. \A t \in Threads : WhereOf(t) = "user" /\ CallOf(t) = NoCV
    BY DEF Init, WhereOf, CallOf, InKernel, Signalling
  <2>2. "user" \notin WaitCVs
    BY PlacesAssumption DEF CV
  <2> QED BY <2>1, <2>2 DEF Lock!Init, Init
<1>2. IInv /\ WInv /\ CallerInv /\ [Next]_vars => [Lock!Next]_(Lock!vars)
  BY LockStep
<1> QED BY <1>1, <1>2, Invariant, WakeInvariant, CallerInvariant, PTL
        DEF Spec, ImplementsKernelLock, Lock!Spec
=============================================================================
