------------------------------ MODULE KernelCC ------------------------------
(***************************************************************************)
(* kernel_cc.c: mutexes, condition variables with their rings of waiters,  *)
(* and the kernel lock, a semaphore written as a monitor over the two.     *)
(*                                                                         *)
(* A step is what runs between two points where another thread, another    *)
(* core or a timeout can be seen to act: taking a mutex (Mutex_Lock's      *)
(* test-and-set that succeeds; spinning and yielding change nothing here), *)
(* and a critical section of the scheduler.  sleep_releasing releases its  *)
(* mutex inside such a section, so going to sleep and unlocking is one     *)
(* step; wakeup is one step.  What a thread is doing is in pc.             *)
(***************************************************************************)
EXTENDS Integers, Sequences

CONSTANTS Threads,     \* the threads that make system calls
          WaitCVs,     \* the condition variables passed to kernel_wait
          SemCV,       \* kernel_sem_cv
          NoThread, NoCV

ASSUME KernelCCAssumption ==
  /\ SemCV \notin WaitCVs
  /\ NoThread \notin Threads
  /\ NoCV \notin WaitCVs \cup {SemCV}

CV == WaitCVs \cup {SemCV}

\* A condition variable is none of the places of KernelLock's where.
ASSUME PlacesAssumption == CV \cap {"user", "entering", "in", "gone"} = {}

VARIABLES
  kernel_mutex,    \* the thread that has locked it, or NoThread
  kernel_sem,
  waitset_lock,    \* waitset_lock[cv]: the thread that has locked it
  waitset,         \* waitset[cv]: the threads whose __cv_waiter is in the ring
                   \* of cv, in ring order from cv->waitset
  state,           \* "RUNNING" (or READY), "STOPPED", "EXITED"
  pc,              \* see Label
  cv,              \* cv[t]: the condition variable of t's last cv_wait
  signalled, removed,     \* the flags of t's __cv_waiter
  timed,           \* timed[t]: that cv_wait has a timeout
  call, all,       \* the condition variable t is signalling (or NoCV), and
                   \* whether by Cond_Broadcast
  after            \* where t goes after that

vars == <<kernel_mutex, kernel_sem, waitset_lock, waitset, state, pc, cv,
          signalled, removed, timed, call, all, after>>

Label == {
  "user",          \* outside the kernel
  "test",          \* with kernel_mutex, at a while(kernel_sem <= 0)
  "take",          \* past it, before kernel_sem--
  "push",          \* cv_wait: before it locks waitset_lock
  "release",       \* cv_wait: in the ring, before Mutex_Unlock(mutex)
  "sleep",         \* cv_wait: before sleep_releasing
  "wake",          \* cv_wait: asleep, or awake and before waitset_lock
  "relock",        \* cv_wait: before Mutex_Lock(mutex)
  "in",            \* in a system call, with the kernel lock
  "signal",        \* Cond_Signal or Cond_Broadcast: before waitset_lock
  "ring",          \* the same, at its test of cv->waitset
  "unlock",        \* kernel_unlock: before its Mutex_Unlock
  "exit",          \* kernel_sleep: before sleep_releasing
  "gone" }

Init ==
  /\ kernel_mutex = NoThread
  /\ kernel_sem = 1
  /\ waitset_lock = [k \in CV |-> NoThread]
  /\ waitset = [k \in CV |-> <<>>]
  /\ state = [t \in Threads |-> "RUNNING"]
  /\ pc = [t \in Threads |-> "user"]
  /\ cv = [t \in Threads |-> SemCV]
  /\ signalled = [t \in Threads |-> FALSE]
  /\ removed = [t \in Threads |-> TRUE]
  /\ timed = [t \in Threads |-> FALSE]
  /\ call = [t \in Threads |-> NoCV]
  /\ all = [t \in Threads |-> FALSE]
  /\ after = [t \in Threads |-> "user"]

-----------------------------------------------------------------------------
Goto(t, l) == pc' = [pc EXCEPT ![t] = l]

\* Mutex_Lock(& kernel_mutex) has succeeded; Mutex_Unlock.
MutantFree(lock) == TRUE                        \* mutant: no test-and-set

Free(lock) == lock = NoThread

LockKernelMutex(t) == Free(kernel_mutex) /\ kernel_mutex' = t
UnlockKernelMutex == kernel_mutex' = NoThread

\* remove_from_ring, of a waiter in the ring.
MutantWithout(ring, t) == ring                  \* mutant: node not removed

Without(ring, t) ==
  LET i == CHOOSE i \in DOMAIN ring : ring[i] = t
  IN  SubSeq(ring, 1, i - 1) \o SubSeq(ring, i + 1, Len(ring))

\* cv_wait's push: at the back of the ring, that is before cv->waitset.
Pushed(ring, t) == Append(ring, t)

-----------------------------------------------------------------------------
(* kernel_lock, and the end of kernel_wait_wchan.                          *)

kernel_lock(t) ==
  /\ pc[t] = "user"
  /\ LockKernelMutex(t)
  /\ Goto(t, "test")
  /\ UNCHANGED <<kernel_sem, waitset_lock, waitset, state, cv, signalled,
                 removed, timed, call, all, after>>

SemFree == kernel_sem > 0

FindSem(t) ==
  /\ pc[t] = "test" /\ SemFree
  /\ Goto(t, "take")
  /\ UNCHANGED <<kernel_mutex, kernel_sem, waitset_lock, waitset, state, cv,
                 signalled, removed, timed, call, all, after>>

\* kernel_sem--, Mutex_Unlock.
TakeSem(t) ==
  /\ pc[t] = "take"
  /\ kernel_sem' = kernel_sem - 1
  /\ UnlockKernelMutex
  /\ Goto(t, "in")
  /\ UNCHANGED <<waitset_lock, waitset, state, cv, signalled, removed, timed,
                 call, all, after>>

\* Cond_Wait(& kernel_mutex, & kernel_sem_cv).
WaitForSem(t) ==
  /\ pc[t] = "test" /\ ~ SemFree
  /\ cv' = [cv EXCEPT ![t] = SemCV]
  /\ timed' = [timed EXCEPT ![t] = FALSE]
  /\ Goto(t, "push")
  /\ UNCHANGED <<kernel_mutex, kernel_sem, waitset_lock, waitset, state,
                 signalled, removed, call, all, after>>

-----------------------------------------------------------------------------
(* cv_wait(& kernel_mutex, cv[t], cause, timeout).                         *)

PushWaiter(t) ==
  /\ pc[t] = "push" /\ Free(waitset_lock[cv[t]])
  /\ waitset_lock' = [waitset_lock EXCEPT ![cv[t]] = t]
  /\ waitset' = [waitset EXCEPT ![cv[t]] = Pushed(@, t)]
  /\ signalled' = [signalled EXCEPT ![t] = FALSE]
  /\ removed' = [removed EXCEPT ![t] = FALSE]
  /\ Goto(t, "release")
  /\ UNCHANGED <<kernel_mutex, kernel_sem, state, cv, timed, call, all, after>>

MutantReleaseMutex(t) ==             \* mutant: waitset_lock released as well
  /\ pc[t] = "release"
  /\ UnlockKernelMutex
  /\ waitset_lock' = [waitset_lock EXCEPT ![cv[t]] = NoThread]
  /\ Goto(t, "sleep")
  /\ UNCHANGED <<kernel_sem, waitset, state, cv, signalled, removed, timed,
                 call, all, after>>

ReleaseMutex(t) ==
  /\ pc[t] = "release"
  /\ UnlockKernelMutex
  /\ Goto(t, "sleep")
  /\ UNCHANGED <<kernel_sem, waitset_lock, waitset, state, cv, signalled,
                 removed, timed, call, all, after>>

\* sleep_releasing(STOPPED, & cv->waitset_lock, ...).
Sleep(t) ==
  /\ pc[t] = "sleep"
  /\ state' = [state EXCEPT ![t] = "STOPPED"]
  /\ waitset_lock' = [waitset_lock EXCEPT ![cv[t]] = NoThread]
  /\ Goto(t, "wake")
  /\ UNCHANGED <<kernel_mutex, kernel_sem, waitset, cv, signalled, removed,
                 timed, call, all, after>>

\* The scheduler's timeout (sched_queue_select).
Timeout(t) ==
  /\ state[t] = "STOPPED" /\ timed[t]
  /\ state' = [state EXCEPT ![t] = "RUNNING"]
  /\ UNCHANGED <<kernel_mutex, kernel_sem, waitset_lock, waitset, pc, cv,
                 signalled, removed, timed, call, all, after>>

\* Lock waitset_lock, tidy up, unlock it.
WakeUp(t) ==
  /\ pc[t] = "wake" /\ state[t] = "RUNNING" /\ Free(waitset_lock[cv[t]])
  /\ waitset' = IF removed[t] THEN waitset
                ELSE [waitset EXCEPT ![cv[t]] = Without(@, t)]
  /\ Goto(t, "relock")
  /\ UNCHANGED <<kernel_mutex, kernel_sem, waitset_lock, state, cv, signalled,
                 removed, timed, call, all, after>>

\* Mutex_Lock(mutex), and back to the caller's while(kernel_sem <= 0).  The
\* __cv_waiter was a local variable; its fields get their initial values.
Relock(t) ==
  /\ pc[t] = "relock"
  /\ LockKernelMutex(t)
  /\ cv' = [cv EXCEPT ![t] = SemCV]
  /\ signalled' = [signalled EXCEPT ![t] = FALSE]
  /\ removed' = [removed EXCEPT ![t] = TRUE]
  /\ timed' = [timed EXCEPT ![t] = FALSE]
  /\ Goto(t, "test")
  /\ UNCHANGED <<kernel_sem, waitset_lock, waitset, state, call, all, after>>

-----------------------------------------------------------------------------
(* Cond_Signal and Cond_Broadcast.                                         *)

StartCall(t, k, broadcast, to) ==
  /\ call' = [call EXCEPT ![t] = k]
  /\ all' = [all EXCEPT ![t] = broadcast]
  /\ after' = [after EXCEPT ![t] = to]
  /\ Goto(t, "signal")

LockRing(t) ==
  /\ pc[t] = "signal" /\ Free(waitset_lock[call[t]])
  /\ waitset_lock' = [waitset_lock EXCEPT ![call[t]] = t]
  /\ Goto(t, "ring")
  /\ UNCHANGED <<kernel_mutex, kernel_sem, waitset, state, cv, signalled,
                 removed, timed, call, all, after>>

\* Return from the call: unlock waitset_lock.
EndCall(t) ==
  /\ waitset_lock' = [waitset_lock EXCEPT ![call[t]] = NoThread]
  /\ call' = [call EXCEPT ![t] = NoCV]
  /\ all' = [all EXCEPT ![t] = FALSE]
  /\ after' = [after EXCEPT ![t] = "user"]
  /\ Goto(t, after[t])

\* Whether cv_signal returns after it has removed w: wakeup(w) returned 1.
MutantWoken(w) == TRUE                          \* mutant: result not tested

Woken(w) == state[w] = "STOPPED"

\* One iteration of cv_signal's loop: remove the first waiter, wakeup, and on
\* success mark it signalled and return, to Cond_Broadcast's own loop if any.
SignalFirst(t) ==
  LET k == call[t]
      w == Head(waitset[k])
  IN  /\ pc[t] = "ring" /\ waitset[k] # <<>>
      /\ waitset' = [waitset EXCEPT ![k] = Tail(@)]
      /\ removed' = [removed EXCEPT ![w] = TRUE]
      /\ state' = [state EXCEPT ![w] = IF @ = "STOPPED" THEN "RUNNING" ELSE @]
      /\ signalled' = [signalled EXCEPT ![w] = Woken(w)]
      /\ IF Woken(w) /\ ~ all[t]
         THEN EndCall(t)
         ELSE UNCHANGED <<waitset_lock, call, all, after, pc>>
      /\ UNCHANGED <<kernel_mutex, kernel_sem, cv, timed>>

\* cv->waitset == NULL.
RingEmpty(t) ==
  /\ pc[t] = "ring" /\ waitset[call[t]] = <<>>
  /\ EndCall(t)
  /\ UNCHANGED <<kernel_mutex, kernel_sem, waitset, state, cv, signalled,
                 removed, timed>>

-----------------------------------------------------------------------------
(* What a system call does with the kernel lock.                           *)

\* Mutex_Lock(& kernel_mutex); kernel_sem++; Cond_Signal(& kernel_sem_cv).
MutantReleaseSem(t, to) ==                      \* mutant: no Cond_Signal
  /\ LockKernelMutex(t)
  /\ kernel_sem' = kernel_sem + 1
  /\ Goto(t, to) /\ UNCHANGED <<call, all, after>>

ReleaseSem(t, to) ==
  /\ LockKernelMutex(t)
  /\ kernel_sem' = kernel_sem + 1
  /\ StartCall(t, SemCV, FALSE, to)

kernel_unlock(t) ==
  /\ pc[t] = "in"
  /\ ReleaseSem(t, "unlock")
  /\ UNCHANGED <<waitset_lock, waitset, state, cv, signalled, removed, timed>>

EndUnlock(t) ==
  /\ pc[t] = "unlock"
  /\ UnlockKernelMutex
  /\ Goto(t, "user")
  /\ UNCHANGED <<kernel_sem, waitset_lock, waitset, state, cv, signalled,
                 removed, timed, call, all, after>>

\* kernel_wait(k, cause), or kernel_timedwait.
kernel_wait(t, k, timeout) ==
  /\ pc[t] = "in"
  /\ ReleaseSem(t, "push")
  /\ cv' = [cv EXCEPT ![t] = k]
  /\ timed' = [timed EXCEPT ![t] = timeout]
  /\ UNCHANGED <<waitset_lock, waitset, state, signalled, removed>>

\* kernel_signal(k), kernel_broadcast(k).
kernel_signal(t, k, broadcast) ==
  /\ pc[t] = "in"
  /\ StartCall(t, k, broadcast, "in")
  /\ UNCHANGED <<kernel_mutex, kernel_sem, waitset_lock, waitset, state, cv,
                 signalled, removed, timed>>

\* kernel_sleep(EXITED, cause), the end of a thread.
kernel_sleep(t) ==
  /\ pc[t] = "in"
  /\ ReleaseSem(t, "exit")
  /\ UNCHANGED <<waitset_lock, waitset, state, cv, signalled, removed, timed>>

SleepExited(t) ==
  /\ pc[t] = "exit"
  /\ state' = [state EXCEPT ![t] = "EXITED"]
  /\ UnlockKernelMutex
  /\ Goto(t, "gone")
  /\ UNCHANGED <<kernel_sem, waitset_lock, waitset, cv, signalled, removed,
                 timed, call, all, after>>

\* An interrupt handler (serial_rx_handler) that broadcasts while t is in
\* user code; it holds no lock.
HandlerBroadcast(t, k) ==
  /\ pc[t] = "user"
  /\ StartCall(t, k, TRUE, "user")
  /\ UNCHANGED <<kernel_mutex, kernel_sem, waitset_lock, waitset, state, cv,
                 signalled, removed, timed>>

-----------------------------------------------------------------------------
\* The steps a thread takes on its own once it has started a call.
Step(t) ==
  \/ FindSem(t) \/ TakeSem(t) \/ WaitForSem(t) \/ PushWaiter(t) \/ ReleaseMutex(t)
  \/ Sleep(t) \/ WakeUp(t) \/ Relock(t)
  \/ LockRing(t) \/ SignalFirst(t) \/ RingEmpty(t)
  \/ EndUnlock(t) \/ SleepExited(t)

\* What the programs and the environment decide.
Decision(t) ==
  \/ kernel_lock(t) \/ kernel_unlock(t) \/ kernel_sleep(t)
  \/ \E k \in WaitCVs : \/ HandlerBroadcast(t, k)
                        \/ \E b \in BOOLEAN : \/ kernel_wait(t, k, b)
                                              \/ kernel_signal(t, k, b)
  \/ Timeout(t)

Next == \E t \in Threads : Step(t) \/ Decision(t)

Spec == Init /\ [][Next]_vars

\* A thread that is not asleep or waiting for a mutex goes on.  kernel_mutex
\* may be missed for ever by one thread when others keep taking it (weak
\* fairness); a waitset_lock is contended for ever only by interrupt handlers,
\* and those are many of its critical sections apart (strong fairness).
FairSpec == Spec /\ \A t \in Threads :
  WF_vars(Step(t)) /\ SF_vars(PushWaiter(t)) /\ SF_vars(LockRing(t))

-----------------------------------------------------------------------------
(* Properties.                                                             *)

Signalling(t) == pc[t] \in {"signal", "ring"}
InKernel(t) == pc[t] = "in" \/ (Signalling(t) /\ after[t] = "in")
Asleep(t) == state[t] = "STOPPED"
InRing(t) == pc[t] \in {"release", "sleep", "wake"} /\ ~ removed[t]

\* Where a thread has kernel_mutex locked.
HasMutex(t) ==
  \/ pc[t] \in {"test", "take", "push", "release", "unlock", "exit"}
  \/ Signalling(t) /\ after[t] \in {"push", "unlock", "exit"}

\* Every field keeps its type; the semaphore never leaves 0..1.
TypeOK ==
  /\ kernel_mutex \in Threads \cup {NoThread}
  /\ kernel_sem \in {0, 1}
  /\ waitset_lock \in [CV -> Threads \cup {NoThread}]
  /\ waitset \in [CV -> Seq(Threads)]
  /\ state \in [Threads -> {"RUNNING", "STOPPED", "EXITED"}]
  /\ pc \in [Threads -> Label]
  /\ cv \in [Threads -> CV]
  /\ signalled \in [Threads -> BOOLEAN]
  /\ removed \in [Threads -> BOOLEAN]
  /\ timed \in [Threads -> BOOLEAN]
  /\ call \in [Threads -> CV \cup {NoCV}]
  /\ all \in [Threads -> BOOLEAN]
  /\ after \in [Threads -> {"user", "in", "push", "unlock", "exit"}]

\* The kernel lock excludes: at most one thread is inside the kernel, and the
\* semaphore is 0 exactly while one is, through every wait, signal, timeout
\* and exit (SYSCALL's kernel_lock ... kernel_unlock protects all of the
\* kernel's data).
KernelExclusion ==
  /\ \A t, u \in Threads : InKernel(t) /\ InKernel(u) => t = u
  /\ kernel_sem = 0 <=> \E t \in Threads : InKernel(t)

\* The ring of a condition variable holds exactly the waiters that have pushed
\* themselves and that nobody has removed, each once: no __cv_waiter of a
\* cv_wait that has returned stays linked (it is on that thread's stack).
Members(ring) == {ring[i] : i \in DOMAIN ring}
Distinct(ring) == \A i, j \in DOMAIN ring : ring[i] = ring[j] => i = j

RingInv ==
  \A k \in CV :
    /\ Members(waitset[k]) = {t \in Threads : InRing(t) /\ cv[t] = k}
    /\ Distinct(waitset[k])

\* A sleeping thread is in the ring it waits on, so that a signal can reach it,
\* whatever timeouts and other signals raced with it.
NoOrphanSleeper ==
  \A t \in Threads : Asleep(t) => pc[t] = "wake" /\ InRing(t)

\* cv_wait's assert(! waiter.signalled), and the meaning of its result: a
\* waiter that a signal removed without having woken it had timed out, and
\* only that one returns 0.
SignalledInv ==
  \A t \in Threads :
    /\ InRing(t) => ~ signalled[t]
    /\ pc[t] = "wake" /\ removed[t] /\ ~ signalled[t] => timed[t]

\* No wake-up of the kernel semaphore is lost: while it is free and a thread
\* sleeps on it, another thread is about to take it or to signal it.
SemWakeupPending ==
  kernel_sem = 1 /\ (\E t \in Threads : Asleep(t) /\ cv[t] = SemCV) =>
    \E u \in Threads :
      \/ Signalling(u) /\ call[u] = SemCV
      \/ pc[u] \in {"test", "take"}
      \/ cv[u] = SemCV /\ (pc[u] = "relock" \/ (pc[u] = "wake" /\ ~ Asleep(u)))

\* No wakeup is lost or given twice, on the kernel's semaphore or on any other
\* condition variable, whatever a timeout or an interrupt handler does meanwhile.
WakeInv == NoOrphanSleeper /\ SignalledInv /\ SemWakeupPending

\* A signal is never spent on a waiter that its timeout has already woken:
\* a Cond_Signal or Cond_Broadcast that returns has just woken a thread, or no
\* thread sleeps on the condition variable any more.
SignalReaches ==
  [][\A t \in Threads : pc[t] = "ring" /\ pc'[t] # "ring" =>
       \/ ~ all[t] /\ \E u \in Threads : Asleep(u) /\ ~ Asleep(u)'
       \/ \A u \in Threads : ~ (Asleep(u) /\ cv[u] = call[t])]_vars

\* When the kernel is free and a thread wants it, some thread gets it: no
\* combination of signals, timeouts and barging leaves everyone asleep.
\* (Which thread gets it is not promised: a woken thread can be overtaken.)
Wants(t) == \/ pc[t] \in {"test", "take", "relock"}
            \/ pc[t] \in {"push", "release", "sleep", "wake"} /\ cv[t] = SemCV

KernelProgress ==
  (kernel_sem = 1 /\ \E t \in Threads : Wants(t)) ~> kernel_sem = 0

-----------------------------------------------------------------------------
(* The refinement of KernelLock.  A thread that has executed kernel_sem++   *)
(* is out of the kernel, and in kernel_wait waits from there on: it holds   *)
(* kernel_mutex until it is in the ring, so nobody enters and misses it.    *)

WhereOf(t) ==
  CASE InKernel(t) -> "in"
    [] Signalling(t) /\ after[t] = "push" -> cv[t]
    [] pc[t] \in {"test", "take", "relock"} -> "entering"
    [] pc[t] \in {"push", "release", "sleep", "wake"} ->
         IF cv[t] \in WaitCVs /\ (pc[t] = "wake" => Asleep(t))
         THEN cv[t] ELSE "entering"
    [] pc[t] \in {"exit", "gone"} \/ (Signalling(t) /\ after[t] = "exit") -> "gone"
    [] OTHER -> "user"

CallOf(t) == IF Signalling(t) /\ after[t] = "in" THEN call[t] ELSE NoCV

Lock == INSTANCE KernelLock WITH
  where <- [t \in Threads |-> WhereOf(t)],
  timed <- [t \in Threads |-> WhereOf(t) \in WaitCVs /\ timed[t]],
  call <- [t \in Threads |-> CallOf(t)],
  all <- [t \in Threads |-> CallOf(t) # NoCV /\ all[t]]

\* The monitor built from mutexes, rings and the scheduler is the monitor the
\* system calls are written for; in particular kernel_wait releases the kernel
\* and starts waiting at once, and kernel_signal wakes one of the threads that
\* wait if there is one.
ImplementsKernelLock == Lock!Spec
=============================================================================
