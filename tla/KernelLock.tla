----------------------------- MODULE KernelLock -----------------------------
(***************************************************************************)
(* What system calls rely on from kernel_cc.c: the kernel is a monitor.    *)
(* One thread at a time is inside; kernel_wait leaves the kernel and       *)
(* starts waiting in one step; kernel_signal wakes one waiter if there is  *)
(* one, kernel_broadcast all of them; a woken thread re-enters like any    *)
(* other.  Nothing is said of mutexes, semaphores, rings or the scheduler. *)
(***************************************************************************)
CONSTANTS Threads, WaitCVs, NoCV

VARIABLES
  where,    \* where[t]: "user", "entering", "in", "gone", or the condition
            \* variable t waits on
  timed,    \* timed[t]: the wait of t has a timeout
  call,     \* the condition variable t is signalling, or NoCV
  all       \* whether that call is a broadcast

vars == <<where, timed, call, all>>

Init ==
  /\ where = [t \in Threads |-> "user"]
  /\ timed = [t \in Threads |-> FALSE]
  /\ call = [t \in Threads |-> NoCV]
  /\ all = [t \in Threads |-> FALSE]

Waiting(cv) == {t \in Threads : where[t] = cv}
Inside(t) == where[t] = "in" /\ call[t] = NoCV

StopsWaiting(t) ==
  /\ where' = [where EXCEPT ![t] = "entering"]
  /\ timed' = [timed EXCEPT ![t] = FALSE]

Call(t) ==
  /\ where[t] = "user"
  /\ where' = [where EXCEPT ![t] = "entering"]
  /\ UNCHANGED <<timed, call, all>>

Enter(t) ==
  /\ where[t] = "entering" /\ \A u \in Threads : where[u] # "in"
  /\ where' = [where EXCEPT ![t] = "in"]
  /\ UNCHANGED <<timed, call, all>>

Leave(t) ==
  /\ Inside(t)
  /\ \E to \in {"user", "gone"} : where' = [where EXCEPT ![t] = to]
  /\ UNCHANGED <<timed, call, all>>

Wait(t) ==
  /\ Inside(t)
  /\ \E cv \in WaitCVs : where' = [where EXCEPT ![t] = cv]
  /\ \E b \in BOOLEAN : timed' = [timed EXCEPT ![t] = b]
  /\ UNCHANGED <<call, all>>

\* kernel_signal and kernel_broadcast are not atomic: the call begins, ...
StartSignal(t) ==
  /\ Inside(t)
  /\ \E cv \in WaitCVs : call' = [call EXCEPT ![t] = cv]
  /\ \E b \in BOOLEAN : all' = [all EXCEPT ![t] = b]
  /\ UNCHANGED <<where, timed>>

\* ... wakes a waiter, after which a signal is over, ...
WakeOne(t) ==
  /\ call[t] # NoCV
  /\ \E u \in Waiting(call[t]) : StopsWaiting(u)
  /\ call' = [call EXCEPT ![t] = IF all[t] THEN @ ELSE NoCV]
  /\ UNCHANGED all

\* ... and otherwise ends only when nobody waits.
EndSignal(t) ==
  /\ call[t] # NoCV /\ Waiting(call[t]) = {}
  /\ call' = [call EXCEPT ![t] = NoCV]
  /\ all' = [all EXCEPT ![t] = FALSE]
  /\ UNCHANGED <<where, timed>>

Timeout(t) ==
  /\ where[t] \in WaitCVs /\ timed[t]
  /\ StopsWaiting(t)
  /\ UNCHANGED <<call, all>>

\* An interrupt handler broadcasts without the kernel lock: it may wake a
\* waiter at any time, and promises nothing.
Handler(t) ==
  /\ where[t] \in WaitCVs
  /\ StopsWaiting(t)
  /\ UNCHANGED <<call, all>>

Next == \E t \in Threads :
  \/ Call(t) \/ Enter(t) \/ Leave(t) \/ Wait(t)
  \/ StartSignal(t) \/ WakeOne(t) \/ EndSignal(t)
  \/ Timeout(t) \/ Handler(t)

Spec == Init /\ [][Next]_vars
=============================================================================
