------------------------------- MODULE Sched -------------------------------
(***************************************************************************)
(* The scheduler of kernel_sched.c: thread states and phases, the          *)
(* multilevel feedback queue SCHED, the TIMEOUT_LIST, and the two halves   *)
(* of a context switch (yield and gain) on several cores.                  *)
(*                                                                         *)
(* Everything below is touched only with sched_spinlock held and           *)
(* preemption off, so each critical section of the code is one action.     *)
(* What is NOT one action is what the code splits over two sections:       *)
(* sleep_releasing marks the thread and unlocks, and only then calls       *)
(* yield; yield picks the next thread and unlocks, and the thread it       *)
(* switched to finishes the switch in gain.  Other cores run in between.   *)
(***************************************************************************)
EXTENDS Integers, Sequences, FiniteSets, ListOps

CONSTANTS Threads,         \* addresses spawn_thread can return for a TCB
          Cores,           \* the cores; c also names &cctx[c].idle_thread
          BootThread,      \* the init thread, created by Exec in boot_tinyos_kernel
          MFQ_QUEUES,      \* levels of SCHED
          MFQ_TIMESLICES,  \* timeslices between two calls of sched_boost
          Timeouts,        \* durations that callers pass to sleep_releasing
          MaxClock         \* bound: bios_clock() stops here

ASSUME SchedAssumption ==
  /\ IsFiniteSet(Threads)
  /\ Threads \cap Cores = {}
  /\ BootThread \in Threads
  /\ MFQ_QUEUES \in Nat \ {0}
  /\ MFQ_TIMESLICES \in Nat \ {0}
  /\ Timeouts \subseteq Nat
  /\ MaxClock \in Nat

TCB == Threads \cup Cores        \* Cores: the idle threads
Levels == 0 .. MFQ_QUEUES - 1
NO_TIMEOUT == -1                 \* (TimerDuration)-1, never a wakeup time

\* "FREE": no TCB is allocated at this address.
ThreadState == {"FREE", "INIT", "READY", "RUNNING", "STOPPED", "EXITED"}

\* The causes that callers of sleep_releasing and of yield pass.
SleepCause == {"SCHED_IO", "SCHED_PIPE", "SCHED_POLL", "SCHED_USER"}
SchedCause == SleepCause \cup {"SCHED_QUANTUM", "SCHED_MUTEX", "SCHED_IDLE"}

VARIABLES
  state, phase, priority, mutex_contention, prev_priority, wakeup_time,
                   \* the fields of each TCB; those of an idle thread that
                   \* only set its timer (priority...) are left out
  prev,            \* prev[c]: current_thread[c]->prev, the link yield leaves
                   \* for gain (itself when gain is done: not read again)
  SCHED,           \* SCHED[i]: the threads of level i, front first
  TIMEOUT_LIST,    \* the sleeping threads with a timeout, front first
  timeslices,
  active_threads,
  current_thread,  \* CURTHREAD of each core
  pc,              \* where each core is with respect to the scheduler:
                   \*   "run":   in the code of current_thread
                   \*   "sleep": in sleep_releasing, unlocked, before yield
                   \*   "gain":  yield switched context, before gain's lock
                   \*   "left":  run_scheduler returned
  idle,            \* where each idle thread is: "yield" before its call of
                   \* yield(SCHED_IDLE), "test" at its while, "halting" in the
                   \* body, "halted" in cpu_core_halt
  clock            \* bios_clock()

tcbVars == <<state, phase, priority, mutex_contention, prev_priority,
             wakeup_time>>
vars == <<tcbVars, prev, SCHED, TIMEOUT_LIST, timeslices, active_threads,
          current_thread, pc, idle, clock>>

Queued(t) == \E i \in Levels : t \in ToSet(SCHED[i])

\* Boot: Exec has spawned and woken the init thread; every core enters its
\* idle thread, whose first call is yield(SCHED_IDLE).
Init ==
  /\ state = [t \in TCB |-> IF t \in Cores THEN "RUNNING"
                            ELSE IF t = BootThread THEN "READY" ELSE "FREE"]
  /\ phase = [t \in TCB |-> IF t \in Cores THEN "CTX_DIRTY" ELSE "CTX_CLEAN"]
  /\ priority = [t \in Threads |-> 0]
  /\ mutex_contention = [t \in Threads |-> FALSE]
  /\ prev_priority = [t \in Threads |-> 0]
  /\ wakeup_time = [t \in Threads |-> NO_TIMEOUT]
  /\ prev = [c \in Cores |-> c]
  /\ SCHED = [i \in Levels |-> IF i = 0 THEN <<BootThread>> ELSE <<>>]
  /\ TIMEOUT_LIST = <<>>
  /\ timeslices = 0
  /\ active_threads = 1
  /\ current_thread = [c \in Cores |-> c]
  /\ pc = [c \in Cores |-> "run"]
  /\ idle = [c \in Cores |-> "yield"]
  /\ clock = 0

-----------------------------------------------------------------------------
(* Pure parts of the critical sections.                                    *)

\* sched_boost: the front thread of each level i+1 moves to the end of level
\* i.  The loop goes upwards, so no thread moves twice.
MutantBoostedLevels(q) ==                       \* mutant: last level left out
  {i \in 1 .. MFQ_QUEUES - 2 : q[i] # <<>>}

BoostedLevels(q) == {i \in 1 .. MFQ_QUEUES - 1 : q[i] # <<>>}

Boosted(q) ==
  [i \in Levels |->
     (IF i \in BoostedLevels(q) THEN Tail(q[i]) ELSE q[i]) \o
     (IF i + 1 \in BoostedLevels(q) THEN <<Head(q[i+1])>> ELSE <<>>)]

BoostedPriority(q, pri) ==
  [t \in Threads |->
     IF \E i \in BoostedLevels(q) : Head(q[i]) = t
     THEN pri[t] - 1 ELSE pri[t]]

\* The length of the prefix of TIMEOUT_LIST that sched_queue_select wakes: its
\* loop stops at the first thread whose time has not come.
MutantDue == Cardinality({i \in DOMAIN TIMEOUT_LIST :  \* mutant: == for <=
                      \A j \in 1 .. i : wakeup_time[TIMEOUT_LIST[j]] = clock})

Due == Cardinality({i \in DOMAIN TIMEOUT_LIST :
                      \A j \in 1 .. i : wakeup_time[TIMEOUT_LIST[j]] <= clock})

\* The queue after sched_queue_add of each clean thread of s, in order.
MutantAddAll(q, pri, s) ==                      \* mutant: phase not tested
  [i \in Levels |->
     q[i] \o Kept(s, {t \in Threads : pri[t] = i})]

AddAll(q, pri, s) ==
  [i \in Levels |->
     q[i] \o Kept(s, {t \in Threads : phase[t] = "CTX_CLEAN" /\ pri[t] = i})]

\* sched_queue_select's pop: the level it pops from, and what remains.
NonEmpty(q) == {i \in Levels : q[i] # <<>>}
FirstLevel(q) == CHOOSE i \in NonEmpty(q) : \A j \in NonEmpty(q) : i <= j

\* sched_register_timeout's insertion: before the first thread that wakes
\* strictly later.
Inserted(t, w) ==
  LET n == Cardinality({i \in DOMAIN TIMEOUT_LIST :
                 \A j \in 1 .. i : wakeup_time[TIMEOUT_LIST[j]] <= w})
  IN  InsertAt(TIMEOUT_LIST, n + 1, t)

\* rlist_remove of t's sched_node, which is in TIMEOUT_LIST when t has a
\* wakeup time.
Unlisted(t) ==
  IF wakeup_time[t] # NO_TIMEOUT THEN Without(TIMEOUT_LIST, t) ELSE TIMEOUT_LIST

\* wakeup acts on these states only.
MutantWakeable(t) == state[t] \in {"STOPPED", "INIT", "EXITED"}  \* mutant

Wakeable(t) == state[t] \in {"STOPPED", "INIT"}

\* yield boosts when enough timeslices have been given.
BoostDue == timeslices >= MFQ_TIMESLICES

\* What gain does with the thread that core c switched from.
Switched(c) == prev[c] # current_thread[c]

MutantRequeues(c) == FALSE                      \* mutant: READY not handled

Requeues(c) ==
  LET p == prev[c]
  IN  Switched(c) /\ state[p] = "READY" /\ p \in Threads

MutantNoRelease(c) == FALSE                     \* mutant: never released

Releases(c) == Switched(c) /\ state[prev[c]] = "EXITED"

\* The priority part of yield: undo a mutex penalty, then adjust for cause.
MutantRestores(t, cause) == FALSE               \* mutant: never restored

Restores(t, cause) == mutex_contention[t] /\ cause # "SCHED_MUTEX"

NewPriority(t, cause) ==
  LET p == IF Restores(t, cause) THEN prev_priority[t] ELSE priority[t]
  IN  CASE cause \in {"SCHED_MUTEX", "SCHED_QUANTUM"} ->
             IF p < MFQ_QUEUES - 1 THEN p + 1 ELSE p
        [] cause \in {"SCHED_USER", "SCHED_PIPE", "SCHED_IO"} ->
             IF p > 0 THEN p - 1 ELSE p
        [] OTHER -> p

-----------------------------------------------------------------------------
(* Operations of the thread (or interrupt handler) running on core c.      *)

\* Core c executes ordinary code, of a thread or of an interrupt handler.
Executes(c) ==
  /\ pc[c] = "run"
  /\ current_thread[c] = c => idle[c] # "halted"

\* spawn_thread: a TCB in state INIT.  CreateThread and Exec wake it later.
spawn_thread(c, t) ==
  /\ Executes(c) /\ current_thread[c] \in Threads
  /\ state[t] = "FREE"
  /\ state' = [state EXCEPT ![t] = "INIT"]
  /\ phase' = [phase EXCEPT ![t] = "CTX_CLEAN"]
  /\ wakeup_time' = [wakeup_time EXCEPT ![t] = NO_TIMEOUT]
  /\ priority' = [priority EXCEPT ![t] = 0]
  /\ mutex_contention' = [mutex_contention EXCEPT ![t] = FALSE]
  /\ active_threads' = active_threads + 1
  /\ UNCHANGED <<prev_priority, prev, SCHED, TIMEOUT_LIST, timeslices,
                 current_thread, pc, idle, clock>>

\* sched_queue_add also restarts one halted core, any of them here (the code
\* takes the one that halted last).
RestartOne ==
  LET halted == {d \in Cores : idle[d] = "halted"}
  IN  IF halted = {} THEN idle' = idle
      ELSE \E d \in halted : idle' = [idle EXCEPT ![d] = "yield"]

\* wakeup of a thread that sleeps or has not started (it does nothing to a
\* thread in another state), with sched_make_ready.
wakeup(c, t) ==
  /\ Executes(c)
  /\ Wakeable(t)
  /\ TIMEOUT_LIST' = Unlisted(t)
  /\ wakeup_time' = [wakeup_time EXCEPT ![t] = NO_TIMEOUT]
  /\ state' = [state EXCEPT ![t] = "READY"]
  /\ IF phase[t] = "CTX_CLEAN"
     THEN /\ SCHED' = [SCHED EXCEPT ![priority[t]] = Append(@, t)]
          /\ RestartOne
     ELSE UNCHANGED <<SCHED, idle>>
  /\ UNCHANGED <<phase, priority, mutex_contention, prev_priority, prev,
                 timeslices, active_threads, current_thread, pc, clock>>

\* sleep_releasing(STOPPED, _, _, timeout), up to its release of the lock.
SleepStopped(c, timeout) ==
  LET t == current_thread[c]
      w == clock + timeout
  IN  /\ Executes(c) /\ t \in Threads
      /\ state' = [state EXCEPT ![t] = "STOPPED"]
      /\ IF timeout = NO_TIMEOUT
         THEN UNCHANGED <<wakeup_time, TIMEOUT_LIST>>
         ELSE /\ w <= MaxClock                              \* bound
              /\ wakeup_time' = [wakeup_time EXCEPT ![t] = w]
              /\ TIMEOUT_LIST' = Inserted(t, w)
      /\ pc' = [pc EXCEPT ![c] = "sleep"]
      /\ UNCHANGED <<phase, priority, mutex_contention, prev_priority, prev,
                     SCHED, timeslices, active_threads, current_thread, idle,
                     clock>>

\* sleep_releasing(EXITED, ...): the end of ThreadExit and of Exit.
SleepExited(c) ==
  LET t == current_thread[c]
  IN  /\ Executes(c) /\ t \in Threads
      /\ state' = [state EXCEPT ![t] = "EXITED"]
      /\ pc' = [pc EXCEPT ![c] = "sleep"]
      /\ UNCHANGED <<phase, priority, mutex_contention, prev_priority,
                     wakeup_time, prev, SCHED, TIMEOUT_LIST, timeslices,
                     active_threads, current_thread, idle, clock>>

\* Who can be calling yield on core c, and for which cause.
MayYield(c, cause) ==
  LET t == current_thread[c]
  IN  \/ pc[c] = "sleep" /\ cause \in SleepCause
      \/ Executes(c) /\ t \in Threads /\ cause # "SCHED_IDLE"
      \/ Executes(c) /\ t \in Cores /\ cause = "SCHED_QUANTUM"  \* ALARM
      \/ Executes(c) /\ t \in Cores /\ cause = "SCHED_IDLE" /\ idle[c] = "yield"

\* yield's critical section, and its switch of CURTHREAD: priorities, boost,
\* timeouts, the choice of next, the links for gain.
yield(c, cause) ==
  LET t == current_thread[c]
      pri0 == [u \in Threads |->
                 IF u = t THEN NewPriority(t, cause) ELSE priority[u]]
      boost == BoostDue
      q1 == IF boost THEN Boosted(SCHED) ELSE SCHED
      pri1 == IF boost THEN BoostedPriority(SCHED, pri0) ELSE pri0
      due == SubSeq(TIMEOUT_LIST, 1, Due)
      q2 == AddAll(q1, pri1, due)
      none == NonEmpty(q2) = {}
      next == IF ~ none THEN Head(q2[FirstLevel(q2)])
              ELSE IF state[t] \in {"RUNNING", "READY"} THEN t ELSE c
  IN  /\ MayYield(c, cause)
      /\ priority' = pri1
      /\ prev_priority' = [u \in Threads |->
            CASE u = t /\ Restores(t, cause) -> 0
              [] u = t /\ cause = "SCHED_MUTEX" /\ ~ mutex_contention[t] ->
                   priority[t]
              [] OTHER -> prev_priority[u]]
      /\ mutex_contention' = [u \in Threads |->
            IF u = t THEN cause = "SCHED_MUTEX" ELSE mutex_contention[u]]
      /\ state' = [u \in TCB |->
            IF u \in ToSet(due) \/ (u = t /\ state[t] = "RUNNING")
            THEN "READY" ELSE state[u]]
      /\ wakeup_time' = [u \in Threads |->
            IF u \in ToSet(due) THEN NO_TIMEOUT ELSE wakeup_time[u]]
      /\ TIMEOUT_LIST' = SubSeq(TIMEOUT_LIST, Due + 1, Len(TIMEOUT_LIST))
      /\ SCHED' = IF none THEN q2
                  ELSE [q2 EXCEPT ![FirstLevel(q2)] = Tail(@)]
      /\ timeslices' = IF boost THEN 0 ELSE timeslices
      /\ prev' = [prev EXCEPT ![c] = t]
      /\ current_thread' = [current_thread EXCEPT ![c] = next]
      /\ pc' = [pc EXCEPT ![c] = "gain"]
      /\ LET back == IF t = c /\ cause = "SCHED_IDLE"
                     THEN [idle EXCEPT ![c] = "test"] ELSE idle
             woken == {d \in Cores : back[d] = "halted"}
         IN  \* one restart for each thread the timeouts made ready
             \E up \in SUBSET woken :
               /\ LET n == Cardinality({u \in ToSet(due) :
                                          phase[u] = "CTX_CLEAN"})
                  IN  Cardinality(up) =
                        IF n <= Cardinality(woken) THEN n ELSE Cardinality(woken)
               /\ idle' = [d \in Cores |->
                             IF d \in up THEN "yield" ELSE back[d]]
      /\ UNCHANGED <<phase, active_threads, clock>>

\* gain's critical section, on the thread that core c has switched to.
gain(c) ==
  LET t == current_thread[c]
      p == prev[c]
  IN  /\ pc[c] = "gain"
      /\ prev' = [prev EXCEPT ![c] = t]
      /\ timeslices' = timeslices + 1
      /\ state' = [state EXCEPT ![t] = "RUNNING",
                                ![p] = IF p = t THEN "RUNNING"
                                       ELSE IF Releases(c) THEN "FREE" ELSE @]
      /\ phase' = [phase EXCEPT ![p] = "CTX_CLEAN", ![t] = "CTX_DIRTY"]
      /\ SCHED' = IF Requeues(c)
                  THEN [SCHED EXCEPT ![priority[p]] = Append(@, p)] ELSE SCHED
      /\ IF Requeues(c) THEN RestartOne ELSE idle' = idle
      /\ active_threads' = IF Releases(c) THEN active_threads - 1
                           ELSE active_threads                 \* release_TCB
      /\ pc' = [pc EXCEPT ![c] = "run"]
      /\ UNCHANGED <<priority, mutex_contention, prev_priority, wakeup_time,
                     TIMEOUT_LIST, current_thread, clock>>

-----------------------------------------------------------------------------
(* The idle thread's loop.                                                 *)

\* while(active_threads > 0): into the body, or out of the scheduler, which
\* restarts every halted core.
IdleTest(c) ==
  /\ Executes(c) /\ current_thread[c] = c /\ idle[c] = "test"
  /\ IF active_threads > 0
     THEN /\ idle' = [idle EXCEPT ![c] = "halting"]
          /\ pc' = pc
     ELSE /\ idle' = [d \in Cores |->
                        IF idle[d] = "halted" THEN "yield" ELSE idle[d]]
          /\ pc' = [pc EXCEPT ![c] = "left"]
  /\ UNCHANGED <<tcbVars, prev, SCHED, TIMEOUT_LIST, timeslices, active_threads,
                 current_thread, clock>>

cpu_core_halt(c) ==
  /\ Executes(c) /\ current_thread[c] = c /\ idle[c] = "halting"
  /\ idle' = [idle EXCEPT ![c] = "halted"]
  /\ UNCHANGED <<tcbVars, prev, SCHED, TIMEOUT_LIST, timeslices, active_threads,
                 current_thread, pc, clock>>

\* An interrupt (the ALARM that gain set, a device, an ICI) ends the halt; the
\* handler of ALARM is the SCHED_QUANTUM yield of an idle thread.
Interrupt(c) ==
  /\ pc[c] = "run" /\ current_thread[c] = c /\ idle[c] = "halted"
  /\ idle' = [idle EXCEPT ![c] = "yield"]
  /\ UNCHANGED <<tcbVars, prev, SCHED, TIMEOUT_LIST, timeslices, active_threads,
                 current_thread, pc, clock>>

\* Time passes.
Tick ==
  /\ clock < MaxClock                                       \* bound
  /\ clock' = clock + 1
  /\ UNCHANGED <<tcbVars, prev, SCHED, TIMEOUT_LIST, timeslices, active_threads,
                 current_thread, pc, idle>>

-----------------------------------------------------------------------------
CoreStep(c) ==
  \/ \E t \in Threads : spawn_thread(c, t) \/ wakeup(c, t)
  \/ \E timeout \in Timeouts \cup {NO_TIMEOUT} : SleepStopped(c, timeout)
  \/ SleepExited(c)
  \/ \E cause \in SchedCause : yield(c, cause)
  \/ gain(c)
  \/ IdleTest(c)
  \/ cpu_core_halt(c)
  \/ Interrupt(c)

Next == Tick \/ \E c \in Cores : CoreStep(c)

Spec == Init /\ [][Next]_vars

(* Fairness.  gain arms a one-shot timer for every timeslice, so a core that
   runs is interrupted and yields with SCHED_QUANTUM, and a halted core is
   interrupted; the scheduler's own sections finish.  The idle loop's few
   instructions fit in a timeslice, so they are not put off for ever by the
   interrupts that come back to them (strong fairness).  Nothing else is fair:
   no thread has to sleep, exit or wake another.                            *)
SleepYield(c) == pc[c] = "sleep" /\ \E cause \in SleepCause : yield(c, cause)

\* What a core goes on with, once it is there, whatever the others do.
Section(c) == SleepYield(c) \/ gain(c) \/ Interrupt(c)
IdleStep(c) == IdleTest(c) \/ cpu_core_halt(c) \/ yield(c, "SCHED_IDLE")

CoreFairness(c) ==
  /\ WF_vars(yield(c, "SCHED_QUANTUM"))
  /\ WF_vars(Section(c))
  /\ SF_vars(IdleStep(c))

FairSpec == Spec /\ WF_vars(Tick) /\ \A c \in Cores : CoreFairness(c)

-----------------------------------------------------------------------------
(* Properties.                                                             *)

\* Every field keeps its type, and a priority stays an index of SCHED whatever
\* sequence of penalties, restorations and boosts it goes through.
TypeOK ==
  /\ state \in [TCB -> ThreadState]
  /\ phase \in [TCB -> {"CTX_CLEAN", "CTX_DIRTY"}]
  /\ priority \in [Threads -> Levels]
  /\ mutex_contention \in [Threads -> BOOLEAN]
  /\ prev_priority \in [Threads -> Levels]
  /\ wakeup_time \in [Threads -> 0 .. MaxClock \cup {NO_TIMEOUT}]
  /\ prev \in [Cores -> TCB]
  /\ SCHED \in [Levels -> Seq(Threads)]
  /\ TIMEOUT_LIST \in Seq(Threads)
  /\ timeslices \in Nat
  /\ active_threads \in Nat
  /\ current_thread \in [Cores -> TCB]
  /\ pc \in [Cores -> {"run", "sleep", "gain", "left"}]
  /\ idle \in [Cores -> {"yield", "test", "halting", "halted"}]
  /\ clock \in 0 .. MaxClock

\* The threads whose context core c is using: the current one and, until gain
\* is done, the one that core c is switching from.
OnCore(c) == {current_thread[c]} \cup
             (IF pc[c] = "gain" THEN {prev[c]} ELSE {})

\* No thread is ever given to a core while another core still runs on its
\* stack, and no idle thread leaves its core: the point of CTX_DIRTY, of
\* requeueing in gain and not in yield.
OneContext ==
  \A c, d \in Cores :
    /\ c # d => OnCore(c) \cap OnCore(d) = {}
    /\ OnCore(c) \cap Cores \subseteq {c}

\* The list node is in at most one place: a queued thread is in SCHED once, at
\* the level its priority names, READY and clean, and runs on no core.
QueueInv ==
  \A i \in Levels : \A k \in DOMAIN SCHED[i] :
    LET t == SCHED[i][k]
    IN  /\ state[t] = "READY" /\ phase[t] = "CTX_CLEAN" /\ priority[t] = i
        /\ \A j \in DOMAIN SCHED[i] : SCHED[i][j] = t => j = k
        /\ \A c \in Cores : t \notin OnCore(c)

\* A READY thread is never forgotten: it is queued, or a core that still has
\* its context will requeue it or run it.  This covers the wakeup that comes
\* between sleep_releasing's unlock and yield, and between yield and gain.
ReadyInv ==
  \A t \in Threads : state[t] = "READY" =>
    Queued(t) \/ \E c \in Cores : t \in OnCore(c)

\* TIMEOUT_LIST holds exactly the threads with a wakeup time, each once and
\* STOPPED, in the order of their times, so that sched_queue_select may stop
\* at the first one that is not due.
TimeoutInv ==
  /\ \A t \in Threads : wakeup_time[t] # NO_TIMEOUT <=> t \in ToSet(TIMEOUT_LIST)
  /\ \A j, k \in DOMAIN TIMEOUT_LIST : j < k =>
       /\ TIMEOUT_LIST[j] # TIMEOUT_LIST[k]
       /\ wakeup_time[TIMEOUT_LIST[j]] <= wakeup_time[TIMEOUT_LIST[k]]

\* The assertions of the code: sched_make_ready finds a thread with a wakeup
\* time STOPPED and linked (285); yield never finds its thread in a bad state
\* (475); gain never finds the previous thread INIT or RUNNING (560).
CodeAsserts ==
  /\ \A t \in Threads : wakeup_time[t] # NO_TIMEOUT =>
       state[t] = "STOPPED" /\ t \in ToSet(TIMEOUT_LIST) /\ ~ Queued(t)
  /\ \A t \in ToSet(TIMEOUT_LIST) : state[t] = "STOPPED"
  /\ \A c \in Cores :
       /\ pc[c] = "run" => state[current_thread[c]] = "RUNNING"
       /\ pc[c] = "sleep" =>
            state[current_thread[c]] \in {"READY", "STOPPED", "EXITED"}
       /\ pc[c] = "gain" /\ Switched(c) =>
            state[prev[c]] \in {"READY", "STOPPED", "EXITED"}

\* The memory of a released TCB is referenced from no list and no core, and
\* active_threads counts the TCBs that are not released, so no core leaves
\* the scheduler while a thread exists.
ReleaseInv ==
  /\ \A t \in Threads : state[t] = "FREE" =>
       /\ ~ Queued(t) /\ t \notin ToSet(TIMEOUT_LIST)
       /\ \A c \in Cores : t \notin OnCore(c)
  /\ active_threads = Cardinality({t \in Threads : state[t] # "FREE"})

\* What the scheduler's data keep through every interleaving of sleep_releasing,
\* wakeup, timeouts, yield and gain on all cores: no thread is lost, queued twice
\* or at the wrong level, or used after it is released.
SchedInv == TypeOK /\ QueueInv /\ ReadyInv /\ TimeoutInv /\ CodeAsserts /\ ReleaseInv

\* The priority a thread will have when its mutex penalty is undone.
BasePriority(t) == IF mutex_contention[t] THEN prev_priority[t] ELSE priority[t]

\* Spinning on a mutex costs a thread nothing but the penalty: however often it
\* yields with SCHED_MUTEX its base priority is the same.  Then the end of a
\* quantum lowers it by at most one level, and a wait never lowers it at all.
MutexPenaltyUndone ==
  [][\A c \in Cores, t \in Threads : t = current_thread[c] /\ pc'[c] = "gain" =>
       \A cause \in SchedCause : yield(c, cause) =>
         LET d == BasePriority(t)' - BasePriority(t)
         IN  CASE cause = "SCHED_MUTEX" -> d = 0
               [] cause = "SCHED_QUANTUM" -> d \in {0, 1}
               [] OTHER -> d \in {-1, 0}]_vars

(* Liveness, under FairSpec, is stated in MCSchedLive: a READY thread runs, a *)
(* sleeper whose time has come is made ready, the cores leave after the last  *)
(* exit.                                                                      *)

-----------------------------------------------------------------------------
(* The refinement of ThreadLife.  A core executes a thread until gain has  *)
(* finished the switch away from it.                                       *)

LifeOf(st) == CASE st = "FREE" -> "absent"
                [] st \in {"INIT", "STOPPED"} -> "blocked"
                [] st \in {"READY", "RUNNING"} -> "runnable"
                [] st = "EXITED" -> "exited"

Life == INSTANCE ThreadLife WITH
  life <- [t \in Threads |-> LifeOf(state[t])],
  on <- [c \in Cores |-> IF pc[c] = "gain" THEN prev[c] ELSE current_thread[c]]

\* Each critical section of the scheduler is a step of ThreadLife or changes
\* nothing it can see; in particular every switch that gain completes is to a
\* runnable thread that is on no core, and a thread that has exited is never made
\* ready again, only released.
ImplementsThreadLife == Life!Spec
=============================================================================
