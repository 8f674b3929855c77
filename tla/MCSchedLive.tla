----------------------------- MODULE MCSchedLive -----------------------------
(***************************************************************************)
(* The liveness of Sched, on two instances of it: one core that three      *)
(* threads contend for, and two cores that a single sleeper leaves idle.   *)
(* A behaviour is one of the first or one of the second.                   *)
(***************************************************************************)
EXTENDS Naturals, FiniteSets

CONSTANTS t1, t2, t3, c1, c2

VARIABLES
  case,      \* "contend" or "idle": the instance
  state, phase, priority, mutex_contention, prev_priority, wakeup_time, prev,
  SCHED, TIMEOUT_LIST, timeslices, active_threads, current_thread, pc, idle, clock

schedVars == <<state, phase, priority, mutex_contention, prev_priority, wakeup_time, prev,
               SCHED, TIMEOUT_LIST, timeslices, active_threads, current_thread, pc, idle, clock>>

Contend == INSTANCE Sched WITH
  Threads <- {t1, t2, t3}, Cores <- {c1}, BootThread <- t1,
  MFQ_QUEUES <- 2, MFQ_TIMESLICES <- 2, Timeouts <- {}, MaxClock <- 0

Leave == INSTANCE Sched WITH
  Threads <- {t1}, Cores <- {c1, c2}, BootThread <- t1,
  MFQ_QUEUES <- 1, MFQ_TIMESLICES <- 1, Timeouts <- {0, 1}, MaxClock <- 2

LiveInit ==
  \/ case = "contend" /\ Contend!Init
  \/ case = "idle" /\ Leave!Init

LiveNext ==
  /\ UNCHANGED case
  /\ \/ case = "contend" /\ Contend!Next
     \/ case = "idle" /\ Leave!Next

\* The fairness of Sched's FairSpec, for the instance that runs.
Contends(A, c) == case = "contend" /\ c = c1 /\ A
Idles(A) == case = "idle" /\ A

CoreFair(c) ==
  /\ WF_schedVars(\/ Contends(Contend!yield(c, "SCHED_QUANTUM"), c)
                  \/ Idles(Leave!yield(c, "SCHED_QUANTUM")))
  /\ WF_schedVars(Contends(Contend!Section(c), c) \/ Idles(Leave!Section(c)))
  /\ SF_schedVars(Contends(Contend!IdleStep(c), c) \/ Idles(Leave!IdleStep(c)))

LiveSpec ==
  /\ LiveInit /\ [][LiveNext]_<<case, schedVars>>
  /\ WF_schedVars(Idles(Leave!Tick)) /\ \A c \in {c1, c2} : CoreFair(c)

-----------------------------------------------------------------------------
(* The properties of Sched, each of its instance.                          *)

\* Starvation freedom: with three threads on one core a thread that is READY
\* runs, because of sched_boost.
ReadyRuns ==
  \A t \in {t1, t2, t3} :
    (case = "contend" /\ state[t] = "READY") ~> (case = "contend" => state[t] = "RUNNING")

\* A sleeper whose time has come is made ready, although every core was idle or
\* halted and the clock may have passed its time.
TimeoutWakes ==
  (case = "idle" /\ wakeup_time[t1] # Leave!NO_TIMEOUT /\ wakeup_time[t1] <= clock)
    ~> (state[t1] \in {"READY", "RUNNING"})

\* When the last thread has exited every core leaves the scheduler, the halted
\* one included.
CoresLeave ==
  (case = "idle" /\ state[t1] \in {"EXITED", "FREE"})
    ~> (case = "idle" => \A c \in {c1, c2} : pc[c] = "left")
=============================================================================
