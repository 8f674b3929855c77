----------------------------- MODULE ThreadLife -----------------------------
(***************************************************************************)
(* What the rest of the kernel relies on from the scheduler, without its   *)
(* queues, priorities, phases or locks: a thread is blocked or runnable,   *)
(* a core executes one thread (or its idle thread) at a time, and a core   *)
(* only ever switches to a runnable thread that no core is executing.      *)
(***************************************************************************)
CONSTANTS Threads, Cores, BootThread

VARIABLES
  life,    \* "absent", "blocked", "runnable" or "exited"
  on       \* on[c]: the thread core c executes, c itself for its idle thread

vars == <<life, on>>

Init ==
  /\ life = [t \in Threads |-> IF t = BootThread THEN "runnable" ELSE "absent"]
  /\ on = [c \in Cores |-> c]

\* Threads are created blocked, and are started by a wake-up.
Create(t) ==
  /\ life[t] = "absent"
  /\ life' = [life EXCEPT ![t] = "blocked"]
  /\ UNCHANGED on

\* Some blocked threads are woken: one by a signal, or several by a timeout.
Wake(S) ==
  /\ S # {} /\ \A t \in S : life[t] = "blocked"
  /\ life' = [t \in Threads |-> IF t \in S THEN "runnable" ELSE life[t]]
  /\ UNCHANGED on

\* The thread that core c executes blocks, or ends.  It stays on the core
\* until the core switches to another thread.
Stop(c, how) ==
  /\ on[c] \in Threads /\ life[on[c]] = "runnable"
  /\ life' = [life EXCEPT ![on[c]] = how]
  /\ UNCHANGED on

\* Core c switches to u; a thread that has exited is gone when its core has
\* left it.
Switch(c, u) ==
  /\ u # on[c] /\ \A d \in Cores : on[d] # u
  /\ u \in Threads => life[u] = "runnable"
  /\ on' = [on EXCEPT ![c] = u]
  /\ life' = [t \in Threads |->
                IF t = on[c] /\ life[t] = "exited" THEN "absent" ELSE life[t]]

Next ==
  \/ \E t \in Threads : Create(t)
  \/ \E S \in SUBSET Threads : Wake(S)
  \/ \E c \in Cores : \/ Stop(c, "blocked") \/ Stop(c, "exited")
                      \/ \E u \in Threads \cup {c} : Switch(c, u)

Spec == Init /\ [][Next]_vars
=============================================================================
