----------------------------- MODULE Symposium -----------------------------
(***************************************************************************)
(* The dining philosophers of symposium.c: a monitor (SymposiumTable) that *)
(* N philosophers share, and the host that makes the table, starts them as *)
(* processes or as threads, waits for them and destroys the table.         *)
(*                                                                         *)
(* What a philosopher does between Mutex_Lock and Mutex_Unlock of the      *)
(* table's mutex is one step; Cond_Wait gives the mutex back and sleeps in *)
(* one step, as the kernel promises (KernelCC), and returns later, with    *)
(* the mutex.  Thinking and eating take any time.                          *)
(***************************************************************************)
EXTENDS Naturals, FiniteSets

CONSTANTS N, bites   \* symposium_t

Phil == 0 .. N - 1

VARIABLES
  state,     \* S->state[i]
  place,     \* where philosopher i is in SymposiumTable_philosopher
  bite,      \* bites taken
  sleeping,  \* the philosophers asleep on their S->hungry[i]
  host,      \* where the host is: its loop and the index of it
  kind,      \* the host is SymposiumOfProcesses or SymposiumOfThreads
  table      \* "none", "made", "freed"

vars == <<state, place, bite, sleeping, host, kind, table>>
philVars == <<state, place, bite, sleeping>>

LEFT(i) == (i + 1) % N
RIGHT(i) == (i + N - 1) % N

Init ==
  /\ state = [i \in Phil |-> "NOTHERE"]
  /\ place = [i \in Phil |-> "absent"]
  /\ bite = [i \in Phil |-> 0]
  /\ sleeping = {}
  /\ host = <<"init", 0>>
  /\ kind = "processes" /\ table = "none"

-----------------------------------------------------------------------------
(* The monitor.                                                            *)

\* A hungry philosopher may eat when neither neighbour eats.
CanEat(st, i) ==
  st[i] = "HUNGRY" /\ st[LEFT(i)] # "EATING" /\ st[RIGHT(i)] # "EATING"

\* trytoeat(i) on the states st.
MutantTrytoeat(st, i) ==                          \* mutant: right neighbour not looked at
  IF st[i] = "HUNGRY" /\ st[LEFT(i)] # "EATING" THEN [st EXCEPT ![i] = "EATING"] ELSE st

trytoeat(st, i) == IF CanEat(st, i) THEN [st EXCEPT ![i] = "EATING"] ELSE st

\* A table step of i: its states become st, whoever starts to eat is signalled,
\* and i goes on at label.
Monitor(i, st, label) ==
  /\ place[i] # "absent"
  /\ state' = st
  /\ place' = [place EXCEPT ![i] = label]
  /\ sleeping' = {j \in sleeping : ~ (st[j] = "EATING" /\ state[j] # "EATING")}
  /\ UNCHANGED <<host, kind, table>>

Arrive(i) ==
  /\ place[i] = "arrive"
  /\ Monitor(i, [state EXCEPT ![i] = "THINKING"], "think")
  /\ UNCHANGED bite

\* The philosopher has thought, is hungry and tries; if it fails, it sleeps.
Hungry(i) ==
  /\ place[i] = "think" /\ bite[i] < bites
  /\ state' = trytoeat([state EXCEPT ![i] = "HUNGRY"], i)
  /\ IF state'[i] = "HUNGRY"
     THEN place' = [place EXCEPT ![i] = "wait"] /\ sleeping' = sleeping \cup {i}
     ELSE place' = [place EXCEPT ![i] = "eat"] /\ UNCHANGED sleeping
  /\ UNCHANGED <<bite, host, kind, table>>

\* Cond_Wait returns; the loop tests the state again.
Wake(i) ==
  /\ place[i] = "wait" /\ i \notin sleeping
  /\ IF state[i] = "HUNGRY"
     THEN sleeping' = sleeping \cup {i} /\ UNCHANGED place
     ELSE place' = [place EXCEPT ![i] = "eat"] /\ UNCHANGED sleeping
  /\ UNCHANGED <<state, bite, host, kind, table>>

\* The philosopher has eaten: both neighbours may start to eat now.
MutantPutDown(i) == trytoeat([state EXCEPT ![i] = "THINKING"], LEFT(i))   \* mutant: left only

PutDown(i) ==
  trytoeat(trytoeat([state EXCEPT ![i] = "THINKING"], LEFT(i)), RIGHT(i))

Think(i) ==
  /\ place[i] = "eat"
  /\ Monitor(i, PutDown(i), "think")
  /\ bite' = [bite EXCEPT ![i] = @ + 1]

Leave(i) ==
  /\ place[i] = "think" /\ bite[i] = bites
  /\ Monitor(i, [state EXCEPT ![i] = "NOTHERE"], "gone")
  /\ UNCHANGED bite

-----------------------------------------------------------------------------
(* The host.                                                               *)

\* SymposiumTable_init.
HostInit ==
  /\ host[1] = "init"
  /\ kind' \in {"processes", "threads"}
  /\ table' = "made"
  /\ host' = <<"start", 0>>
  /\ UNCHANGED philVars

\* Exec or CreateThread of philosopher i.  Exec fails when there is no free
\* PCB, and its result is not looked at.
HostStart ==
  /\ host[1] = "start" /\ host[2] < N
  /\ \/ place' = [place EXCEPT ![host[2]] = "arrive"]
     \/ kind = "processes" /\ UNCHANGED place
  /\ host' = <<"start", host[2] + 1>>
  /\ UNCHANGED <<state, bite, sleeping, kind, table>>

\* WaitChild(NOPROC) collects any child, or fails when there is none;
\* ThreadJoin waits for one thread.

Collect ==
  \/ kind = "processes" /\ \E i \in Phil : place[i] = "gone" /\ place' = [place EXCEPT ![i] = "absent"]
  \/ kind = "processes" /\ (\A i \in Phil : place[i] = "absent") /\ UNCHANGED place
  \/ kind = "threads" /\ place[host[2]] = "gone" /\ place' = [place EXCEPT ![host[2]] = "absent"]

HostStarted ==
  /\ host = <<"start", N>>
  /\ host' = <<"wait", 0>>
  /\ UNCHANGED <<philVars, kind, table>>

HostWait ==
  /\ host[1] = "wait" /\ host[2] < N
  /\ Collect
  /\ host' = <<"wait", host[2] + 1>>
  /\ UNCHANGED <<state, bite, sleeping, kind, table>>

\* SymposiumTable_destroy.
HostDestroy ==
  /\ host = <<"wait", N>>
  /\ table' = "freed" /\ host' = <<"done", 0>>
  /\ UNCHANGED <<philVars, kind>>

-----------------------------------------------------------------------------
Philosopher(i) == Arrive(i) \/ Hungry(i) \/ Wake(i) \/ Think(i) \/ Leave(i)

Host == HostInit \/ HostStart \/ HostStarted \/ HostWait \/ HostDestroy

Next == Host \/ \E i \in Phil : Philosopher(i)

-----------------------------------------------------------------------------
(* Properties.                                                             *)

\* Neighbours never eat at once; a hungry philosopher sleeps only while a
\* neighbour eats, so that somebody is going to try for it; whoever is let eat
\* is awake; and nobody is at a table that has been destroyed.
TableInv ==
  /\ state \in [Phil -> {"NOTHERE", "THINKING", "HUNGRY", "EATING"}]
  /\ \A i \in Phil : state[i] = "EATING" /\ N > 1 => state[LEFT(i)] # "EATING"
  /\ \A i \in Phil : state[i] = "HUNGRY" =>
       "EATING" \in {state[LEFT(i)], state[RIGHT(i)]}
  /\ \A i \in sleeping : place[i] = "wait" /\ state[i] = "HUNGRY"
  /\ \A i \in Phil : place[i] \notin {"absent", "gone"} => table = "made"

\* The symposium ends: every philosopher that came takes all its bites and
\* leaves, and the host gets to destroy the table.
SymposiumEnds == <>(host[1] = "done")
=============================================================================
