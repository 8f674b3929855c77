------------------------------ MODULE Threads ------------------------------
(***************************************************************************)
(* The threads of one process (kernel_threads.c): their PTCBs, the list of *)
(* them in the PCB, and the calls CreateThread, ThreadJoin, ThreadDetach   *)
(* and ThreadExit.  Thread 0 is the main thread, whose PTCB Exec makes     *)
(* detached and leaves out of ptcb_list.                                   *)
(*                                                                         *)
(* A step is what a call does between two points where it gives up the     *)
(* kernel lock (KernelCC, KernelLock): the call up to its sleep, or from   *)
(* its wakeup on.  The calls name threads that have a TCB: a Tid_t is a    *)
(* pointer, and one that is kept after the thread is gone is not followed. *)
(* A step that follows a pointer to a freed PTCB sets corrupt: the code    *)
(* may do anything then, and nothing more is said of it.  Exit values are  *)
(* left out: ThreadExit stores its own before anything else.               *)
(***************************************************************************)
EXTENDS Integers, Sequences, SequencesExt, FiniteSets, ListOps

CONSTANT N   \* the threads besides the main one

ASSUME NAssumption == N \in Nat

Main == 0
Threads == 0 .. N
Others == Threads \ {Main}

VARIABLES
  ptcb_list,        \* pcb->ptcb_list
  thread_count,     \* pcb->thread_count
  ptcb,             \* the PTCB of each thread
  freed,            \* the threads whose PTCB has been freed
  pc,               \* where each thread is
  target,           \* whom it joins
  asleep,           \* whether it sleeps in kernel_wait
  corrupt           \* freed memory has been used

vars == <<ptcb_list, thread_count, ptcb, freed, pc, target, asleep, corrupt>>

None == -1

\* memset in Create_PTCB.
Create_PTCB == [waiting_threads |-> 0, detached |-> FALSE]

Init ==
  /\ ptcb_list = <<>>
  /\ thread_count = 1
  /\ ptcb = [t \in Threads |-> [Create_PTCB EXCEPT !.detached = (t = Main)]]
  /\ freed = {}
  /\ pc = [t \in Threads |-> IF t = Main THEN "run" ELSE "none"]
  /\ target = [t \in Threads |-> None]
  /\ asleep = [t \in Threads |-> FALSE]
  /\ corrupt = FALSE

\* Where a step may begin: in user code, or awake again in the kernel.  A main
\* thread that spins in ThreadExit keeps the kernel lock.
KernelFree == ~ corrupt /\ pc[Main] # "spin"
Running(t) == KernelFree /\ pc[t] = "run"
Woken(t, label) == KernelFree /\ pc[t] = label /\ ~ asleep[t]

HasTCB(u) == pc[u] \notin {"none", "EXITED"}

Corrupt ==
  /\ corrupt' = TRUE
  /\ UNCHANGED <<ptcb_list, thread_count, ptcb, freed, pc, target, asleep>>

\* Cond_Broadcast of the PTCB's condition variables: waiting, where the thread
\* itself sleeps in ThreadExit, and thread_join, where its joiners do.
MutantWakeExiting(u) == asleep                    \* mutant: no broadcast of waiting

WakeExiting(u) == [asleep EXCEPT ![u] = IF pc[u] = "exiting" THEN FALSE ELSE @]
MutantWakeJoiners(u) ==                           \* mutant: Cond_Signal
  IF \E t \in Threads : pc[t] \in {"join", "mainexit"} /\ target[t] = u
  THEN [asleep EXCEPT ![CHOOSE t \in Threads :
          pc[t] \in {"join", "mainexit"} /\ target[t] = u] = FALSE]
  ELSE asleep

WakeJoiners(u) ==
  [t \in Threads |-> asleep[t] /\ ~ (pc[t] \in {"join", "mainexit"} /\ target[t] = u)]

-----------------------------------------------------------------------------
sys_CreateThread(t) ==
  /\ Running(t)
  /\ \E u \in Others :
       /\ pc[u] = "none" /\ \A v \in 1 .. u - 1 : pc[v] # "none"
       /\ ptcb' = [ptcb EXCEPT ![u] = Create_PTCB]
       /\ ptcb_list' = Append(ptcb_list, u)
       /\ pc' = [pc EXCEPT ![u] = "run"]
  /\ thread_count' = thread_count + 1
  /\ UNCHANGED <<freed, target, asleep, corrupt>>

\* The tests of ThreadJoin; a call that fails one returns -1 and changes nothing.
Joinable(t, u) == u \notin {t, Main} /\ ~ ptcb[u].detached

JoinSleep(t, u, label) ==
  /\ ptcb' = [ptcb EXCEPT ![u].waiting_threads = @ + 1]
  /\ asleep' = [WakeExiting(u) EXCEPT ![t] = TRUE]
  /\ pc' = [pc EXCEPT ![t] = label]
  /\ target' = [target EXCEPT ![t] = u]
  /\ UNCHANGED <<ptcb_list, thread_count, freed, corrupt>>

sys_ThreadJoin(t, u) ==
  /\ Running(t) /\ HasTCB(u) /\ u # t
  /\ IF u \in freed THEN Corrupt
     ELSE Joinable(t, u) /\ JoinSleep(t, u, "join")

\* The end of ThreadJoin: the last of the joiners frees the PTCB.
Collect(t, u) ==
  LET last == ptcb[u].waiting_threads = 1
  IN  /\ ptcb' = [ptcb EXCEPT ![u].waiting_threads = @ - 1]
      /\ thread_count' = thread_count - IF last THEN 1 ELSE 0
      /\ ptcb_list' = IF last THEN Without(ptcb_list, u) ELSE ptcb_list
      /\ freed' = IF last THEN freed \cup {u} ELSE freed

JoinReturn(t) ==
  /\ Woken(t, "join")
  /\ IF target[t] \in freed THEN Corrupt
     ELSE /\ Collect(t, target[t])
          /\ pc' = [pc EXCEPT ![t] = "run"]
          /\ target' = [target EXCEPT ![t] = None]
          /\ UNCHANGED <<asleep, corrupt>>

sys_ThreadDetach(t, u) ==
  /\ Running(t) /\ HasTCB(u)
  /\ IF u \in freed THEN Corrupt
     ELSE /\ ptcb' = [ptcb EXCEPT ![u].detached = TRUE]
          /\ asleep' = IF ptcb[u].waiting_threads > 0 THEN WakeJoiners(u) ELSE asleep
          /\ UNCHANGED <<ptcb_list, thread_count, freed, pc, target, corrupt>>

\* ThreadExit of a thread that is not the main one, in three parts: a detached
\* thread goes, with its PTCB; one that nobody waits for yet sleeps until
\* somebody does; the others detach themselves, which wakes the joiners, and go.
MutantExitDetached(t) ==                          \* mutant: stays in ptcb_list
  /\ freed' = freed \cup {t}
  /\ thread_count' = thread_count - 1
  /\ pc' = [pc EXCEPT ![t] = "EXITED"]
  /\ UNCHANGED <<ptcb_list, target, asleep, corrupt>>

ExitDetached(t) ==
  /\ freed' = freed \cup {t}
  /\ ptcb_list' = Without(ptcb_list, t)
  /\ thread_count' = thread_count - 1
  /\ pc' = [pc EXCEPT ![t] = "EXITED"]
  /\ UNCHANGED <<target, asleep, corrupt>>

ExitWait(t) ==
  /\ pc' = [pc EXCEPT ![t] = "exiting"]
  /\ asleep' = [asleep EXCEPT ![t] = TRUE]
  /\ UNCHANGED <<ptcb_list, thread_count, freed, target, corrupt>>

ExitJoined(t) ==
  /\ asleep' = IF ptcb[t].waiting_threads > 0 THEN WakeJoiners(t) ELSE asleep
  /\ pc' = [pc EXCEPT ![t] = "EXITED"]
  /\ UNCHANGED <<ptcb_list, thread_count, freed, target, corrupt>>

sys_ThreadExit(t) ==
  /\ Running(t) /\ t # Main
  /\ IF t \in freed THEN Corrupt
     ELSE LET joined == ptcb[t].waiting_threads > 0
          IN  /\ ptcb' = [ptcb EXCEPT ![t].detached = @ \/ joined]
              /\ CASE ptcb[t].detached -> ExitDetached(t)
                   [] ~ ptcb[t].detached /\ ~ joined -> ExitWait(t)
                   [] OTHER -> ExitJoined(t)

ExitResume(t) ==
  /\ Woken(t, "exiting")
  /\ IF t \in freed THEN Corrupt
     ELSE /\ ptcb' = [ptcb EXCEPT ![t].detached = TRUE]
          /\ ExitJoined(t)

\* The loop of the main thread's ThreadExit: join the first of ptcb_list until
\* the list is empty.  When that thread cannot be joined the loop does not end,
\* and nobody else can enter the kernel.  (The TCB of one that has exited may be
\* released already; what is left in it leads to the same test of detached.)
\* Then start_main_thread calls Exit.
MainLoop(list) ==
  IF list = <<>>
  THEN pc' = [pc EXCEPT ![Main] = "exit"] /\ UNCHANGED <<asleep, target>>
  ELSE IF Joinable(Main, Head(list))
  THEN /\ pc' = [pc EXCEPT ![Main] = "mainexit"]
       /\ target' = [target EXCEPT ![Main] = Head(list)]
       /\ asleep' = [WakeExiting(Head(list)) EXCEPT ![Main] = TRUE]
  ELSE pc' = [pc EXCEPT ![Main] = "spin"] /\ UNCHANGED <<asleep, target>>

\* The join of the loop adds the caller to the joiners of the head.
CountMain(p, list) ==
  IF list # <<>> /\ Joinable(Main, Head(list))
  THEN [p EXCEPT ![Head(list)].waiting_threads = @ + 1] ELSE p

MainExit ==
  /\ Running(Main)
  /\ MainLoop(ptcb_list)
  /\ ptcb' = CountMain(ptcb, ptcb_list)
  /\ UNCHANGED <<ptcb_list, thread_count, freed, corrupt>>

MainExitResume ==
  /\ Woken(Main, "mainexit")
  /\ LET u == target[Main]
         last == ptcb[u].waiting_threads = 1
         p == [ptcb EXCEPT ![u].waiting_threads = @ - 1]
         list == IF last THEN Without(ptcb_list, u) ELSE ptcb_list
     IN  IF u \in freed THEN Corrupt
         ELSE /\ freed' = IF last THEN freed \cup {u} ELSE freed
              /\ thread_count' = thread_count - IF last THEN 1 ELSE 0
              /\ ptcb_list' = list
              /\ ptcb' = CountMain(p, list)
              /\ MainLoop(list)
              /\ UNCHANGED corrupt

\* Exit, which disconnects and frees the main thread's PTCB.
MainGone ==
  /\ KernelFree /\ pc[Main] = "exit"
  /\ pc' = [pc EXCEPT ![Main] = "EXITED"]
  /\ freed' = freed \cup {Main}
  /\ UNCHANGED <<ptcb_list, thread_count, ptcb, target, asleep, corrupt>>

-----------------------------------------------------------------------------
Call(t) ==
  \/ sys_CreateThread(t)
  \/ \E u \in Others : sys_ThreadJoin(t, u) \/ sys_ThreadDetach(t, u)
  \/ sys_ThreadExit(t)

Resume(t) == JoinReturn(t) \/ ExitResume(t)

Next ==
  \/ \E t \in Threads : Call(t) \/ Resume(t)
  \/ MainExit \/ MainExitResume \/ MainGone

Spec == Init /\ [][Next]_vars

\* Some woken thread goes on (KernelLock).
FairSpec ==
  Spec /\ WF_vars((\E t \in Threads : Resume(t)) \/ MainExitResume \/ MainGone)

-----------------------------------------------------------------------------
(* Properties.                                                             *)

\* Every field keeps its type.
TypeOK ==
  /\ ptcb_list \in Seq(Others)
  /\ thread_count \in 0 .. N + 1
  /\ ptcb \in [Threads -> [waiting_threads : 0 .. N, detached : BOOLEAN]]
  /\ freed \subseteq Threads
  /\ pc \in [Threads -> {"none", "run", "join", "exiting", "mainexit", "spin",
                         "exit", "EXITED"}]
  /\ target \in [Threads -> Others \cup {None}]
  /\ asleep \in [Threads -> BOOLEAN] /\ corrupt \in BOOLEAN

Joiners(u) == {t \in Threads : pc[t] \in {"join", "mainexit"} /\ target[t] = u}

\* The counts and lists agree, across every interleaving of joins, detaches and
\* exits: ptcb_list has each PTCB that is not freed once and thread_count
\* counts them and the main thread; waiting_threads counts the joiners between
\* their call and their return; a thread that has exited without being freed
\* has a joiner that will free it.
ListInv ==
  TypeOK /\ (~ corrupt =>
    LET created == {u \in Others : pc[u] # "none"}
    IN  /\ ToSet(ptcb_list) = created \ freed
        /\ Len(ptcb_list) = Cardinality(created \ freed)
        /\ thread_count = Len(ptcb_list) + 1
        /\ \A u \in created \ freed :
             /\ ptcb[u].waiting_threads = Cardinality(Joiners(u))
             /\ pc[u] = "EXITED" => Joiners(u) # {})

\* tinyos.h:336 "all must return the exit status correctly": a joiner sleeps
\* only while its target lives and has not been detached, so the broadcast that
\* ends a thread reaches every one of its joiners; and a thread sleeps in
\* ThreadExit only while nobody joins it.
JoinInv ==
  ~ corrupt => \A t \in Threads : asleep[t] =>
    /\ pc[t] \in {"join", "mainexit"} =>
         HasTCB(target[t]) /\ ~ ptcb[target[t]].detached /\ target[t] \notin freed
    /\ pc[t] = "exiting" => Joiners(t) = {}

\* A join that is woken returns, unless the memory is corrupt or the main
\* thread spins; and so a thread that a sleeping joiner waits for does not stay
\* in ThreadExit.
JoinReturns ==
  \A t \in Threads :
    (pc[t] = "join" /\ pc[target[t]] \in {"exiting", "EXITED"})
      ~> (pc[t] = "run" \/ ~ KernelFree)

\* kernel_threads.c:134 "If it's the main thread, first wait all other threads
\* to finish their Task. Then ... finally Exit() the process": once every other
\* thread has called ThreadExit, or never will, the main thread's returns.
\* It does not: it may find at the head of the list a thread that has exited
\* and whose joiner has not yet run, which is not joinable any more.
MainExitEnds ==
  (pc[Main] = "mainexit" /\ \A u \in Others : pc[u] \in {"none", "exiting", "EXITED"})
    ~> (pc[Main] = "EXITED" \/ corrupt)
=============================================================================
