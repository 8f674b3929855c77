-------------------------------- MODULE Proc --------------------------------
(***************************************************************************)
(* kernel_proc.c: the process table, Exec, Exit and WaitChild, with the    *)
(* intrusive lists that tie a process to its parent and the free list that *)
(* is threaded through the parent fields.                                  *)
(*                                                                         *)
(* Every system call runs with the kernel lock and gives it up only inside *)
(* kernel_wait, so a step is what a call does up to its next kernel_wait   *)
(* or its return.  Process 0, the scheduler's, takes no part.              *)
(***************************************************************************)
EXTENDS Integers, Sequences, FiniteSets, ListOps

CONSTANTS N,             \* the processes are 1 .. N, of which 1 is the initial
          K,             \* threads of each process that make these calls
          ExitValues

ASSUME ProcAssumption ==
  /\ N \in Nat \ {0} /\ K \in Nat \ {0}
  /\ 0 \in ExitValues

Procs == 1 .. N
NULL == -1                       \* also NOPROC, get_pid(NULL)
Threads == Procs \X (1 .. K)     \* <<p, k>>: a thread of process p

VARIABLES
  pstate, parent, exitval, children_list, exited_list,  \* fields of each PCB
  pcb_freelist,
  pc,            \* "run", or the call the thread is in: "child", "any" (the
                 \* two forms of WaitChild), or "exit" (sys_Exit's loop)
  wanted,        \* the child, in "child"; the exit value, in "exit"
  asleep,        \* the thread sleeps on child_exit of its process
  out            \* <<caller, child, value>> of the WaitChild that returned in
                 \* the last step, <<>> if it was another step

pcbs == <<pstate, parent, exitval, children_list, exited_list, pcb_freelist>>
vars == <<pcbs, pc, wanted, asleep, out>>

Init ==
  /\ pstate = [p \in Procs |-> IF p = 1 THEN "ALIVE" ELSE "FREE"]
  /\ parent = [p \in Procs |-> IF p \in {1, N} THEN NULL ELSE p + 1]
  /\ exitval = [p \in Procs |-> 0]
  /\ children_list = [p \in Procs |-> <<>>]
  /\ exited_list = [p \in Procs |-> <<>>]
  /\ pcb_freelist = IF N = 1 THEN NULL ELSE 2
  /\ pc = [t \in Threads |-> "run"]
  /\ wanted = [t \in Threads |-> NULL]
  /\ asleep = [t \in Threads |-> FALSE]
  /\ out = <<>>

Running(t) == pstate[t[1]] = "ALIVE" /\ pc[t] = "run"

\* kernel_broadcast(& child_exit) of the processes in P.
Broadcast(P) == asleep' = [t \in Threads |-> asleep[t] /\ t[1] \notin P]

-----------------------------------------------------------------------------
(* sys_Exec, with acquire_PCB.                                             *)

sys_Exec(t) ==
  LET cur == t[1]
      new == pcb_freelist
  IN  /\ Running(t) /\ new # NULL
      /\ pcb_freelist' = parent[new]
      /\ pstate' = [pstate EXCEPT ![new] = "ALIVE"]
      /\ parent' = [parent EXCEPT ![new] = cur]
      /\ children_list' = [children_list EXCEPT ![cur] = <<new>> \o @]
      /\ out' = <<>>
      /\ UNCHANGED <<exitval, exited_list, pc, wanted, asleep>>

-----------------------------------------------------------------------------
(* sys_WaitChild.                                                          *)

\* cleanup_zombie of each of zs in turn: out of the lists, onto the free list.
RemoveExited(zs) ==
  exited_list' = [p \in Procs |-> Kept(exited_list[p], Procs \ ToSet(zs))]

MutantLink(zs, c) == NULL             \* mutant: the old free list is lost

Link(zs, c) ==
  LET k == CHOOSE i \in DOMAIN zs : zs[i] = c
  IN  IF k = 1 THEN pcb_freelist ELSE zs[k - 1]

cleanup_zombie(zs) ==
  /\ children_list' = [p \in Procs |-> Kept(children_list[p], Procs \ ToSet(zs))]
  /\ RemoveExited(zs)
  /\ parent' = [c \in Procs |-> IF c \in ToSet(zs) THEN Link(zs, c) ELSE parent[c]]
  /\ pcb_freelist' = IF zs = <<>> THEN pcb_freelist ELSE zs[Len(zs)]

\* The caller goes to sleep in call, or returns child c.
Wait(t, call, c) ==
  /\ pc' = [pc EXCEPT ![t] = call]
  /\ wanted' = [wanted EXCEPT ![t] = c]
  /\ asleep' = [asleep EXCEPT ![t] = TRUE]
  /\ out' = <<>>
  /\ UNCHANGED pcbs

Collect(t, c) ==
  /\ cleanup_zombie(<<c>>)
  /\ pstate' = [pstate EXCEPT ![c] = "FREE"]
  /\ out' = <<t[1], c, exitval[c]>>
  /\ pc' = [pc EXCEPT ![t] = "run"]
  /\ wanted' = [wanted EXCEPT ![t] = NULL]
  /\ UNCHANGED <<exitval, asleep>>

\* wait_for_specific_child, from its while on.
SpecificChild(t, c) ==
  \/ pstate[c] = "ALIVE" /\ Wait(t, "child", c)
  \/ pstate[c] # "ALIVE" /\ Collect(t, c)

\* wait_for_any_child, from its while on.
AnyChild(t) ==
  LET exited == exited_list[t[1]]
  IN  \/ exited = <<>> /\ Wait(t, "any", NULL)
      \/ exited # <<>> /\ Collect(t, Head(exited))

\* The legality checks; an illegal call changes nothing.
Legal(t, c) == pstate[c] # "FREE" /\ parent[c] = t[1]

sys_WaitChild(t) ==
  /\ Running(t)
  /\ \/ \E c \in Procs : Legal(t, c) /\ SpecificChild(t, c)
     \/ children_list[t[1]] # <<>> /\ AnyChild(t)

Resume(t) ==
  /\ ~ asleep[t]
  /\ \/ pc[t] = "child" /\ SpecificChild(t, wanted[t])
     \/ pc[t] = "any" /\ AnyChild(t)

-----------------------------------------------------------------------------
(* sys_Exit.                                                               *)

\* Everything after the loop of the initial process: children to the initial
\* process, then those already exited, then the process itself to its parent.
MutantReparent(p) == parent           \* mutant: parent field not changed

Reparent(p) ==
  [c \in Procs |-> IF c \in ToSet(children_list[p]) THEN 1 ELSE parent[c]]

MutantQuiet(p) ==                     \* mutant: parent not woken
  IF exited_list[p] # <<>> THEN {1} ELSE {}

Told(p) == (IF exited_list[p] # <<>> THEN {1} ELSE {})
             \cup (IF parent[p] # NULL THEN {parent[p]} ELSE {})

Die(t, v) ==
  LET p == t[1]
      orphans == Reverse(children_list[p])
      inherited == [exited_list EXCEPT ![1] = @ \o exited_list[p], ![p] = <<>>]
  IN  /\ parent' = Reparent(p)
      /\ children_list' = [children_list EXCEPT ![1] = orphans \o @, ![p] = <<>>]
      /\ exited_list' = IF parent[p] = NULL THEN inherited
                        ELSE [inherited EXCEPT ![parent[p]] = <<p>> \o @]
      /\ Broadcast(Told(p))
      /\ pstate' = [pstate EXCEPT ![p] = "ZOMBIE"]
      /\ exitval' = [exitval EXCEPT ![p] = v]
      /\ pc' = [pc EXCEPT ![t] = "run"]
      /\ wanted' = [wanted EXCEPT ![t] = NULL]
      /\ out' = <<>>
      /\ UNCHANGED pcb_freelist

\* ThreadExit of the main thread has joined the others before.
Alone(t) == \A u \in Threads : u[1] = t[1] => pc[u] = "run" \/ u = t

sys_Exit(t, v) ==
  /\ Running(t) /\ t[1] # 1 /\ Alone(t)
  /\ Die(t, v)

\* The initial process first waits for any child, as often as it can.
InitLoop(t, v) ==
  LET zs == exited_list[1]
      left == ToSet(children_list[1]) \ ToSet(zs)
  IN  /\ Alone(t)
      /\ IF left = {} /\ zs = <<>>
         THEN Die(t, v)
         ELSE /\ cleanup_zombie(zs)
              /\ pstate' = [p \in Procs |->
                   IF p \in ToSet(zs) THEN "FREE"
                   ELSE IF p = 1 /\ left = {} THEN "ZOMBIE" ELSE pstate[p]]
              /\ exitval' = IF left = {} THEN [exitval EXCEPT ![1] = v] ELSE exitval
              /\ pc' = [pc EXCEPT ![t] = IF left = {} THEN "run" ELSE "exit"]
              /\ wanted' = [wanted EXCEPT ![t] = IF left = {} THEN NULL ELSE v]
              /\ asleep' = [asleep EXCEPT ![t] = left # {}]
              /\ out' = <<>>

ExitInit(t, v) == Running(t) /\ t[1] = 1 /\ InitLoop(t, v)

ResumeExit(t) == pc[t] = "exit" /\ ~ asleep[t] /\ InitLoop(t, wanted[t])

-----------------------------------------------------------------------------
Call(t) ==
  \/ sys_Exec(t) \/ sys_WaitChild(t)
  \/ \E v \in ExitValues : sys_Exit(t, v) \/ ExitInit(t, v)

Next == \E t \in Threads : Call(t) \/ Resume(t) \/ ResumeExit(t)

Spec == Init /\ [][Next]_vars

\* Some woken thread goes on (KernelLock).
FairSpec == Spec /\ WF_vars(\E t \in Threads : Resume(t) \/ ResumeExit(t))

-----------------------------------------------------------------------------
(* Properties.                                                             *)

\* Every field keeps its type.
TypeOK ==
  /\ pstate \in [Procs -> {"FREE", "ALIVE", "ZOMBIE"}]
  /\ parent \in [Procs -> Procs \cup {NULL}]
  /\ exitval \in [Procs -> ExitValues]
  /\ children_list \in [Procs -> Seq(Procs)]
  /\ exited_list \in [Procs -> Seq(Procs)]
  /\ pcb_freelist \in Procs \cup {NULL}
  /\ pc \in [Threads -> {"run", "child", "any", "exit"}]
  /\ wanted \in [Threads -> Procs \cup ExitValues \cup {NULL}]
  /\ asleep \in [Threads -> BOOLEAN]
  /\ out = <<>> \/ out \in Procs \X Procs \X ExitValues

\* The lists and the parent fields tell the same tree: the children of p are
\* the processes in use whose parent is p, those that have exited are the
\* zombies among them, each once, wherever reparenting has moved them; and
\* nobody is a child of a zombie.
TreeInv ==
  \A p \in Procs :
    /\ IsInjective(children_list[p]) /\ IsInjective(exited_list[p])
    /\ ToSet(children_list[p]) =
         {c \in Procs : pstate[c] # "FREE" /\ parent[c] = p}
    /\ ToSet(exited_list[p]) =
         {c \in ToSet(children_list[p]) : pstate[c] = "ZOMBIE"}
    /\ children_list[p] # <<>> => pstate[p] = "ALIVE"

\* The free list, through the parent fields, has exactly the free PCBs, and
\* it ends: acquire_PCB never hands out a PCB in use or the same one twice.
FreeChain[n \in 1 .. N + 1] ==
  IF n = 1 THEN pcb_freelist
  ELSE IF FreeChain[n - 1] = NULL THEN NULL ELSE parent[FreeChain[n - 1]]

FreeListInv ==
  /\ FreeChain[N + 1] = NULL
  /\ {FreeChain[n] : n \in 1 .. N} \ {NULL} = {p \in Procs : pstate[p] = "FREE"}

\* Nobody sleeps in WaitChild who could go on: a waiter for one child sleeps
\* while that is its living child, a waiter for any has children and none has
\* exited.  So no exit and no reparenting forgets to wake a waiter.
SleepInv ==
  \A t \in Threads : asleep[t] =>
    /\ pstate[t[1]] = "ALIVE"
    /\ pc[t] = "child" => pstate[wanted[t]] = "ALIVE" /\ parent[wanted[t]] = t[1]
    /\ pc[t] \in {"any", "exit"} =>
         children_list[t[1]] # <<>> /\ exited_list[t[1]] = <<>>

\* Lists, parent fields, free list and sleepers tell one story through every
\* order of Exec, Exit with reparenting, and WaitChild.
ProcInv == TypeOK /\ TreeInv /\ FreeListInv /\ SleepInv

\* When the programs stop making calls, every waiter with a child to collect
\* has returned: nobody waits beside a zombie of his own.
CallsEnd == <>[][~ \E t \in Threads : Call(t)]_vars

ZombiesCollected ==
  CallsEnd => <>[](\A t \in Threads :
    /\ pc[t] \in {"any", "exit"} => exited_list[t[1]] = <<>>
    /\ pc[t] = "child" => pstate[wanted[t]] = "ALIVE")

\* When all others have exited the initial process, once in Exit, ends: the
\* system halts.
SystemEnds ==
  CallsEnd => ((\E t \in Threads : pc[t] = "exit")
                 /\ \A p \in Procs \ {1} : pstate[p] # "ALIVE")
                ~> pstate[1] = "ZOMBIE"

\* Both: no exit, reparenting or collection leaves a process waiting for ever.
WaitsEnd == ZombiesCollected /\ SystemEnds

-----------------------------------------------------------------------------
(* The refinement of ProcTree.                                             *)

StatusOf(p) == CASE pstate[p] = "FREE" -> "free" [] pstate[p] = "ALIVE" -> "alive"
                 [] pstate[p] = "ZOMBIE" -> "zombie"

Tree == INSTANCE ProcTree WITH
  InitProc <- 1, Nobody <- NULL,
  status <- [p \in Procs |-> StatusOf(p)],
  parentOf <- [p \in Procs |-> IF pstate[p] = "FREE" THEN NULL ELSE parent[p]],
  value <- [p \in Procs |-> IF pstate[p] = "ZOMBIE" THEN exitval[p] ELSE 0]

\* With one thread in WaitChild per process the lists implement the tree: each
\* child is collected once, by the parent it has then, with its exit value.
ImplementsProcTree == Tree!Spec
=============================================================================
