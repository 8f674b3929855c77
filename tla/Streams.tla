------------------------------ MODULE Streams ------------------------------
(***************************************************************************)
(* kernel_streams.c: the file table FT, the reference counts of its        *)
(* entries (FCBs), their free list, and the descriptor tables (FIDT) of    *)
(* the processes.                                                          *)
(*                                                                         *)
(* Every system call runs with the kernel lock, so a call is one step,     *)
(* except a Read or Write that sleeps in its stream: that is two steps     *)
(* (StartIO, EndIO) with anything in between.                              *)
(***************************************************************************)
EXTENDS Integers, Sequences, FiniteSets

CONSTANTS Procs,         \* the processes (PCBs)
          InitProc,      \* the one that exists from the start
          Threads,       \* threads that call Read and Write
          FCBs,          \* the entries of FT
          MAX_FILEID,
          NoFCB

ASSUME StreamsAssumption ==
  /\ IsFiniteSet(Procs) /\ IsFiniteSet(Threads) /\ IsFiniteSet(FCBs)
  /\ InitProc \in Procs
  /\ MAX_FILEID \in Nat
  /\ NoFCB \notin FCBs

Fids == 0 .. MAX_FILEID - 1

VARIABLES
  FIDT,          \* FIDT[p][i]: an FCB, or NoFCB
  refcount,      \* of each FCB
  FCB_freelist,  \* front first
  open,          \* open[f]: the stream object of f is open: f was set up and
                 \* its Close function has not been called
  using,         \* using[t]: the local variable fcb of t's sys_Read or
                 \* sys_Write while it sleeps in the stream
  pstate         \* "ALIVE" or "FREE": a process has its files while ALIVE; a
                 \* zombie has none, and is the same as a free PCB here

files == <<FIDT, refcount, FCB_freelist, open>>
vars == <<files, using, pstate>>

\* The free list after initialize_files, in any order.
Orders(S) == {s \in [1 .. Cardinality(S) -> S] :
                \A f \in S : \E i \in DOMAIN s : s[i] = f}

Init ==
  /\ FIDT = [p \in Procs |-> [i \in Fids |-> NoFCB]]
  /\ refcount = [f \in FCBs |-> 0]
  /\ FCB_freelist \in Orders(FCBs)
  /\ open = [f \in FCBs |-> FALSE]
  /\ using = [t \in Threads |-> NoFCB]
  /\ pstate = [p \in Procs |-> IF p = InitProc THEN "ALIVE" ELSE "FREE"]

-----------------------------------------------------------------------------
(* Counting references.                                                    *)

\* FCB_decref, of drop[f] references to each f: those that reach 0 are closed
\* and released to the back of the free list.  (Exit releases several in the
\* order of their descriptors, here in any order.)
Dropped(drop) == {f \in FCBs : drop[f] > 0 /\ refcount[f] = drop[f]}

FCB_decref(drop) ==
  /\ refcount' = [f \in FCBs |-> refcount[f] - drop[f]]
  /\ open' = [f \in FCBs |-> open[f] /\ f \notin Dropped(drop)]
  /\ \E s \in Orders(Dropped(drop)) : FCB_freelist' = FCB_freelist \o s

\* One reference to f (none if f is NoFCB).
One(f) == [g \in FCBs |-> IF g = f THEN 1 ELSE 0]

FCB_incref(f) == refcount' = [refcount EXCEPT ![f] = @ + 1]

-----------------------------------------------------------------------------
(* FCB_reserve and FCB_unreserve, in the calls that use them.              *)

FreeFids(p) == {i \in Fids : FIDT[p][i] = NoFCB}
Lowest(S) == CHOOSE i \in S : \A j \in S : i <= j

\* open_stream, and every other call that reserves one FCB: device_open (or
\* its like) works, or the reservation is undone.  FCB_unreserve leaves the
\* count at 1; acquire_FCB clears it.
open_stream(p, works) ==
  LET f == Head(FCB_freelist)
  IN  /\ pstate[p] = "ALIVE" /\ FreeFids(p) # {} /\ FCB_freelist # <<>>
      /\ refcount' = [refcount EXCEPT ![f] = 1]
      /\ IF works
         THEN /\ FIDT' = [FIDT EXCEPT ![p][Lowest(FreeFids(p))] = f]
              /\ FCB_freelist' = Tail(FCB_freelist)
              /\ open' = [open EXCEPT ![f] = TRUE]
         ELSE /\ FCB_freelist' = Append(Tail(FCB_freelist), f)
              /\ UNCHANGED <<FIDT, open>>
      /\ UNCHANGED <<using, pstate>>

\* sys_Pipe: two at once.
sys_Pipe(p) ==
  LET i == Lowest(FreeFids(p))
      j == Lowest(FreeFids(p) \ {i})
      f == FCB_freelist[1]
      g == FCB_freelist[2]
  IN  /\ pstate[p] = "ALIVE"
      /\ FreeFids(p) # {} /\ FreeFids(p) \ {i} # {} /\ Len(FCB_freelist) >= 2
      /\ FIDT' = [FIDT EXCEPT ![p][i] = f, ![p][j] = g]
      /\ refcount' = [refcount EXCEPT ![f] = 1, ![g] = 1]
      /\ FCB_freelist' = Tail(Tail(FCB_freelist))
      /\ open' = [open EXCEPT ![f] = TRUE, ![g] = TRUE]
      /\ UNCHANGED <<using, pstate>>

\* FCB_reserve(2) with one FCB left: it is taken and given back.
MutantRollBack == FCB_freelist \o FCB_freelist  \* mutant: released twice
RollBack == FCB_freelist

PipeFails(p) ==
  /\ pstate[p] = "ALIVE" /\ Cardinality(FreeFids(p)) >= 2
  /\ Len(FCB_freelist) = 1
  /\ refcount' = [refcount EXCEPT ![Head(FCB_freelist)] = 0]
  /\ FCB_freelist' = RollBack
  /\ UNCHANGED <<FIDT, open, using, pstate>>

-----------------------------------------------------------------------------
(* sys_Read and sys_Write: get_fcb, FCB_incref; the stream's function; then *)
(* FCB_decref of the same FCB, whatever the descriptor is by now.           *)

StartIO(t, p, i) ==
  /\ pstate[p] = "ALIVE" /\ using[t] = NoFCB /\ FIDT[p][i] # NoFCB
  /\ FCB_incref(FIDT[p][i])
  /\ using' = [using EXCEPT ![t] = FIDT[p][i]]
  /\ UNCHANGED <<FIDT, FCB_freelist, open, pstate>>

EndIO(t) ==
  /\ using[t] # NoFCB
  /\ FCB_decref(One(using[t]))
  /\ using' = [using EXCEPT ![t] = NoFCB]
  /\ UNCHANGED <<FIDT, pstate>>

-----------------------------------------------------------------------------
(* Close, Dup2, and what Exec and Exit do to descriptors.                  *)

sys_Close(p, i) ==
  /\ pstate[p] = "ALIVE" /\ FIDT[p][i] # NoFCB
  /\ FIDT' = [FIDT EXCEPT ![p][i] = NoFCB]
  /\ FCB_decref(One(FIDT[p][i]))
  /\ UNCHANGED <<using, pstate>>

\* The stream of newfd, if there is one and it is not the same, loses a
\* reference; that of oldfd gains one.
sys_Dup2(p, oldfd, newfd) ==
  LET old == FIDT[p][oldfd]
      new == FIDT[p][newfd]
  IN  /\ pstate[p] = "ALIVE" /\ old # NoFCB /\ old # new
      /\ FIDT' = [FIDT EXCEPT ![p][newfd] = old]
      /\ FCB_decref([f \in FCBs |-> One(new)[f] - One(old)[f]])
      /\ UNCHANGED <<using, pstate>>

\* The references that p's descriptors hold.
Held(p, f) == Cardinality({i \in Fids : FIDT[p][i] = f})

sys_Exec(p, q) ==
  /\ pstate[p] = "ALIVE" /\ pstate[q] = "FREE"
  /\ pstate' = [pstate EXCEPT ![q] = "ALIVE"]
  /\ FIDT' = [FIDT EXCEPT ![q] = FIDT[p]]
  /\ refcount' = [f \in FCBs |-> refcount[f] + Held(p, f)]
  /\ UNCHANGED <<FCB_freelist, open, using>>

\* Threads of p may still be in a Read or Write.  The initial process exits
\* last: it waits for all others, which are its children by then.
sys_Exit(p) ==
  /\ pstate[p] = "ALIVE"
  /\ p = InitProc => \A q \in Procs \ {p} : pstate[q] = "FREE"
  /\ pstate' = [pstate EXCEPT ![p] = "FREE"]
  /\ FIDT' = [FIDT EXCEPT ![p] = [i \in Fids |-> NoFCB]]
  /\ FCB_decref([f \in FCBs |-> Held(p, f)])
  /\ UNCHANGED using

-----------------------------------------------------------------------------
Next ==
  \/ \E p \in Procs :
       \/ \E works \in BOOLEAN : open_stream(p, works)
       \/ sys_Pipe(p) \/ PipeFails(p)
       \/ \E i \in Fids :
            \/ \E t \in Threads : StartIO(t, p, i)
            \/ sys_Close(p, i)
            \/ \E j \in Fids : sys_Dup2(p, i, j)
       \/ \E q \in Procs : sys_Exec(p, q)
       \/ sys_Exit(p)
  \/ \E t \in Threads : EndIO(t)

Spec == Init /\ [][Next]_vars

-----------------------------------------------------------------------------
(* Properties.                                                             *)

\* Every field keeps its type; a count is never decremented below 0.
TypeOK ==
  /\ FIDT \in [Procs -> [Fids -> FCBs \cup {NoFCB}]]
  /\ refcount \in [FCBs -> Nat]
  /\ FCB_freelist \in Seq(FCBs)
  /\ open \in [FCBs -> BOOLEAN]
  /\ using \in [Threads -> FCBs \cup {NoFCB}]
  /\ pstate \in [Procs -> {"FREE", "ALIVE"}]

Listed(f) == \E k \in DOMAIN FCB_freelist : FCB_freelist[k] = f

FidRefs(f) == {r \in Procs \X Fids : FIDT[r[1]][r[2]] = f}
CallRefs(f) == {t \in Threads : using[t] = f}

\* The count of an FCB in use is the number of descriptors, in all processes,
\* and of calls under way that refer to it, through any sequence of opens,
\* closes, Dup2, Exec, Exit, failed reservations and calls that outlive their
\* descriptor.
CountInv ==
  \A f \in FCBs : ~ Listed(f) =>
    refcount[f] = Cardinality(FidRefs(f)) + Cardinality(CallRefs(f))

\* An FCB is in the free list, once, or somebody refers to it: none is used
\* after release, released twice, or leaked.
FreeInv ==
  /\ \A j, k \in DOMAIN FCB_freelist : FCB_freelist[j] = FCB_freelist[k] => j = k
  /\ \A f \in FCBs : Listed(f) <=> FidRefs(f) = {} /\ CallRefs(f) = {}

\* The comment of sys_Read: "make sure that the stream will not be closed (by
\* another thread) while we are using it".  A stream that a descriptor or a
\* call refers to is open, and the others are closed.
OpenInv ==
  \A f \in FCBs : open[f] <=> FidRefs(f) # {} \/ CallRefs(f) # {}

\* Reference counts, free list and open streams agree, through every order of
\* opens, failed reservations, Close, Dup2, Exec, Exit and calls under way.
StreamsInv == TypeOK /\ CountInv /\ FreeInv /\ OpenInv
=============================================================================
