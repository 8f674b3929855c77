------------------------------- MODULE Lists -------------------------------
(***************************************************************************)
(* The intrusive lists of util.h.  A list is a node that stands in a ring  *)
(* with the nodes of the list; every operation is made of rl_splice, which *)
(* cuts a ring in two or makes one of two.  The kernel keeps its ready     *)
(* queues, process trees and request queues in such lists.                 *)
(*                                                                         *)
(* Beside the pointers the module keeps what the lists should hold, as     *)
(* sequences that are updated by what the comments of util.h promise.      *)
(***************************************************************************)
EXTENDS ListOps, FiniteSets

CONSTANTS Heads,     \* the nodes that are lists
          Items,     \* the nodes that are put into them
          Picked     \* the items that satisfy the pred of rlist_select

Nodes == Heads \cup Items

VARIABLES
  ptr,       \* [next, prev]: the pointers of every node
  holds      \* holds[l]: the items of list l, by the promises

vars == <<ptr, holds>>

-----------------------------------------------------------------------------
(* Operations on pointers: each yields the pointers after it.              *)

rlnode_new(p, n) == [p EXCEPT !.next[n] = n, !.prev[n] = n]

\* The two swaps of rl_splice(a, b).
Swap(f, x, y) == [f EXCEPT ![x] = f[y], ![y] = f[x]]

MutantSplice(p, a, b) ==                          \* mutant: next swapped first
  LET nx == Swap(p.next, a, b)
  IN  [next |-> nx, prev |-> Swap(p.prev, nx[a], b)]

rl_splice(p, a, b) ==
  [next |-> Swap(p.next, a, b), prev |-> Swap(p.prev, p.next[a], p.next[b])]

rlist_remove(p, a) == rl_splice(p, a, p.prev[a])
rlist_push_front(p, l, a) == rl_splice(p, l, a)
rlist_push_back(p, l, a) == rl_splice(p, p.prev[l], a)
rlist_pop_front(p, l) == rl_splice(p, l, p.next[l])
rlist_append(p, d, s) == rlist_remove(rlist_push_back(p, d, s), s)
rlist_prepend(p, d, s) == rlist_remove(rlist_push_front(p, d, s), s)

\* The nodes a walk along f meets after l and before it is at l again.
Walk(f, l) ==
  LET at[n \in 0 .. Cardinality(Nodes)] ==
        IF n = 0 THEN f[l] ELSE IF at[n - 1] = l THEN l ELSE f[at[n - 1]]
      met == {n \in DOMAIN at : at[n] # l}
  IN  [i \in 1 .. Cardinality(met) |-> at[i - 1]]

rlist_len(p, l) == Len(Walk(p.next, l))

\* The first node with the key; the keys of these items are the items.
rlist_find(p, l, key, fail) ==
  LET found == Kept(Walk(p.next, l), {key})
  IN  IF found = <<>> THEN fail ELSE Head(found)

\* Every node of the ring of l has its pointers swapped.
rlist_reverse(p, l) ==
  LET ring == {l} \cup ToSet(Walk(p.next, l))
  IN  [next |-> [n \in Nodes |-> IF n \in ring THEN p.prev[n] ELSE p.next[n]],
       prev |-> [n \in Nodes |-> IF n \in ring THEN p.next[n] ELSE p.prev[n]]]

rlist_select(p, s, d) ==
  LET w == Walk(p.next, s)
      after[i \in 0 .. Len(w)] ==
        IF i = 0 THEN p
        ELSE IF w[i] \in Picked THEN rlist_push_back(rlist_remove(after[i - 1], w[i]), d, w[i])
        ELSE after[i - 1]
  IN  after[Len(w)]

-----------------------------------------------------------------------------
(* Users of lists.  Nodes are put in when they are in no list.             *)

Init ==
  /\ ptr = [next |-> [n \in Nodes |-> n], prev |-> [n \in Nodes |-> n]]
  /\ holds = [l \in Heads |-> <<>>]

Loose(n) == \A l \in Heads : n \notin ToSet(holds[l])

Insert(l, n) ==
  /\ Loose(n)
  /\ \/ /\ ptr' = rlist_push_front(ptr, l, n)
        /\ holds' = [holds EXCEPT ![l] = <<n>> \o @]
     \/ /\ ptr' = rlist_push_back(ptr, l, n)
        /\ holds' = [holds EXCEPT ![l] = @ \o <<n>>]

\* A node is used again: its pointers are set whatever they were.
Renew(n) ==
  /\ Loose(n)
  /\ ptr' = rlnode_new(ptr, n)
  /\ UNCHANGED holds

PopFront(l) ==
  /\ holds[l] # <<>>
  /\ ptr' = rlist_pop_front(ptr, l)
  /\ holds' = [holds EXCEPT ![l] = Tail(@)]

\* Also of a node that is in no list.
TakeOut(n) ==
  /\ ptr' = rlist_remove(ptr, n)
  /\ holds' = [l \in Heads |->
                IF n \in ToSet(holds[l]) THEN Without(holds[l], n) ELSE holds[l]]

Join(d, s) ==
  /\ d # s
  /\ \/ ptr' = rlist_append(ptr, d, s)
        /\ holds' = [holds EXCEPT ![d] = @ \o holds[s], ![s] = <<>>]
     \/ ptr' = rlist_prepend(ptr, d, s)
        /\ holds' = [holds EXCEPT ![d] = holds[s] \o @, ![s] = <<>>]
     \/ ptr' = rlist_select(ptr, s, d)
        /\ holds' = [holds EXCEPT ![d] = @ \o Kept(holds[s], Picked),
                                  ![s] = Kept(@, Items \ Picked)]

Turn(l) == ptr' = rlist_reverse(ptr, l) /\ holds' = [holds EXCEPT ![l] = Reverse(@)]

Next ==
  \/ \E l \in Heads : \/ PopFront(l) \/ Turn(l)
                      \/ (\E n \in Items : Insert(l, n)) \/ \E s \in Heads : Join(l, s)
  \/ \E n \in Items : TakeOut(n) \/ Renew(n)

\* What the kernel and its tests do with lists, but for rlist_pop_back, which
\* only a test calls: it splices the sentinel out and leaves the list empty.
Spec == Init /\ [][Next]_vars

-----------------------------------------------------------------------------
(* Properties.                                                             *)

\* After any operations each list holds what was promised, in both directions,
\* nothing else can be reached from it, and a node in no list stands alone, so
\* that removing it again is harmless; length and search agree with that.
ListsInv ==
  /\ \A l \in Heads : /\ Walk(ptr.next, l) = holds[l]
                      /\ Walk(ptr.prev, l) = Reverse(holds[l])
                      /\ rlist_len(ptr, l) = Len(holds[l])
                      /\ \A n \in Items : rlist_find(ptr, l, n, l) =
                           IF n \in ToSet(holds[l]) THEN n ELSE l
  /\ \A n \in Items : Loose(n) => ptr.next[n] = n /\ ptr.prev[n] = n
=============================================================================
