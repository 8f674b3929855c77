------------------------------ MODULE ProcTree ------------------------------
(***************************************************************************)
(* What tinyos.h promises of processes: a tree.  A process that exits      *)
(* stays as a zombie with its exit value until its parent, who may have    *)
(* changed to the initial process, has collected it with WaitChild; it is  *)
(* collected once.                                                         *)
(***************************************************************************)
EXTENDS Integers

CONSTANTS Procs, InitProc, ExitValues, Nobody

VARIABLES
  status,    \* "free", "alive" or "zombie"
  parentOf,  \* of a process that is not free (Nobody for a free one)
  value,     \* the exit value of a zombie (0 for another)
  out        \* <<parent, child, value>> of the WaitChild that has just returned

vars == <<status, parentOf, value, out>>

Init ==
  /\ status = [p \in Procs |-> IF p = InitProc THEN "alive" ELSE "free"]
  /\ parentOf = [p \in Procs |-> Nobody]
  /\ value = [p \in Procs |-> 0]
  /\ out = <<>>

Exec(p, q) ==
  /\ status[p] = "alive" /\ status[q] = "free"
  /\ status' = [status EXCEPT ![q] = "alive"]
  /\ parentOf' = [parentOf EXCEPT ![q] = p]
  /\ out' = <<>>
  /\ UNCHANGED value

Exit(p, v) ==
  /\ status[p] = "alive" /\ p # InitProc
  /\ status' = [status EXCEPT ![p] = "zombie"]
  /\ value' = [value EXCEPT ![p] = v]
  /\ parentOf' = [q \in Procs |-> IF parentOf[q] = p THEN InitProc ELSE parentOf[q]]
  /\ out' = <<>>

WaitChild(p, c) ==
  /\ status[p] = "alive" /\ status[c] = "zombie" /\ parentOf[c] = p
  /\ status' = [status EXCEPT ![c] = "free"]
  /\ parentOf' = [parentOf EXCEPT ![c] = Nobody]
  /\ value' = [value EXCEPT ![c] = 0]
  /\ out' = <<p, c, value[c]>>

\* The initial process collects what is left, all of it dead, and exits when
\* nothing is left.
InitWaits ==
  /\ \E Z \in SUBSET {c \in Procs : status[c] = "zombie" /\ parentOf[c] = InitProc} :
       \E last \in BOOLEAN :
         /\ last => \A q \in Procs \ {InitProc} : status[q] = "free" \/ q \in Z
         /\ status' = [q \in Procs |-> IF q \in Z THEN "free"
                                       ELSE IF last /\ q = InitProc THEN "zombie"
                                       ELSE status[q]]
         /\ parentOf' = [q \in Procs |-> IF q \in Z THEN Nobody ELSE parentOf[q]]
         /\ \E v \in ExitValues :
              value' = [q \in Procs |-> IF q \in Z THEN 0
                                        ELSE IF last /\ q = InitProc THEN v
                                        ELSE value[q]]
  /\ status[InitProc] = "alive" /\ out' = <<>>

\* A call that only waits, or one more step of the initial process.
Silent ==
  /\ out' = <<>>
  /\ UNCHANGED <<status, parentOf, value>>

Next ==
  \/ Silent
  \/ \E p, q \in Procs : Exec(p, q) \/ WaitChild(p, q)
  \/ \E p \in Procs, v \in ExitValues : Exit(p, v)
  \/ InitWaits

Spec == Init /\ [][Next]_vars
=============================================================================
