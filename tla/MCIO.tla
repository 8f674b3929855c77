-------------------------------- MODULE MCIO --------------------------------
(***************************************************************************)
(* Input and output below and above the kernel's streams: the file tables  *)
(* (Streams) and the machine with its terminal (Machine).  They share no   *)
(* state, and a behaviour is one of either.  More descriptors than FCBs,   *)
(* so that both run out; two cores and one terminal.                       *)
(***************************************************************************)
EXTENDS Streams, Machine

CONSTANTS p1, p2, t1, t2, f1, f2, f3

MCProcs == {p1, p2}
MCThreads == {t1, t2}
MCFCBs == {f1, f2, f3}

VARIABLE part       \* "files" or "machine"

\* Of the orders of the free list, the one the FCBs are released in: the others
\* are the same up to their names.
IOInit ==
  /\ part \in {"files", "machine"} /\ Init /\ vm_boot
  /\ FCB_freelist = <<f1, f2, f3>>

IONext ==
  \/ part = "files" /\ Next /\ UNCHANGED <<part, machineVars>>
  \/ part = "machine" /\ MachineNext /\ UNCHANGED <<part, vars>>

\* The fairness of Machine's FairSpec.
OfMachine(A) == part = "machine" /\ A

IOSpec ==
  /\ IOInit /\ [][IONext]_<<part, vars, machineVars>>
  /\ \A c \in Cores : /\ WF_machineVars(OfMachine(CoreStep(c)))
                      /\ SF_machineVars(OfMachine(sigusr1_handler(c)))
  /\ WF_machineVars(OfMachine(Barriers)) /\ WF_machineVars(OfMachine(PicStep))
  /\ SF_machineVars(OfMachine(\E S \in SUBSET timer : PicSelect(S, TRUE)))
=============================================================================
