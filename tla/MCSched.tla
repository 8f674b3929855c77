------------------------------ MODULE MCSched ------------------------------
(* Model values for Sched: two cores, so that one runs between the critical *)
(* sections of the other, and every interleaving of their threads.          *)
EXTENDS Sched, TLC

CONSTANTS t1, t2, c1, c2

MCThreads == {t1, t2}
MCCores == {c1, c2}
MCTimeouts == {0, 1}
MCSymmetry == Permutations(MCCores)
=============================================================================
