------------------------------ MODULE MCSocket ------------------------------
(* Sockets of one process, on two ports.                                   *)
EXTENDS Socket, TLC

CONSTANTS t1, t2, t3
MCThreads2 == {t1, t2}
MCThreads3 == {t1, t2, t3}
MCPorts == {1, 2}
MCSymmetry == Permutations(MCThreads2)
=============================================================================
