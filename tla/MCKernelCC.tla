----------------------------- MODULE MCKernelCC -----------------------------
(* Model values for KernelCC.                                              *)
EXTENDS KernelCC

CONSTANTS t1, t2, t3, cvA

MCThreads3 == {t1, t2, t3}
MCWaitCVs1 == {cvA}
=============================================================================
