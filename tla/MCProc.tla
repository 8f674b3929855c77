------------------------------- MODULE MCProc -------------------------------
(* Values for Proc.                                                        *)
EXTENDS Proc

MCExitValues2 == {0, 1}
=============================================================================
