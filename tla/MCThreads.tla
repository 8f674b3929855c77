----------------------------- MODULE MCThreads -----------------------------
(* Threads with a main thread and one, two or three others.                *)
EXTENDS Threads
=============================================================================
