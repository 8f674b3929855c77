------------------------------- MODULE MCPipe -------------------------------
(* Values for Pipe: two bytes are written and one is read, so that a write *)
(* is cut short and the ring wraps; two may sleep while the third wakes.   *)
EXTENDS Pipe

CONSTANTS t1, t2, t3

MCThreads3 == {t1, t2, t3}
MCByte2 == {0, 1}
MCReadSizes == {1}
MCWriteSizes == {2}
=============================================================================
