----------------------------- MODULE SystemInfo -----------------------------
(***************************************************************************)
(* The information stream of kernel_proc.c (OpenInfo, info_read) and the   *)
(* program that prints it (SystemInfo of tinyos_shell.c), while other      *)
(* processes start, exit and are collected between its system calls.       *)
(***************************************************************************)
EXTENDS Integers, Sequences, SequencesExt, ListOps

CONSTANTS MAX_PROC

Pids == 0 .. MAX_PROC - 1
Garbage == [pid |-> -1, alive |-> FALSE]   \* memory past the end of the table

VARIABLES
  pstate,          \* of every process; 0 is the scheduler's, 1 the reader
  process_count,
  reader,          \* where SystemInfo is
  info_table, index,
  rows             \* what it has read

vars == <<pstate, process_count, reader, info_table, index, rows>>

Init ==
  /\ pstate = [p \in Pids |-> IF p \in {0, 1} THEN "ALIVE" ELSE "FREE"]
  /\ process_count = 2
  /\ reader = "start"
  /\ info_table = <<>> /\ index = 0 /\ rows = <<>>

\* acquire_PCB, sys_Exit and release_PCB of the others.
Change(p) ==
  /\ \/ /\ pstate[p] = "FREE"
        /\ pstate' = [pstate EXCEPT ![p] = "ALIVE"]
        /\ process_count' = process_count + 1
     \/ /\ pstate[p] = "ALIVE"
        /\ pstate' = [pstate EXCEPT ![p] = "ZOMBIE"]
        /\ UNCHANGED process_count
     \/ /\ pstate[p] = "ZOMBIE"
        /\ pstate' = [pstate EXCEPT ![p] = "FREE"]
        /\ process_count' = process_count - 1
  /\ UNCHANGED <<reader, info_table, index, rows>>

\* The process table is walked for those in use, as many as info_table has been
\* made for.
PT == [i \in 1 .. MAX_PROC |-> i - 1]

Fill ==
  LET used == Kept(PT, {p \in Pids : pstate[p] # "FREE"})
      fits == SubSeq(used, 1, process_count)
  IN  [i \in DOMAIN fits |-> [pid |-> fits[i], alive |-> pstate[fits[i]] = "ALIVE"]]

\* A zombie has no main_thread any more, and its fields are read nevertheless.
sys_OpenInfo ==
  /\ reader = "start"
  /\ \/ /\ \A p \in Pids : pstate[p] # "ZOMBIE"
        /\ info_table' = Fill /\ index' = Len(Fill) /\ reader' = "read"
     \/ /\ \E p \in Pids : pstate[p] = "ZOMBIE"
        /\ reader' = "fault" /\ UNCHANGED <<info_table, index>>
     \/ reader' = "done" /\ UNCHANGED <<info_table, index>>   \* no descriptor
  /\ UNCHANGED <<pstate, process_count, rows>>

\* The entry at index, counted from 0, or the end of the stream.
MutantAtEnd == index = 0                            \* mutant: the first entry not read

AtEnd == index = -1

info_read ==
  /\ reader = "read"
  /\ IF AtEnd THEN reader' = "done" /\ UNCHANGED <<index, rows>>
     ELSE /\ rows' = Append(rows, IF index < Len(info_table) THEN info_table[index + 1]
                                  ELSE Garbage)
          /\ index' = index - 1 /\ UNCHANGED reader
  /\ UNCHANGED <<pstate, process_count, info_table>>

Next == sys_OpenInfo \/ info_read \/ \E p \in Pids \ {0, 1} : Change(p)

-----------------------------------------------------------------------------
(* Properties.                                                             *)

\* The stream is a snapshot: when it has been read to its end the last rows are
\* the processes in use at OpenInfo, the scheduler's at the very end, whatever has
\* started or exited since.  (Of rows before them, see InfoOfPCBs.)
InfoInv ==
  /\ reader = "done" /\ rows # <<>> =>
       /\ Len(rows) >= Len(info_table)
       /\ \A i \in DOMAIN info_table : rows[Len(rows) + 1 - i] = info_table[i]
  /\ \A i \in DOMAIN info_table : info_table[i].pid = 0 <=> i = 1

\* tinyos.h:748: each structure that is read is of a PCB that is in use during
\* the time of the stream.  It does not hold: index starts one past the last entry
\* of the table.
InfoOfPCBs == \A i \in DOMAIN rows : rows[i] \in ToSet(info_table)
=============================================================================
