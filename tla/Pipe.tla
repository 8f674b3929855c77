-------------------------------- MODULE Pipe --------------------------------
(***************************************************************************)
(* kernel_pipe.c: one pipe, the threads that read and write it, and the    *)
(* descriptors that refer to its two ends.                                 *)
(*                                                                         *)
(* Every system call runs with the kernel lock and gives it up only inside *)
(* kernel_wait (KernelLock), so a step is what a call does up to its next  *)
(* kernel_wait or its return.  An end is closed by the FCB_decref that     *)
(* drops its last reference: a descriptor, or a Read or Write under way.   *)
(***************************************************************************)
EXTENDS Integers, Sequences, FiniteSets

CONSTANTS Threads,
          Byte,          \* the values of a byte
          BUFF_SIZE,
          ReadSizes,     \* sizes that callers pass to Read
          WriteSizes,    \* and to Write
          MaxFids,       \* bound: descriptors of an end
          Reused         \* whether the memory of a freed pipe is handed out
                         \* again while the write end still refers to it

ASSUME PipeAssumption ==
  /\ IsFiniteSet(Threads)
  /\ 0 \in Byte
  /\ BUFF_SIZE \in Nat \ {0}
  /\ ReadSizes \subseteq Nat /\ WriteSizes \subseteq Nat
  /\ MaxFids \in Nat \ {0}
  /\ Reused \in BOOLEAN

Ends == {"read", "write"}
Slots == 0 .. BUFF_SIZE - 1

VARIABLES
  buffer, read_p, write_p, available_space, reader_closed, writer_closed,
             \* the fields of the PipeCB
  freed,     \* free(pipe) was called; the fields above keep their last values
  fids,      \* fids[e]: the entries of FIDTs that refer to the FCB of end e
  pc,        \* "user", or the call the thread is in: "read" or "write"
  asleep,    \* the condition variable the thread sleeps on, or "no"
  size,      \* the size argument of its Read
  data,      \* the bytes its Write can take
  out        \* the result of the call that returned last

ring == <<buffer, read_p, write_p, available_space>>
closing == <<reader_closed, writer_closed, freed>>
vars == <<ring, closing, fids, pc, asleep, size, data, out>>

\* sys_Pipe has just returned.
Init ==
  /\ buffer = [i \in Slots |-> 0]
  /\ read_p = 0 /\ write_p = 0 /\ available_space = BUFF_SIZE
  /\ reader_closed = FALSE /\ writer_closed = FALSE /\ freed = FALSE
  /\ fids = [e \in Ends |-> 1]
  /\ pc = [t \in Threads |-> "user"]
  /\ asleep = [t \in Threads |-> "no"]
  /\ size = [t \in Threads |-> 0]
  /\ data = [t \in Threads |-> <<>>]
  /\ out = <<"error", -1>>

-----------------------------------------------------------------------------
\* The loops of pipe_read and pipe_write compare with size after each byte:
\* a size of 0 is no limit.
Limit(n) == IF n = 0 THEN BUFF_SIZE ELSE n

\* The bytes a Write of n bytes can see: those of the caller, and for n = 0
\* whatever follows in memory.
DataOf(n) == [1 .. Limit(n) -> Byte]

Minimum(m, n) == IF m <= n THEN m ELSE n

MutantAdvanced(p, n) == p + n                   \* mutant: does not wrap
Advanced(p, n) == (p + n) % BUFF_SIZE

MutantEmpty == read_p = write_p                 \* mutant: true of a full pipe

Empty == read_p = write_p /\ available_space = BUFF_SIZE

Full == read_p = write_p /\ available_space = 0

\* FCB_decref, after a Cond_Broadcast on the condition variables woken: the
\* last reference to the read end calls reader_close, that to the write end
\* writer_close; reader_close calls writer_close, too, and frees the pipe.
Refs(e) == fids[e] + Cardinality({t \in Threads : pc[t] = e})

MutantFCB_decref(e, woken) ==         \* mutant: writer_close does not broadcast
  LET last == Refs(e)' = 0
      r == last /\ e = "read"
  IN  /\ reader_closed' = (reader_closed \/ r)
      /\ writer_closed' = (writer_closed \/ last)
      /\ freed' = (freed \/ r)
      /\ asleep' = [t \in Threads |->
           IF asleep[t] \in woken THEN "no" ELSE asleep[t]]

FCB_decref(e, woken) ==
  LET last == Refs(e)' = 0
      r == last /\ e = "read"
      broadcast == (IF r THEN {"hasSpace"} ELSE {})
                     \cup (IF last /\ ~ writer_closed THEN {"hasData"} ELSE {})
  IN  /\ reader_closed' = (reader_closed \/ r)
      /\ writer_closed' = (writer_closed \/ last)
      /\ freed' = (freed \/ r)
      /\ asleep' = [t \in Threads |->
           IF asleep[t] \in woken \cup broadcast THEN "no" ELSE asleep[t]]

\* kernel_wait in the call end.
Wait(t, end, cv) ==
  /\ pc' = [pc EXCEPT ![t] = end]
  /\ asleep' = [asleep EXCEPT ![t] = cv]
  /\ UNCHANGED <<ring, closing, fids, out>>

\* Return from the call on end, with the broadcasts it has made.
Return(t, end, woken, result) ==
  /\ pc' = [pc EXCEPT ![t] = "user"]
  /\ out' = result
  /\ UNCHANGED fids
  /\ FCB_decref(end, woken)

-----------------------------------------------------------------------------
(* pipe_read, from its while on.                                           *)

ReadWakes == {"hasSpace"}

Read(t, n) ==
  LET count == Minimum(Limit(n), BUFF_SIZE - available_space)
  IN  \/ /\ Empty /\ ~ writer_closed
         /\ Wait(t, "read", "hasData")
      \/ /\ Empty /\ writer_closed
         /\ Return(t, "read", {}, <<"read", <<>>>>)
         /\ UNCHANGED ring
      \/ /\ ~ Empty
         /\ Return(t, "read", ReadWakes,
                   <<"read", [i \in 1 .. count |-> buffer[(read_p + i - 1) % BUFF_SIZE]]>>)
         /\ read_p' = Advanced(read_p, count)
         /\ available_space' = available_space + count
         /\ UNCHANGED <<buffer, write_p>>

sys_Read(t, n) ==
  /\ pc[t] = "user" /\ fids["read"] > 0
  /\ Read(t, n)
  /\ size' = [size EXCEPT ![t] = IF pc'[t] = "read" THEN n ELSE 0]
  /\ UNCHANGED data

\* kernel_wait has returned.
ResumeRead(t) ==
  /\ pc[t] = "read" /\ asleep[t] = "no"
  /\ Read(t, size[t])
  /\ size' = [size EXCEPT ![t] = IF pc'[t] = "read" THEN @ ELSE 0]
  /\ UNCHANGED data

-----------------------------------------------------------------------------
(* pipe_write, from its while on.                                          *)

\* The fields of a freed pipe hold anything once its memory is reused.
Garbage == freed /\ Reused

Write(t, d) ==
  LET count == Minimum(Len(d), available_space)
  IN  \/ /\ Full \/ Garbage
         /\ Wait(t, "write", "hasSpace")
      \/ /\ ~ Full /\ ~ Garbage
         /\ Return(t, "write", {"hasData"}, <<"wrote", count>>)
         /\ buffer' = [i \in Slots |->
              LET k == (i - write_p) % BUFF_SIZE
              IN  IF k < count THEN d[k + 1] ELSE buffer[i]]
         /\ write_p' = Advanced(write_p, count)
         /\ available_space' = available_space - count
         /\ UNCHANGED read_p
      \/ /\ Garbage
         /\ \E n \in 1 .. Len(d) : Return(t, "write", {}, <<"wrote", n>>)
         /\ UNCHANGED ring

sys_Write(t, n) ==
  /\ pc[t] = "user" /\ fids["write"] > 0
  /\ \/ /\ reader_closed
        /\ Return(t, "write", {}, <<"error", -1>>)
        /\ UNCHANGED <<ring, data>>
     \/ /\ ~ reader_closed \/ Garbage
        /\ \E d \in DataOf(n) :
             /\ Write(t, d)
             /\ data' = [data EXCEPT ![t] = IF pc'[t] = "write" THEN d ELSE <<>>]
  /\ UNCHANGED size

ResumeWrite(t) ==
  /\ pc[t] = "write" /\ asleep[t] = "no"
  /\ Write(t, data[t])
  /\ data' = [data EXCEPT ![t] = IF pc'[t] = "write" THEN @ ELSE <<>>]
  /\ UNCHANGED size

-----------------------------------------------------------------------------
(* Dup2 and Exec add a descriptor, Close, Dup2 and Exit drop one.          *)

AddFid(e) ==
  /\ fids[e] \in 1 .. MaxFids - 1                           \* bound
  /\ fids' = [fids EXCEPT ![e] = @ + 1]
  /\ UNCHANGED <<ring, closing, pc, asleep, size, data, out>>

DropFid(e) ==
  /\ fids[e] > 0
  /\ fids' = [fids EXCEPT ![e] = @ - 1]
  /\ UNCHANGED <<ring, pc, size, data, out>>
  /\ FCB_decref(e, {})

-----------------------------------------------------------------------------
Call(t) == \/ \E n \in ReadSizes : sys_Read(t, n)
           \/ \E n \in WriteSizes : sys_Write(t, n)

Resume(t) == ResumeRead(t) \/ ResumeWrite(t)

Next ==
  \/ \E t \in Threads :
       \/ Call(t)
       \/ Resume(t)
  \/ \E e \in Ends : AddFid(e) \/ DropFid(e)

Spec == Init /\ [][Next]_vars

\* Some woken thread goes on (KernelLock: a wanted kernel is taken, but not by
\* a thread of one's choice).
FairSpec == Spec /\ WF_vars(\E t \in Threads : Resume(t))

-----------------------------------------------------------------------------
(* Properties.                                                             *)

\* Every field keeps its type: the pointers stay indices of the buffer.
TypeOK ==
  /\ buffer \in [Slots -> Byte]
  /\ read_p \in Slots /\ write_p \in Slots
  /\ available_space \in 0 .. BUFF_SIZE
  /\ reader_closed \in BOOLEAN /\ writer_closed \in BOOLEAN /\ freed \in BOOLEAN
  /\ fids \in [Ends -> 0 .. MaxFids]
  /\ pc \in [Threads -> {"user"} \cup Ends]
  /\ asleep \in [Threads -> {"no", "hasData", "hasSpace"}]
  /\ size \in [Threads -> ReadSizes \cup {0}]
  /\ data \in [Threads -> Seq(Byte)]
  /\ out[1] \in {"read", "wrote", "error"}

\* The two descriptions of how full the ring is agree: available_space, and
\* the distance from read_p to write_p.  pipe_read and pipe_write test both.
RingInv == (read_p + BUFF_SIZE - available_space) % BUFF_SIZE = write_p

\* A thread sleeps only for a reason that still holds, so no broadcast was
\* missed: a reader sleeps on an empty pipe that can still be written, and
\* a writer on a full one (in a freed pipe it sleeps on what it reads there).
SleepInv ==
  \A t \in Threads :
    /\ asleep[t] = "hasData" => pc[t] = "read" /\ Empty /\ ~ writer_closed
    /\ asleep[t] = "hasSpace" => pc[t] = "write" /\ (Full \/ Garbage)
    /\ pc[t] = "user" => asleep[t] = "no"

\* An end is closed when, and only when, its last reference is dropped, by a
\* Close or by the return of a call that was under way; so no Read is in a
\* pipe that has been freed.  (A Write can be: see Garbage.)
CloseInv ==
  /\ reader_closed <=> Refs("read") = 0
  /\ writer_closed <=> Refs("write") = 0 \/ Refs("read") = 0
  /\ freed => \A t \in Threads : pc[t] # "read"

\* The ring, the sleepers and the closed ends agree, however many threads read,
\* write, copy and drop the descriptors of the two ends.
PipeInv == TypeOK /\ RingInv /\ SleepInv /\ CloseInv

\* The programs stop making calls on the pipe.
CallsEnd == <>[][~ \E t \in Threads : Call(t)]_vars

\* Then nobody is left behind: a reader waits only on an empty pipe whose write end
\* is open, as closing it wakes all of them, and a writer only on a full one, as
\* long as the pipe exists.
CallsReturn ==
  CallsEnd => <>[](\A t \in Threads :
    /\ pc[t] = "read" => Empty /\ ~ writer_closed
    /\ pc[t] = "write" => Full \/ freed)

-----------------------------------------------------------------------------
(* The refinement of ByteChannel: the ring's contents from read_p on, until *)
(* the pipe is freed.                                                      *)

Contents == [i \in 1 .. BUFF_SIZE - available_space |->
               buffer[(read_p + i - 1) % BUFF_SIZE]]

Channel == INSTANCE ByteChannel WITH
  Capacity <- BUFF_SIZE,
  queue <- (IF freed THEN <<>> ELSE Contents),
  closed <- (IF reader_closed THEN {"read"} ELSE {})
              \cup (IF writer_closed THEN {"write"} ELSE {})

\* Bytes come out in the order in which they went in, each once, whatever
\* readers and writers share the ring and wherever its pointers wrap; the end
\* of file comes only when everything has been read.
ImplementsByteChannel == Channel!Spec
=============================================================================
