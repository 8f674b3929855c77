---------------------------- MODULE ByteChannel ----------------------------
(***************************************************************************)
(* What tinyos.h promises of a pipe: a bounded first-in first-out channel  *)
(* of bytes with two ends.  A read returns a prefix of what is in the      *)
(* channel, or the end of file when the channel is empty and its write end *)
(* is closed; a write appends some of its bytes.  Writes with the read end *)
(* closed should fail; the code does not ensure it, so that here their     *)
(* result is left open, but they put nothing into the channel.             *)
(***************************************************************************)
EXTENDS Integers, Sequences

CONSTANTS Byte, Capacity

VARIABLES
  queue,     \* the bytes in the channel, oldest first
  closed,    \* the ends that are closed
  out        \* the result of the call that returned last: the bytes that a
             \* Read returned (none at the end of file), the number of bytes
             \* that a Write took, or -1

vars == <<queue, closed, out>>

BytesUpTo(n) == UNION {[1 .. k -> Byte] : k \in 0 .. n}

Init == queue = <<>> /\ closed = {} /\ out = <<"error", -1>>

\* Bytes leave or enter.  A read that was under way may have kept its end
\* open: its return then closes the end, in the same step, and what is left in
\* the channel is lost.
Leave(rest) ==
  \/ queue' = rest /\ UNCHANGED closed
  \/ queue' = <<>> /\ closed' = {"read", "write"}

Read(n) ==
  /\ "read" \notin closed /\ n \in 1 .. Len(queue)
  /\ out' = <<"read", SubSeq(queue, 1, n)>>
  /\ Leave(SubSeq(queue, n + 1, Len(queue)))

EndOfFile ==
  /\ "read" \notin closed /\ "write" \in closed /\ queue = <<>>
  /\ out' = <<"read", <<>>>>
  /\ Leave(<<>>)

Write(data) ==
  /\ closed = {} /\ Len(queue) + Len(data) <= Capacity
  /\ queue' = queue \o data
  /\ out' = <<"wrote", Len(data)>>
  /\ closed' \in {{}, {"write"}}

WriteToNobody ==
  /\ "read" \in closed
  /\ out' \in ({"wrote"} \X (Nat \ {0})) \cup {<<"error", -1>>}
  /\ UNCHANGED <<queue, closed>>

\* The end of the read end is the end of the channel.
Close ==
  /\ \/ closed' = closed \cup {"write"} /\ UNCHANGED queue
     \/ closed' = {"read", "write"} /\ queue' = <<>>
  /\ UNCHANGED out

Next ==
  \/ \E n \in 1 .. Capacity : Read(n)
  \/ EndOfFile
  \/ \E data \in BytesUpTo(Capacity) \ {<<>>} : Write(data)
  \/ WriteToNobody
  \/ Close

Spec == Init /\ [][Next]_vars
=============================================================================
