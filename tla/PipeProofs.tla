----------------------------- MODULE PipeProofs -----------------------------
(***************************************************************************)
(* Proofs about Pipe, for any number of threads, any sizes of calls and    *)
(* any BUFF_SIZE: the fields of the PipeCB agree with each other and with  *)
(* the references to the two ends, and the pipe implements ByteChannel.    *)
(***************************************************************************)
EXTENDS Pipe, ListLemmas

\* A Write that sleeps has something to write.
DataInv == \A t \in Threads : pc[t] = "write" => data[t] # <<>>

\* That memory is freed when the read end is closed makes the rest inductive:
\* a reader never finds the pipe freed because it holds a reference.
IInv == PipeInv /\ (freed <=> reader_closed) /\ DataInv

-----------------------------------------------------------------------------
(* The ring.                                                               *)

\* c bytes leave a ring of b slots that has a free ones: read_p goes from r to
\* (r + c) % b, write_p stays, and the places of the other bytes do not change.
LEMMA RingRead ==
  ASSUME NEW b \in Nat \ {0}, NEW r \in 0 .. b - 1, NEW a \in 0 .. b, NEW c \in 0 .. b - a
  PROVE  /\ (r + c) % b \in 0 .. b - 1
         /\ (((r + c) % b) + b - (a + c)) % b = (r + b - a) % b
         /\ \A i \in 1 .. b - a - c : (((r + c) % b) + i - 1) % b = (r + (c + i) - 1) % b
<1>1. (r + c) % b = IF r + c < b THEN r + c ELSE r + c - b
  BY SMTT(20)
<1>2. (r + c) % b \in 0 .. b - 1
  BY <1>1
<1>3. (((r + c) % b) + b - (a + c)) % b = (r + b - a) % b
  <2>1. (r + b - a) % b = IF r + b - a < b THEN r + b - a ELSE r + b - a - b
    BY SMTT(20)
  <2>a. PICK q : q = (r + c) % b
    OBVIOUS
  <2>2. q \in 0 .. b - 1 /\ q = IF r + c < b THEN r + c ELSE r + c - b
    BY <1>1, <1>2, <2>a
  <2>3. (q + b - (a + c)) % b = IF q + b - (a + c) < b THEN q + b - (a + c) ELSE q - (a + c)
    BY <2>2, SMTT(20)
  <2>4. (q + b - (a + c)) % b = (r + b - a) % b
    BY <2>1, <2>2, <2>3
  <2> QED BY <2>a, <2>4
<1>4. ASSUME NEW i \in 1 .. b - a - c
      PROVE  (((r + c) % b) + i - 1) % b = (r + (c + i) - 1) % b
  <2>1. (r + (c + i) - 1) % b = IF r + (c + i) - 1 < b THEN r + (c + i) - 1 ELSE r + (c + i) - 1 - b
    BY SMTT(20)
  <2>a. PICK q : q = (r + c) % b
    OBVIOUS
  <2>2. q \in 0 .. b - 1 /\ q = IF r + c < b THEN r + c ELSE r + c - b
    BY <1>1, <1>2, <2>a
  <2>3. (q + i - 1) % b = IF q + i - 1 < b THEN q + i - 1 ELSE q + i - 1 - b
    BY <2>2, SMTT(20)
  <2>4. (q + i - 1) % b = (r + (c + i) - 1) % b
    BY <2>1, <2>2, <2>3
  <2> QED BY <2>a, <2>4
<1> QED BY <1>2, <1>3, <1>4

\* c bytes enter it: write_p goes from w to (w + c) % b, and slot (w + k) % b
\* gets byte k + 1 of them.  The slots of the bytes in the ring keep theirs.
WriteFits(b, r, a, c, w) ==
  /\ (w + c) % b \in 0 .. b - 1
  /\ (r + b - (a - c)) % b = (w + c) % b
  /\ \A i \in 1 .. b - a : (((r + i - 1) % b) - w) % b >= c
  /\ \A i \in b - a + 1 .. b - a + c : (((r + i - 1) % b) - w) % b = i - 1 - (b - a)

\* That is so of a ring whose fields agree.
LEMMA RingWrite ==
  ASSUME NEW b \in Nat \ {0}, NEW r \in 0 .. b - 1, NEW a \in 0 .. b, NEW c \in 0 .. a,
         NEW w \in 0 .. b - 1, w = (r + b - a) % b
  PROVE  WriteFits(b, r, a, c, w)
<1>1. w \in 0 .. b - 1 /\ w = IF r + b - a < b THEN r + b - a ELSE r - a
  BY SMTT(20)
<1>2. (w + c) % b \in 0 .. b - 1 /\ (w + c) % b = IF w + c < b THEN w + c ELSE w + c - b
  BY <1>1, SMTT(20)
<1>3. (r + b - (a - c)) % b = IF r + b - (a - c) < b THEN r + b - (a - c) ELSE r - (a - c)
  BY SMTT(20)
<1>4. (r + b - (a - c)) % b = (w + c) % b
  BY <1>1, <1>2, <1>3
<1>5. ASSUME NEW i \in 1 .. b
      PROVE  (((r + i - 1) % b) - w) % b = IF i <= b - a THEN a + i - 1 ELSE i - 1 - (b - a)
  <2> DEFINE q == (r + i - 1) % b
  <2>1. q \in 0 .. b - 1 /\ q = IF r + i - 1 < b THEN r + i - 1 ELSE r + i - 1 - b
    BY SMTT(20)
  <2> HIDE DEF q
  <2>2. (q - w) % b = IF q - w >= 0 THEN q - w ELSE q - w + b
    <3>1. PICK x \in - (b - 1) .. b - 1 : x = q - w
      BY <1>1, <2>1
    <3>2. CASE x >= 0
      BY <3>1, <3>2, SMTT(20)
    <3>3. CASE x < 0
      <4>1. x % b = x + b
        BY <3>1, <3>3, SMTT(20)
      <4> QED BY <3>1, <3>3, <4>1
    <3> QED BY <3>1, <3>2, <3>3
  <2> QED BY <1>1, <2>1, <2>2 DEF q
<1>6. ASSUME NEW i \in 1 .. b - a
      PROVE  (((r + i - 1) % b) - w) % b >= c
  <2>1. i \in 1 .. b /\ i <= b - a
    OBVIOUS
  <2>2. (((r + i - 1) % b) - w) % b = a + i - 1
    BY <1>5, <2>1
  <2> QED BY <2>2
<1>7. ASSUME NEW i \in b - a + 1 .. b - a + c
      PROVE  (((r + i - 1) % b) - w) % b = i - 1 - (b - a)
  <2>1. i \in 1 .. b /\ ~ (i <= b - a)
    OBVIOUS
  <2> QED BY <1>5, <2>1
<1> QED BY <1>2, <1>4, <1>6, <1>7 DEF WriteFits

\* The two tests of how full the ring is come to one.
LEMMA EmptyFull ==
  ASSUME TypeOK, RingInv
  PROVE  /\ Empty <=> available_space = BUFF_SIZE
         /\ Full <=> available_space = 0
         /\ BUFF_SIZE \in Nat \ {0} /\ read_p \in 0 .. BUFF_SIZE - 1
         /\ available_space \in 0 .. BUFF_SIZE
<1>1. /\ BUFF_SIZE \in Nat \ {0} /\ read_p \in 0 .. BUFF_SIZE - 1
      /\ available_space \in 0 .. BUFF_SIZE
      /\ (read_p + BUFF_SIZE - available_space) % BUFF_SIZE = write_p
  BY PipeAssumption DEF TypeOK, Slots, RingInv
<1>2. available_space \in {0, BUFF_SIZE} => write_p = read_p
  BY <1>1, SMTT(20)
<1> QED BY <1>1, <1>2 DEF Empty, Full

-----------------------------------------------------------------------------
(* References to the two ends.                                             *)

\* The threads in a call on end e.
Callers(e) == {t \in Threads : pc[t] = e}

\* The references are counted by a number, before a step and after it.
LEMMA RefsCount ==
  \A e : /\ Cardinality(Callers(e)) \in Nat /\ Cardinality(Callers(e)') \in Nat
         /\ Cardinality(Callers(e)) = 0 <=> Callers(e) = {}
         /\ Cardinality(Callers(e)') = 0 <=> Callers(e)' = {}
         /\ Refs(e) = fids[e] + Cardinality(Callers(e))
         /\ Refs(e)' = fids'[e] + Cardinality(Callers(e)')
<1>1. ASSUME NEW S, S \subseteq Threads
      PROVE  Cardinality(S) \in Nat /\ (Cardinality(S) = 0 <=> S = {})
  BY <1>1, PipeAssumption, FS_Subset, FS_CardinalityType, FS_EmptySet
<1>2. ASSUME NEW e
      PROVE  /\ Callers(e) \subseteq Threads /\ Callers(e)' \subseteq Threads
             /\ Refs(e) = fids[e] + Cardinality(Callers(e))
             /\ Refs(e)' = fids'[e] + Cardinality(Callers(e)')
  BY DEF Callers, Refs
<1> QED BY <1>1, <1>2

\* When an end has references: a descriptor, or a caller.
LEMMA RefsZero ==
  ASSUME fids \in [Ends -> Nat], NEW e \in Ends
  PROVE  /\ Refs(e) \in Nat
         /\ Refs(e) = 0 <=> fids[e] = 0 /\ \A t \in Threads : pc[t] # e
<1>1. Refs(e) \in Nat /\ (Refs(e) = 0 <=> fids[e] = 0 /\ Callers(e) = {})
  BY RefsCount
<1> QED BY <1>1 DEF Callers

\* The same after a step.
LEMMA RefsZeroNext ==
  ASSUME fids' \in [Ends -> Nat], NEW e \in Ends
  PROVE  /\ Refs(e)' \in Nat
         /\ Refs(e)' = 0 <=> fids'[e] = 0 /\ \A t \in Threads : pc'[t] # e
<1>1. Refs(e)' \in Nat /\ (Refs(e)' = 0 <=> fids'[e] = 0 /\ Callers(e)' = {})
  BY RefsCount
<1> QED BY <1>1 DEF Callers

\* The types that a step on a call of end e leaves as they were.
TypesKept ==
  /\ buffer' \in [Slots -> Byte] /\ read_p' \in Slots /\ write_p' \in Slots
  /\ available_space' \in 0 .. BUFF_SIZE
  /\ fids' \in [Ends -> 0 .. MaxFids]
  /\ pc' \in [Threads -> {"user"} \cup Ends]
  /\ size' \in [Threads -> ReadSizes \cup {0}]
  /\ data' \in [Threads -> Seq(Byte)]
  /\ out'[1] \in {"read", "wrote", "error"}

\* FCB_decref of an end: it is closed with its last reference, and nobody who
\* would sleep for nothing goes on sleeping.
LEMMA DecrefInv ==
  ASSUME IInv, NEW e \in Ends, NEW woken, FCB_decref(e, woken), TypesKept, RingInv', DataInv',
         Refs(e) # 0, \A f \in Ends : f # e => (Refs(f)' = 0 <=> Refs(f) = 0),
         Empty /\ "hasData" \notin woken => Empty',
         Full /\ "hasSpace" \notin woken => Full',
         \A t \in Threads : pc'[t] = pc[t] \/ asleep[t] = "no"
  PROVE  IInv'
<1> DEFINE last == Refs(e)' = 0
           r == last /\ e = "read"
           broadcast == (IF r THEN {"hasSpace"} ELSE {})
                          \cup (IF last /\ ~ writer_closed THEN {"hasData"} ELSE {})
<1>1. /\ reader_closed' = (reader_closed \/ r)
      /\ writer_closed' = (writer_closed \/ last)
      /\ freed' = (freed \/ r)
      /\ asleep' = [t \in Threads |->
           IF asleep[t] \in woken \cup broadcast THEN "no" ELSE asleep[t]]
  BY DEF FCB_decref
<1>2. /\ TypeOK /\ RingInv /\ SleepInv /\ CloseInv /\ (freed <=> reader_closed)
  BY DEF IInv, PipeInv
<1>3. /\ reader_closed' \in BOOLEAN /\ writer_closed' \in BOOLEAN /\ freed' \in BOOLEAN
      /\ freed' <=> reader_closed'
  BY <1>1, <1>2 DEF TypeOK
<1>4. TypeOK'
  <2>1. asleep' \in [Threads -> {"no", "hasData", "hasSpace"}]
    BY <1>1, <1>2 DEF TypeOK
  <2> QED BY <1>3, <2>1 DEF TypeOK, TypesKept
<1>5. /\ reader_closed' <=> Refs("read")' = 0
      /\ writer_closed' <=> Refs("write")' = 0 \/ Refs("read")' = 0
  <2>1. /\ reader_closed <=> Refs("read") = 0
        /\ writer_closed <=> Refs("write") = 0 \/ Refs("read") = 0
    BY <1>2 DEF CloseInv
  <2>2. CASE e = "read"
    <3>1. Refs("write")' = 0 <=> Refs("write") = 0
      BY <2>2 DEF Ends
    <3> QED BY <1>1, <2>1, <2>2, <3>1
  <2>3. CASE e = "write"
    <3>1. Refs("read")' = 0 <=> Refs("read") = 0
      BY <2>3 DEF Ends
    <3> QED BY <1>1, <2>1, <2>3, <3>1
  <2> QED BY <2>2, <2>3 DEF Ends
<1>6. CloseInv'
  <2>1. fids' \in [Ends -> Nat]
    BY DEF TypesKept
  <2>2. "read" \in Ends
    BY DEF Ends
  <2>3. freed' => \A t \in Threads : pc'[t] # "read"
    BY <1>3, <1>5, <2>1, <2>2, RefsZeroNext
  <2> QED BY <1>5, <2>3 DEF CloseInv
<1>7. ASSUME NEW t \in Threads
      PROVE  /\ asleep'[t] = "hasData" => pc'[t] = "read" /\ Empty' /\ ~ writer_closed'
             /\ asleep'[t] = "hasSpace" => pc'[t] = "write" /\ (Full' \/ Garbage')
             /\ pc'[t] = "user" => asleep'[t] = "no"
  <2>1. /\ asleep[t] = "hasData" => pc[t] = "read" /\ Empty /\ ~ writer_closed
        /\ asleep[t] = "hasSpace" => pc[t] = "write" /\ (Full \/ Garbage)
        /\ pc[t] = "user" => asleep[t] = "no"
    BY <1>2 DEF SleepInv
  <2>2. asleep'[t] = IF asleep[t] \in woken \cup broadcast THEN "no" ELSE asleep[t]
    BY <1>1
  <2>3. Garbage => Garbage'
    BY <1>1 DEF Garbage
  <2>4. CASE asleep'[t] = "hasData"
    <3>1. asleep[t] = "hasData" /\ "hasData" \notin woken /\ "hasData" \notin broadcast
      BY <2>2, <2>4
    <3>2. pc'[t] = "read" /\ Empty' /\ ~ writer_closed
      BY <2>1, <3>1
    <3>3. ~ last
      BY <3>1, <3>2
    <3> QED BY <1>1, <2>4, <3>2, <3>3
  <2>5. CASE asleep'[t] = "hasSpace"
    <3>1. asleep[t] = "hasSpace" /\ "hasSpace" \notin woken
      BY <2>2, <2>5
    <3> QED BY <2>1, <2>3, <2>5, <3>1
  <2>6. pc'[t] = "user" => asleep'[t] = "no"
    BY <2>1, <2>2
  <2> QED BY <2>4, <2>5, <2>6
<1>8. SleepInv'
  BY <1>7 DEF SleepInv
<1> QED BY <1>3, <1>4, <1>6, <1>8 DEF IInv, PipeInv

\* kernel_wait in a call: the thread sleeps for a reason.
LEMMA WaitInv ==
  ASSUME IInv, NEW t \in Threads, NEW end \in Ends, NEW cv, Wait(t, end, cv), DataInv',
         pc[t] \in {"user", end}, asleep[t] = "no", Refs(end) # 0,
         \/ end = "read" /\ cv = "hasData" /\ Empty /\ ~ writer_closed
         \/ end = "write" /\ cv = "hasSpace" /\ (Full \/ Garbage),
         size' \in [Threads -> ReadSizes \cup {0}], data' \in [Threads -> Seq(Byte)]
  PROVE  IInv'
<1>1. /\ pc' = [pc EXCEPT ![t] = end] /\ asleep' = [asleep EXCEPT ![t] = cv]
      /\ UNCHANGED <<buffer, read_p, write_p, available_space, reader_closed, writer_closed,
                     freed, fids, out>>
  BY DEF Wait, ring, closing
<1>2. /\ TypeOK /\ RingInv /\ SleepInv /\ CloseInv /\ (freed <=> reader_closed)
  BY DEF IInv, PipeInv
<1>3. TypeOK'
  BY <1>1, <1>2 DEF TypeOK
<1>4. fids \in [Ends -> Nat] /\ fids' \in [Ends -> Nat]
  BY <1>1, <1>2 DEF TypeOK
<1>5. \A e \in Ends : Refs(e)' = 0 <=> Refs(e) = 0
  <2>1. SUFFICES ASSUME NEW e \in Ends
                 PROVE  Refs(e)' = 0 <=> Refs(e) = 0
    OBVIOUS
  <2>2. CASE e = end
    <3>1. pc'[t] = e
      BY <1>1, <1>2, <2>2 DEF TypeOK
    <3>2. Refs(e)' # 0
      BY <1>4, <3>1, RefsZeroNext
    <3>3. Refs(e) # 0
      BY <2>2
    <3> QED BY <3>2, <3>3
  <2>3. CASE e # end
    <3>1. \A u \in Threads : pc'[u] = e <=> pc[u] = e
      BY <1>1, <1>2, <2>3 DEF TypeOK, Ends
    <3>2. Refs(e) = 0 <=> fids[e] = 0 /\ \A u \in Threads : pc[u] # e
      BY <1>4, RefsZero
    <3>3. Refs(e)' = 0 <=> fids'[e] = 0 /\ \A u \in Threads : pc'[u] # e
      BY <1>4, RefsZeroNext
    <3>4. fids' = fids
      BY <1>1
    <3> QED BY <3>1, <3>2, <3>3, <3>4
  <2> QED BY <2>2, <2>3
<1>6. CloseInv'
  <2>1. "read" \in Ends /\ "write" \in Ends
    BY DEF Ends
  <2>2. /\ reader_closed' <=> Refs("read")' = 0
        /\ writer_closed' <=> Refs("write")' = 0 \/ Refs("read")' = 0
    BY <1>1, <1>2, <1>5, <2>1 DEF CloseInv
  <2>3. freed' => \A u \in Threads : pc'[u] # "read"
    BY <1>1, <1>2, <1>4, <2>1, <2>2, RefsZeroNext
  <2> QED BY <2>2, <2>3 DEF CloseInv
<1>7. SleepInv'
  <2>1. /\ (Empty' <=> Empty) /\ (Full' <=> Full) /\ (Garbage' <=> Garbage)
        /\ writer_closed' = writer_closed
    BY <1>1 DEF Empty, Full, Garbage
  <2>2. SUFFICES ASSUME NEW u \in Threads
                 PROVE  /\ asleep'[u] = "hasData" => pc'[u] = "read" /\ Empty /\ ~ writer_closed
                        /\ asleep'[u] = "hasSpace" => pc'[u] = "write" /\ (Full \/ Garbage)
                        /\ pc'[u] = "user" => asleep'[u] = "no"
    BY <2>1 DEF SleepInv
  <2>3. CASE u = t
    <3>1. pc'[u] = end /\ asleep'[u] = cv
      BY <1>1, <1>2, <2>3 DEF TypeOK
    <3> QED BY <3>1 DEF Ends
  <2>4. CASE u # t
    <3>1. pc'[u] = pc[u] /\ asleep'[u] = asleep[u]
      BY <1>1, <1>2, <2>4 DEF TypeOK
    <3> QED BY <1>2, <3>1 DEF SleepInv
  <2> QED BY <2>3, <2>4
<1>8. RingInv'
  BY <1>1, <1>2 DEF RingInv
<1> QED BY <1>1, <1>2, <1>3, <1>6, <1>7, <1>8 DEF IInv, PipeInv

\* Return from a call, with the broadcasts that the change of the ring calls for.
LEMMA ReturnInv ==
  ASSUME IInv, NEW t \in Threads, NEW end \in Ends, NEW woken, NEW result,
         Return(t, end, woken, result), TypesKept, RingInv', DataInv',
         pc[t] \in {"user", end}, asleep[t] = "no", Refs(end) # 0,
         Empty /\ "hasData" \notin woken => Empty',
         Full /\ "hasSpace" \notin woken => Full'
  PROVE  IInv'
<1>1. /\ pc' = [pc EXCEPT ![t] = "user"] /\ FCB_decref(end, woken) /\ UNCHANGED fids
  BY DEF Return
<1>2. pc \in [Threads -> {"user"} \cup Ends] /\ fids \in [Ends -> Nat] /\ fids' \in [Ends -> Nat]
  BY <1>1 DEF IInv, PipeInv, TypeOK
<1>3. ASSUME NEW f \in Ends, f # end
      PROVE  Refs(f)' = 0 <=> Refs(f) = 0
  <2>1. \A u \in Threads : pc'[u] = f <=> pc[u] = f
    BY <1>1, <1>2, <1>3 DEF Ends
  <2> QED BY <1>1, <1>2, <2>1, RefsZero, RefsZeroNext
<1>4. \A u \in Threads : pc'[u] = pc[u] \/ asleep[u] = "no"
  BY <1>1, <1>2
<1> QED BY <1>1, <1>3, <1>4, DecrefInv

-----------------------------------------------------------------------------
(* The calls.                                                              *)

\* The facts about a state that the calls use.
LEMMA Before ==
  ASSUME IInv
  PROVE  /\ TypeOK /\ RingInv /\ SleepInv /\ CloseInv /\ (freed <=> reader_closed) /\ DataInv
         /\ fids \in [Ends -> Nat] /\ pc \in [Threads -> {"user"} \cup Ends]
         /\ Empty <=> available_space = BUFF_SIZE
         /\ Full <=> available_space = 0
         /\ BUFF_SIZE \in Nat \ {0} /\ read_p \in 0 .. BUFF_SIZE - 1
         /\ write_p \in 0 .. BUFF_SIZE - 1
         /\ available_space \in 0 .. BUFF_SIZE
         /\ write_p = (read_p + BUFF_SIZE - available_space) % BUFF_SIZE
         /\ freed => Refs("read") = 0
         /\ ~ freed /\ Refs("write") # 0 => ~ writer_closed
<1>1. /\ TypeOK /\ RingInv /\ SleepInv /\ CloseInv /\ (freed <=> reader_closed) /\ DataInv
      /\ fids \in [Ends -> Nat] /\ pc \in [Threads -> {"user"} \cup Ends]
  BY DEF IInv, PipeInv, TypeOK
<1>2. write_p = (read_p + BUFF_SIZE - available_space) % BUFF_SIZE /\ write_p \in 0 .. BUFF_SIZE - 1
  BY <1>1 DEF RingInv, TypeOK, Slots
<1>3. /\ freed => Refs("read") = 0
      /\ ~ freed /\ Refs("write") # 0 => ~ writer_closed
  BY <1>1 DEF CloseInv
<1> QED BY <1>1, <1>2, <1>3, EmptyFull

\* A size of 0 is no limit.
LEMMA Sizes ==
  ASSUME NEW n \in Nat
  PROVE  Limit(n) \in Nat \ {0}
BY PipeAssumption DEF Limit

\* What a Read changes of the ring, when it returns bytes.
LEMMA ReadRing ==
  ASSUME IInv, ~ Empty, NEW n \in Nat
  PROVE  LET c == Minimum(Limit(n), BUFF_SIZE - available_space)
         IN  /\ c \in 1 .. BUFF_SIZE - available_space
             /\ available_space + c \in 0 .. BUFF_SIZE
             /\ Advanced(read_p, c) \in Slots
             /\ (Advanced(read_p, c) + BUFF_SIZE - (available_space + c)) % BUFF_SIZE = write_p
             /\ \A i \in 1 .. BUFF_SIZE - (available_space + c) :
                  (Advanced(read_p, c) + i - 1) % BUFF_SIZE = (read_p + (c + i) - 1) % BUFF_SIZE
<1>1. PICK c : c = Minimum(Limit(n), BUFF_SIZE - available_space)
  OBVIOUS
<1>2. available_space # BUFF_SIZE /\ available_space \in 0 .. BUFF_SIZE /\ BUFF_SIZE \in Nat \ {0}
  BY Before
<1>3. Limit(n) \in Nat \ {0}
  BY Sizes
<1>4. c \in 1 .. BUFF_SIZE - available_space /\ c \in 0 .. BUFF_SIZE - available_space
  BY <1>1, <1>2, <1>3 DEF Minimum
<1>5. /\ (read_p + c) % BUFF_SIZE \in 0 .. BUFF_SIZE - 1
      /\ (((read_p + c) % BUFF_SIZE) + BUFF_SIZE - (available_space + c)) % BUFF_SIZE
           = (read_p + BUFF_SIZE - available_space) % BUFF_SIZE
      /\ \A i \in 1 .. BUFF_SIZE - available_space - c :
           (((read_p + c) % BUFF_SIZE) + i - 1) % BUFF_SIZE = (read_p + (c + i) - 1) % BUFF_SIZE
  BY <1>4, Before, RingRead
<1>6. /\ available_space + c \in 0 .. BUFF_SIZE
      /\ BUFF_SIZE - (available_space + c) = BUFF_SIZE - available_space - c
  BY <1>2, <1>4
<1> QED BY <1>1, <1>4, <1>5, <1>6, Before DEF Advanced, Slots

\* One turn of pipe_read's loop, by a thread that holds a reference.
LEMMA ReadInv ==
  ASSUME IInv, NEW t \in Threads, NEW n \in Nat, Read(t, n), DataInv',
         pc[t] \in {"user", "read"}, asleep[t] = "no", Refs("read") # 0,
         size' \in [Threads -> ReadSizes \cup {0}], UNCHANGED data
  PROVE  IInv'
<1>1. PICK c : c = Minimum(Limit(n), BUFF_SIZE - available_space)
  OBVIOUS
<1>2. data' \in [Threads -> Seq(Byte)]
  BY Before DEF TypeOK
<1>3. "read" \in Ends
  BY DEF Ends
<1>4. CASE Empty /\ ~ writer_closed /\ Wait(t, "read", "hasData")
  BY <1>2, <1>3, <1>4, WaitInv
<1>5. CASE Empty /\ writer_closed /\ Return(t, "read", {}, <<"read", <<>>>>) /\ UNCHANGED ring
  <2>1. UNCHANGED <<buffer, read_p, write_p, available_space>>
    BY <1>5 DEF ring
  <2>2. /\ pc' = [pc EXCEPT ![t] = "user"] /\ UNCHANGED fids /\ out' = <<"read", <<>>>>
    BY <1>5 DEF Return
  <2>3. TypesKept
    BY <1>2, <2>1, <2>2, Before DEF TypesKept, TypeOK
  <2>4. RingInv' /\ (Empty => Empty') /\ (Full => Full')
    BY <2>1, Before DEF RingInv, Empty, Full
  <2> QED BY <1>3, <1>5, <2>3, <2>4, ReturnInv
<1>6. CASE /\ ~ Empty /\ read_p' = Advanced(read_p, c) /\ available_space' = available_space + c
           /\ UNCHANGED <<buffer, write_p>>
           /\ \E result : Return(t, "read", ReadWakes, <<"read", result>>)
  <2>1. PICK result : Return(t, "read", ReadWakes, <<"read", result>>)
    BY <1>6
  <2>2. /\ pc' = [pc EXCEPT ![t] = "user"] /\ UNCHANGED fids /\ out' = <<"read", result>>
    BY <2>1 DEF Return
  <2>3. /\ available_space + c \in 0 .. BUFF_SIZE /\ Advanced(read_p, c) \in Slots
        /\ (Advanced(read_p, c) + BUFF_SIZE - (available_space + c)) % BUFF_SIZE = write_p
    BY <1>1, <1>6, ReadRing
  <2>4. TypesKept
    BY <1>2, <1>6, <2>2, <2>3, Before DEF TypesKept, TypeOK
  <2>5. RingInv'
    BY <1>6, <2>3 DEF RingInv
  <2>6. "hasSpace" \in ReadWakes /\ ~ Empty
    BY <1>6 DEF ReadWakes
  <2> QED BY <1>3, <2>1, <2>4, <2>5, <2>6, ReturnInv
<1> QED BY <1>1, <1>4, <1>5, <1>6 DEF Read

\* What a Write changes of the ring, when it writes to it.
LEMMA WriteRing ==
  ASSUME IInv, ~ Full, NEW d \in Seq(Byte), Len(d) # 0
  PROVE  LET c == Minimum(Len(d), available_space)
         IN  /\ c \in 1 .. available_space /\ c \in 1 .. Len(d)
             /\ available_space - c \in 0 .. BUFF_SIZE
             /\ Advanced(write_p, c) \in Slots
             /\ (read_p + BUFF_SIZE - (available_space - c)) % BUFF_SIZE = Advanced(write_p, c)
             /\ \A i \in 1 .. BUFF_SIZE - available_space :
                  (((read_p + i - 1) % BUFF_SIZE) - write_p) % BUFF_SIZE >= c
             /\ \A i \in BUFF_SIZE - available_space + 1 .. BUFF_SIZE - available_space + c :
                  (((read_p + i - 1) % BUFF_SIZE) - write_p) % BUFF_SIZE
                    = i - 1 - (BUFF_SIZE - available_space)
<1>1. PICK c : c = Minimum(Len(d), available_space)
  OBVIOUS
<1>2. available_space # 0 /\ available_space \in 0 .. BUFF_SIZE /\ BUFF_SIZE \in Nat \ {0}
  BY Before
<1>3. PICK m \in Nat \ {0} : m = Len(d)
  OBVIOUS
<1>4. c \in 1 .. available_space /\ c \in 1 .. m /\ c \in 0 .. available_space
  BY <1>1, <1>2, <1>3 DEF Minimum
<1>5. /\ (write_p + c) % BUFF_SIZE \in 0 .. BUFF_SIZE - 1
      /\ (read_p + BUFF_SIZE - (available_space - c)) % BUFF_SIZE = (write_p + c) % BUFF_SIZE
      /\ \A i \in 1 .. BUFF_SIZE - available_space :
           (((read_p + i - 1) % BUFF_SIZE) - write_p) % BUFF_SIZE >= c
      /\ \A i \in BUFF_SIZE - available_space + 1 .. BUFF_SIZE - available_space + c :
           (((read_p + i - 1) % BUFF_SIZE) - write_p) % BUFF_SIZE = i - 1 - (BUFF_SIZE - available_space)
  <2>1. /\ BUFF_SIZE \in Nat \ {0} /\ read_p \in 0 .. BUFF_SIZE - 1
        /\ available_space \in 0 .. BUFF_SIZE /\ c \in 0 .. available_space
        /\ write_p \in 0 .. BUFF_SIZE - 1
        /\ write_p = (read_p + BUFF_SIZE - available_space) % BUFF_SIZE
    BY <1>4, Before
  <2>2. WriteFits(BUFF_SIZE, read_p, available_space, c, write_p)
    BY <2>1, RingWrite
  <2> QED BY <2>2 DEF WriteFits
<1>6. available_space - c \in 0 .. BUFF_SIZE
  BY <1>2, <1>4
<1> QED BY <1>1, <1>3, <1>4, <1>5, <1>6 DEF Advanced, Slots

\* The ring after a Write: count bytes of d, from write_p on.
Written(d) ==
  LET count == Minimum(Len(d), available_space)
  IN  [i \in Slots |-> LET k == (i - write_p) % BUFF_SIZE
                       IN  IF k < count THEN d[k + 1] ELSE buffer[i]]

\* It holds bytes.
LEMMA WrittenType ==
  ASSUME IInv, NEW d \in Seq(Byte)
  PROVE  Written(d) \in [Slots -> Byte]
<1>1. ASSUME NEW i \in Slots, (i - write_p) % BUFF_SIZE < Minimum(Len(d), available_space)
      PROVE  d[((i - write_p) % BUFF_SIZE) + 1] \in Byte
  <2>1. PICK k \in 0 .. BUFF_SIZE - 1 : k = (i - write_p) % BUFF_SIZE
    BY Before, SMTT(20) DEF Slots
  <2>2. k < Len(d)
    BY <1>1, <2>1, Before DEF Minimum
  <2>3. k + 1 \in 1 .. Len(d)
    BY <2>2
  <2> QED BY <2>1, <2>3
<1>2. buffer \in [Slots -> Byte]
  BY Before DEF TypeOK
<1> QED BY <1>1, <1>2 DEF Written

\* One turn of pipe_write's loop, by a thread that holds a reference.
LEMMA WriteInv ==
  ASSUME IInv, NEW t \in Threads, NEW d \in Seq(Byte), Len(d) # 0, Write(t, d), DataInv',
         pc[t] \in {"user", "write"}, asleep[t] = "no", Refs("write") # 0,
         data' \in [Threads -> Seq(Byte)], UNCHANGED size
  PROVE  IInv'
<1>1. PICK c : c = Minimum(Len(d), available_space)
  OBVIOUS
<1>2. size' \in [Threads -> ReadSizes \cup {0}]
  BY Before DEF TypeOK
<1>3. "write" \in Ends
  BY DEF Ends
<1>4. CASE (Full \/ Garbage) /\ Wait(t, "write", "hasSpace")
  BY <1>2, <1>3, <1>4, WaitInv
<1>5. CASE /\ ~ Full /\ ~ Garbage /\ Return(t, "write", {"hasData"}, <<"wrote", c>>)
           /\ buffer' = Written(d) /\ write_p' = Advanced(write_p, c)
           /\ available_space' = available_space - c /\ UNCHANGED read_p
  <2>1. /\ pc' = [pc EXCEPT ![t] = "user"] /\ UNCHANGED fids /\ out' = <<"wrote", c>>
    BY <1>5 DEF Return
  <2>2. /\ available_space - c \in 0 .. BUFF_SIZE /\ Advanced(write_p, c) \in Slots
        /\ (read_p + BUFF_SIZE - (available_space - c)) % BUFF_SIZE = Advanced(write_p, c)
    BY <1>1, <1>5, WriteRing
  <2>3. TypesKept
    BY <1>2, <1>5, <2>1, <2>2, WrittenType, Before DEF TypesKept, TypeOK
  <2>4. RingInv'
    BY <1>5, <2>2 DEF RingInv
  <2> QED BY <1>3, <1>5, <2>3, <2>4, ReturnInv
<1>6. CASE /\ UNCHANGED ring
           /\ \E n : Return(t, "write", {}, <<"wrote", n>>)
  <2>1. PICK n : Return(t, "write", {}, <<"wrote", n>>)
    BY <1>6
  <2>2. UNCHANGED <<buffer, read_p, write_p, available_space>>
    BY <1>6 DEF ring
  <2>3. /\ pc' = [pc EXCEPT ![t] = "user"] /\ UNCHANGED fids /\ out' = <<"wrote", n>>
    BY <2>1 DEF Return
  <2>4. TypesKept
    BY <1>2, <2>2, <2>3, Before DEF TypesKept, TypeOK
  <2>5. RingInv' /\ (Empty => Empty') /\ (Full => Full')
    BY <2>2, Before DEF RingInv, Empty, Full
  <2> QED BY <1>3, <2>1, <2>4, <2>5, ReturnInv
<1> QED BY <1>1, <1>4, <1>5, <1>6 DEF Write, Written

\* The data of a Write.
LEMMA WriteData ==
  ASSUME NEW n \in WriteSizes, NEW d \in DataOf(n)
  PROVE  d \in Seq(Byte) /\ Len(d) # 0 /\ d # <<>>
<1>1. PICK m \in Nat \ {0} : m = Limit(n)
  BY PipeAssumption, Sizes
<1>2. d \in [1 .. m -> Byte]
  BY <1>1 DEF DataOf
<1>3. d \in Seq(Byte) /\ Len(d) = m
  BY <1>2, <1>1
<1>4. Len(<<>>) = 0
  OBVIOUS
<1>5. Len(d) # 0
  BY <1>3
<1> QED BY <1>3, <1>4, <1>5, Zenon

\* A thread that makes no call does not sleep; a reference keeps an end open.
LEMMA Caller ==
  ASSUME IInv, NEW t \in Threads, NEW e \in Ends
  PROVE  /\ pc[t] = "user" => asleep[t] = "no"
         /\ pc[t] = e \/ fids[e] > 0 => Refs(e) # 0
<1>1. pc[t] = "user" => asleep[t] = "no"
  BY Before DEF SleepInv
<1>2. fids \in [Ends -> Nat]
  BY Before
<1>3. fids[e] \in Nat
  BY <1>2
<1>4. Refs(e) = 0 <=> fids[e] = 0 /\ \A u \in Threads : pc[u] # e
  BY <1>2, RefsZero
<1> QED BY <1>1, <1>3, <1>4

\* The calls that read.
LEMMA Reads ==
  ASSUME IInv, NEW t \in Threads,
         (\E n \in ReadSizes : sys_Read(t, n)) \/ ResumeRead(t)
  PROVE  /\ pc[t] \in {"user", "read"} /\ asleep[t] = "no" /\ Refs("read") # 0
         /\ UNCHANGED data /\ DataInv' /\ size' \in [Threads -> ReadSizes \cup {0}]
         /\ \E n \in Nat : Read(t, n)
<1>1. "read" \in Ends /\ "write" \notin {"user", "read"}
  BY DEF Ends
<1>2. size \in [Threads -> ReadSizes \cup {0}] /\ pc \in [Threads -> {"user"} \cup Ends] /\ DataInv
  BY Before DEF TypeOK
<1>3. /\ pc[t] \in {"user", "read"} /\ asleep[t] = "no" /\ Refs("read") # 0
      /\ UNCHANGED data /\ \E n \in Nat : Read(t, n)
      /\ size' \in [Threads -> ReadSizes \cup {0}]
  <2>1. CASE \E n \in ReadSizes : sys_Read(t, n)
    <3>1. PICK n \in ReadSizes : sys_Read(t, n)
      BY <2>1
    <3>2. n \in Nat
      BY PipeAssumption
    <3>3. pc[t] = "user" /\ fids["read"] > 0 /\ Read(t, n) /\ UNCHANGED data
      BY <3>1 DEF sys_Read
    <3>4. size' \in [Threads -> ReadSizes \cup {0}]
      BY <1>2, <3>1 DEF sys_Read
    <3> QED BY <1>1, <3>2, <3>3, <3>4, Caller
  <2>2. CASE ResumeRead(t)
    <3>1. pc[t] = "read" /\ asleep[t] = "no" /\ Read(t, size[t]) /\ UNCHANGED data
      BY <2>2 DEF ResumeRead
    <3>2. size[t] \in Nat
      <4>1. ReadSizes \cup {0} \subseteq Nat
        BY PipeAssumption
      <4> QED BY <1>2, <4>1
    <3>3. size' \in [Threads -> ReadSizes \cup {0}]
      BY <1>2, <2>2 DEF ResumeRead
    <3> QED BY <1>1, <3>1, <3>2, <3>3, Caller
  <2> QED BY <2>1, <2>2
<1>4. pc' = [pc EXCEPT ![t] = "user"] \/ pc' = [pc EXCEPT ![t] = "read"]
  BY <1>3 DEF Read, Wait, Return
<1>5. DataInv'
  BY <1>2, <1>3, <1>4 DEF DataInv
<1> QED BY <1>3, <1>5

\* The calls that write, unless the read end is closed.
LEMMA Writes ==
  ASSUME IInv, NEW t \in Threads,
         (\E n \in WriteSizes : sys_Write(t, n)) \/ ResumeWrite(t)
  PROVE  /\ pc[t] \in {"user", "write"} /\ asleep[t] = "no" /\ Refs("write") # 0
         /\ UNCHANGED size /\ DataInv' /\ data' \in [Threads -> Seq(Byte)]
         /\ \/ /\ reader_closed /\ Return(t, "write", {}, <<"error", -1>>)
               /\ UNCHANGED ring
            \/ \E d \in Seq(Byte) : Len(d) # 0 /\ Write(t, d)
<1>1. "write" \in Ends
  BY DEF Ends
<1>2. data \in [Threads -> Seq(Byte)] /\ pc \in [Threads -> {"user"} \cup Ends] /\ DataInv
  BY Before DEF TypeOK
<1>3. \A d : Write(t, d) => pc' = [pc EXCEPT ![t] = "user"] \/ pc' = [pc EXCEPT ![t] = "write"]
  BY DEF Write, Wait, Return
<1>4. CASE \E n \in WriteSizes : sys_Write(t, n)
  <2>1. PICK n \in WriteSizes : sys_Write(t, n)
    BY <1>4
  <2>2. /\ pc[t] = "user" /\ asleep[t] = "no" /\ Refs("write") # 0 /\ UNCHANGED size
    BY <1>1, <2>1, Caller DEF sys_Write
  <2>3. CASE /\ reader_closed /\ Return(t, "write", {}, <<"error", -1>>)
             /\ UNCHANGED <<ring, data>>
    <3>1. pc' = [pc EXCEPT ![t] = "user"] /\ data' = data
      BY <2>3 DEF Return
    <3>2. DataInv'
      BY <1>2, <3>1 DEF DataInv
    <3> QED BY <1>2, <2>2, <2>3, <3>1, <3>2
  <2>4. CASE \E d \in DataOf(n) : /\ Write(t, d)
                                  /\ data' = [data EXCEPT ![t] = IF pc'[t] = "write" THEN d ELSE <<>>]
    <3>1. PICK d \in DataOf(n) :
            /\ Write(t, d)
            /\ data' = [data EXCEPT ![t] = IF pc'[t] = "write" THEN d ELSE <<>>]
      BY <2>4
    <3>2. d \in Seq(Byte) /\ Len(d) # 0 /\ d # <<>>
      BY WriteData
    <3>3. data' \in [Threads -> Seq(Byte)]
      <4>1. <<>> \in Seq(Byte)
        OBVIOUS
      <4> QED BY <1>2, <3>1, <3>2, <4>1
    <3>4. \A u \in Threads : u # t => pc'[u] = pc[u] /\ data'[u] = data[u]
      BY <1>2, <1>3, <3>1
    <3>5. pc'[t] = "write" => data'[t] = d
      BY <1>2, <3>1
    <3>6. DataInv'
      BY <1>2, <3>2, <3>4, <3>5 DEF DataInv
    <3> QED BY <2>2, <3>1, <3>2, <3>3, <3>6
  <2> QED BY <2>1, <2>3, <2>4 DEF sys_Write
<1>5. CASE ResumeWrite(t)
  <2>1. /\ pc[t] = "write" /\ asleep[t] = "no" /\ Write(t, data[t])
        /\ data' = [data EXCEPT ![t] = IF pc'[t] = "write" THEN data[t] ELSE <<>>]
        /\ UNCHANGED size
    BY <1>5 DEF ResumeWrite
  <2>2. Refs("write") # 0
    BY <1>1, <2>1, Caller
  <2>3. PICK d \in Seq(Byte) : d = data[t]
    BY <1>2
  <2>4. d # <<>>
    BY <1>2, <2>1, <2>3 DEF DataInv
  <2>5. Len(d) # 0
    BY <2>4
  <2>6. data' \in [Threads -> Seq(Byte)]
    <3>1. <<>> \in Seq(Byte)
      OBVIOUS
    <3> QED BY <1>2, <2>1, <3>1
  <2>7. \A u \in Threads : u # t => pc'[u] = pc[u] /\ data'[u] = data[u]
    BY <1>2, <1>3, <2>1
  <2>8. pc'[t] = "write" => data'[t] = d
    BY <1>2, <2>1, <2>3
  <2>9. DataInv'
    BY <1>2, <2>4, <2>7, <2>8 DEF DataInv
  <2> QED BY <2>1, <2>2, <2>3, <2>5, <2>6, <2>9
<1> QED BY <1>4, <1>5

\* A Write to a pipe nobody reads.
LEMMA WriteErrorInv ==
  ASSUME IInv, NEW t \in Threads, pc[t] \in {"user", "write"}, asleep[t] = "no",
         Refs("write") # 0, UNCHANGED size, DataInv', data' \in [Threads -> Seq(Byte)],
         Return(t, "write", {}, <<"error", -1>>), UNCHANGED ring
  PROVE  IInv'
<1>1. UNCHANGED <<buffer, read_p, write_p, available_space>>
  BY DEF ring
<1>2. /\ pc' = [pc EXCEPT ![t] = "user"] /\ UNCHANGED fids /\ out' = <<"error", -1>>
  BY DEF Return
<1>3. TypesKept
  BY <1>1, <1>2, Before DEF TypesKept, TypeOK
<1>4. RingInv' /\ (Empty => Empty') /\ (Full => Full')
  BY <1>1, Before DEF RingInv, Empty, Full
<1>5. "write" \in Ends
  BY DEF Ends
<1> QED BY <1>3, <1>4, <1>5, ReturnInv

\* A descriptor is added.
LEMMA AddFidInv ==
  ASSUME IInv, NEW e \in Ends, AddFid(e)
  PROVE  IInv'
<1>1. /\ fids[e] \in 1 .. MaxFids - 1 /\ fids' = [fids EXCEPT ![e] = @ + 1]
      /\ UNCHANGED <<buffer, read_p, write_p, available_space, reader_closed, writer_closed,
                     freed, pc, asleep, size, data, out>>
  BY DEF AddFid, ring, closing
<1>2. TypeOK' /\ fids' \in [Ends -> Nat]
  BY <1>1, PipeAssumption, Before DEF TypeOK
<1>3. ASSUME NEW f \in Ends
      PROVE  Refs(f)' = 0 <=> Refs(f) = 0
  <2>1. fids \in [Ends -> Nat] /\ (fids'[f] = 0 <=> fids[f] = 0)
    BY <1>1, Before
  <2>2. Refs(f) = 0 <=> fids[f] = 0 /\ \A u \in Threads : pc[u] # f
    BY <2>1, RefsZero
  <2>3. Refs(f)' = 0 <=> fids'[f] = 0 /\ \A u \in Threads : pc'[u] # f
    BY <1>2, RefsZeroNext
  <2>4. pc' = pc
    BY <1>1
  <2> QED BY <2>1, <2>2, <2>3, <2>4
<1>4. CloseInv'
  <2>1. /\ Refs("read")' = 0 <=> Refs("read") = 0
        /\ Refs("write")' = 0 <=> Refs("write") = 0
    BY <1>3 DEF Ends
  <2> QED BY <1>1, <2>1, Before DEF CloseInv
<1>5. RingInv' /\ SleepInv' /\ DataInv' /\ (freed' <=> reader_closed')
  BY <1>1, Before DEF RingInv, SleepInv, DataInv, Empty, Full, Garbage
<1> QED BY <1>2, <1>4, <1>5 DEF IInv, PipeInv

\* A descriptor is dropped.
LEMMA DropFidInv ==
  ASSUME IInv, NEW e \in Ends, DropFid(e)
  PROVE  IInv'
<1>1. /\ fids[e] > 0 /\ fids' = [fids EXCEPT ![e] = @ - 1] /\ FCB_decref(e, {})
      /\ UNCHANGED <<buffer, read_p, write_p, available_space, pc, size, data, out>>
  BY DEF DropFid, ring
<1>2. TypesKept /\ fids' \in [Ends -> Nat]
  BY <1>1, PipeAssumption, Before DEF TypesKept, TypeOK
<1>3. RingInv' /\ DataInv' /\ (Empty => Empty') /\ (Full => Full')
  BY <1>1, Before DEF RingInv, Empty, Full, DataInv
<1>4. ASSUME NEW f \in Ends, f # e
      PROVE  Refs(f)' = 0 <=> Refs(f) = 0
  <2>1. fids \in [Ends -> Nat] /\ (fids'[f] = 0 <=> fids[f] = 0)
    BY <1>1, <1>4, Before
  <2>2. Refs(f) = 0 <=> fids[f] = 0 /\ \A u \in Threads : pc[u] # f
    BY <2>1, RefsZero
  <2>3. Refs(f)' = 0 <=> fids'[f] = 0 /\ \A u \in Threads : pc'[u] # f
    BY <1>2, RefsZeroNext
  <2>4. pc' = pc
    BY <1>1
  <2> QED BY <2>1, <2>2, <2>3, <2>4
<1>5. Refs(e) # 0
  <2>1. fids \in [Ends -> Nat]
    BY Before
  <2>2. Refs(e) = 0 => fids[e] = 0
    BY <2>1, RefsZero
  <2> QED BY <1>1, <2>1, <2>2
<1>6. \A t \in Threads : pc'[t] = pc[t]
  BY <1>1
<1> QED BY <1>1, <1>2, <1>3, <1>4, <1>5, <1>6, DecrefInv

\* The pipe that sys_Pipe makes.
LEMMA InitInv ==
  ASSUME Init
  PROVE  IInv
<1>1. /\ buffer = [i \in Slots |-> 0] /\ read_p = 0 /\ write_p = 0 /\ available_space = BUFF_SIZE
      /\ reader_closed = FALSE /\ writer_closed = FALSE /\ freed = FALSE
      /\ fids = [e \in Ends |-> 1] /\ pc = [t \in Threads |-> "user"]
      /\ asleep = [t \in Threads |-> "no"] /\ size = [t \in Threads |-> 0]
      /\ data = [t \in Threads |-> <<>>] /\ out = <<"error", -1>>
  BY DEF Init
<1>2. BUFF_SIZE \in Nat \ {0} /\ 0 \in Byte /\ 0 \in Slots /\ 1 \in 0 .. MaxFids
  BY PipeAssumption DEF Slots
<1>3. <<>> \in Seq(Byte)
  OBVIOUS
<1>4. TypeOK
  <2>1. out[1] = "error"
    BY <1>1
  <2>2. data \in [Threads -> Seq(Byte)]
    BY <1>1, <1>3
  <2>3. fids \in [Ends -> 0 .. MaxFids]
    BY <1>1, <1>2
  <2>4. /\ buffer \in [Slots -> Byte] /\ read_p \in Slots /\ write_p \in Slots
        /\ available_space \in 0 .. BUFF_SIZE
    BY <1>1, <1>2
  <2>5. pc \in [Threads -> {"user"} \cup Ends] /\ asleep \in [Threads -> {"no", "hasData", "hasSpace"}]
    BY <1>1
  <2>6. size \in [Threads -> ReadSizes \cup {0}]
    BY <1>1
  <2>7. reader_closed \in BOOLEAN /\ writer_closed \in BOOLEAN /\ freed \in BOOLEAN
    BY <1>1
  <2> QED BY <2>1, <2>2, <2>3, <2>4, <2>5, <2>6, <2>7 DEF TypeOK
<1>5. RingInv
  BY <1>1, <1>2, SMTT(20) DEF RingInv
<1>6. SleepInv /\ DataInv
  BY <1>1 DEF SleepInv, DataInv
<1>7. CloseInv
  <2>1. fids \in [Ends -> Nat] /\ "read" \in Ends /\ "write" \in Ends
    BY <1>1 DEF Ends
  <2>2. Refs("read") # 0 /\ Refs("write") # 0
    BY <1>1, <2>1, RefsZero
  <2> QED BY <1>1, <2>2 DEF CloseInv
<1> QED BY <1>1, <1>4, <1>5, <1>6, <1>7 DEF IInv, PipeInv

\* Every step keeps the invariant.
LEMMA NextInv ==
  ASSUME IInv, [Next]_vars
  PROVE  IInv'
<1>1. ASSUME NEW t \in Threads, (\E n \in ReadSizes : sys_Read(t, n)) \/ ResumeRead(t)
      PROVE  IInv'
  BY <1>1, Reads, ReadInv
<1>2. ASSUME NEW t \in Threads, (\E n \in WriteSizes : sys_Write(t, n)) \/ ResumeWrite(t)
      PROVE  IInv'
  <2>1. /\ pc[t] \in {"user", "write"} /\ asleep[t] = "no" /\ Refs("write") # 0
        /\ UNCHANGED size /\ DataInv' /\ data' \in [Threads -> Seq(Byte)]
        /\ \/ /\ reader_closed /\ Return(t, "write", {}, <<"error", -1>>)
              /\ UNCHANGED ring
           \/ \E d \in Seq(Byte) : Len(d) # 0 /\ Write(t, d)
    BY <1>2, Writes
  <2> QED BY <2>1, WriteErrorInv, WriteInv
<1>3. ASSUME NEW e \in Ends, AddFid(e) \/ DropFid(e)
      PROVE  IInv'
  BY <1>3, AddFidInv, DropFidInv
<1>4. CASE UNCHANGED vars
  <2>1. UNCHANGED <<buffer, read_p, write_p, available_space, reader_closed, writer_closed,
                    freed, fids, pc, asleep, size, data, out>>
    BY <1>4 DEF vars, ring, closing
  <2> QED
    BY <2>1, Before DEF IInv, PipeInv, TypeOK, RingInv, SleepInv, CloseInv, DataInv,
                        Empty, Full, Garbage, Refs
<1> QED BY <1>1, <1>2, <1>3, <1>4 DEF Next, Call, Resume

\* Through every order of reads, writes, waits, wake-ups and closings, the
\* fields of the ring agree, nobody sleeps for a reason that is gone, and an
\* end is closed exactly when nothing refers to it.
THEOREM RingAndEnds == Spec => []PipeInv
<1>1. Init => IInv
  BY InitInv
<1>2. IInv /\ [Next]_vars => IInv'
  BY NextInv
<1>3. IInv => PipeInv
  BY DEF IInv
<1> QED BY <1>1, <1>2, <1>3, PTL DEF Spec

-----------------------------------------------------------------------------
(* The refinement of ByteChannel.                                          *)

\* The state of the channel.
Queue == IF freed THEN <<>> ELSE Contents
Closed == (IF reader_closed THEN {"read"} ELSE {}) \cup (IF writer_closed THEN {"write"} ELSE {})

\* The contents of the ring are as many bytes as it holds.
LEMMA ContentsType ==
  ASSUME IInv
  PROVE  /\ Contents \in Seq(Byte) /\ Len(Contents) = BUFF_SIZE - available_space
         /\ BUFF_SIZE - available_space \in 0 .. BUFF_SIZE
         /\ \A i \in 1 .. BUFF_SIZE - available_space :
              Contents[i] = buffer[(read_p + i - 1) % BUFF_SIZE]
<1>1. PICK n \in 0 .. BUFF_SIZE : n = BUFF_SIZE - available_space
  BY Before
<1>2. ASSUME NEW i \in 1 .. n
      PROVE  buffer[(read_p + i - 1) % BUFF_SIZE] \in Byte
  <2>1. (read_p + i - 1) % BUFF_SIZE \in Slots
    BY Before, SMTT(20) DEF Slots
  <2> QED BY <2>1, Before DEF TypeOK
<1>3. n \in Nat /\ Contents = [i \in 1 .. n |-> buffer[(read_p + i - 1) % BUFF_SIZE]]
  BY <1>1, Before DEF Contents
<1>4. Contents \in Seq(Byte) /\ Len(Contents) = n
  BY <1>2, <1>3
<1>5. \A i \in 1 .. n : Contents[i] = buffer[(read_p + i - 1) % BUFF_SIZE]
  BY <1>3
<1> QED BY <1>1, <1>4, <1>5

\* A Read returns the first bytes of them and leaves the others.
LEMMA ReadContents ==
  ASSUME IInv, ~ Empty, NEW n \in Nat, NEW c, c = Minimum(Limit(n), BUFF_SIZE - available_space),
         read_p' = Advanced(read_p, c), available_space' = available_space + c,
         UNCHANGED buffer, IInv'
  PROVE  /\ c \in 1 .. Len(Contents)
         /\ [i \in 1 .. c |-> buffer[(read_p + i - 1) % BUFF_SIZE]] = SubSeq(Contents, 1, c)
         /\ Contents' = SubSeq(Contents, c + 1, Len(Contents))
<1>1. PICK m \in Nat : m = BUFF_SIZE - available_space /\ m = Len(Contents)
  BY ContentsType
<1>2. c \in 1 .. m
  BY <1>1, ReadRing
<1>3. Contents \in Seq(Byte) /\ \A i \in 1 .. m : Contents[i] = buffer[(read_p + i - 1) % BUFF_SIZE]
  BY <1>1, ContentsType
<1>4. PICK p \in Seq(Byte) : p = Contents /\ Len(p) = m
  BY <1>1, <1>3
<1>5. /\ SubSeq(p, 1, c) \in Seq(Byte) /\ Len(SubSeq(p, 1, c)) = c
      /\ \A i \in 1 .. c : SubSeq(p, 1, c)[i] = p[i]
      /\ SubSeq(p, c + 1, m) \in Seq(Byte) /\ Len(SubSeq(p, c + 1, m)) = m - c
      /\ \A i \in 1 .. m - c : SubSeq(p, c + 1, m)[i] = p[c + i]
  <2>1. c \in 0 .. Len(p)
    BY <1>2, <1>4
  <2> QED BY <1>4, <2>1, Parts
<1>6. [i \in 1 .. c |-> buffer[(read_p + i - 1) % BUFF_SIZE]] = SubSeq(p, 1, c)
  <2>1. PICK f : f = [i \in 1 .. c |-> buffer[(read_p + i - 1) % BUFF_SIZE]]
    OBVIOUS
  <2>2. ASSUME NEW i \in 1 .. c
        PROVE  f[i] = SubSeq(p, 1, c)[i] /\ f[i] \in Byte
    <3>1. i \in 1 .. m
      BY <1>2
    <3>2. p[i] \in Byte /\ SubSeq(p, 1, c)[i] = p[i]
      BY <1>4, <1>5, <3>1
    <3>3. p[i] = buffer[(read_p + i - 1) % BUFF_SIZE]
      BY <1>3, <1>4, <3>1
    <3> QED BY <2>1, <3>2, <3>3
  <2>3. f \in Seq(Byte) /\ Len(f) = c
    BY <1>2, <2>1, <2>2
  <2>4. f = SubSeq(p, 1, c)
    BY <1>5, <2>2, <2>3, SeqEqual
  <2> QED BY <2>1, <2>4
<1>7. Contents' = SubSeq(p, c + 1, m)
  <2>1. PICK k \in Nat : k = m - c
    BY <1>2
  <2>2. BUFF_SIZE - (available_space + c) = k
    <3>1. available_space \in Int /\ BUFF_SIZE \in Int /\ c \in Int
      BY <1>2, Before
    <3> QED BY <1>1, <2>1, <3>1
  <2>3. PICK f : f = Contents'
    OBVIOUS
  <2>4. f = [i \in 1 .. k |-> buffer[(Advanced(read_p, c) + i - 1) % BUFF_SIZE]]
    BY <2>2, <2>3 DEF Contents
  <2>5. \A i \in 1 .. k : (Advanced(read_p, c) + i - 1) % BUFF_SIZE
                             = (read_p + (c + i) - 1) % BUFF_SIZE
    BY <2>2, ReadRing
  <2>6. ASSUME NEW i \in 1 .. k
        PROVE  f[i] = SubSeq(p, c + 1, m)[i] /\ f[i] \in Byte
    <3>1. c + i \in 1 .. m /\ i \in 1 .. m - c
      BY <1>2, <2>1
    <3>2. p[c + i] \in Byte /\ SubSeq(p, c + 1, m)[i] = p[c + i]
      BY <1>4, <1>5, <3>1
    <3>3. p[c + i] = buffer[(read_p + (c + i) - 1) % BUFF_SIZE]
      BY <1>3, <1>4, <3>1
    <3>4. f[i] = buffer[(read_p + (c + i) - 1) % BUFF_SIZE]
      BY <2>4, <2>5
    <3> QED BY <3>2, <3>3, <3>4
  <2>7. f \in Seq(Byte) /\ Len(f) = k
    BY <2>1, <2>4, <2>6
  <2>8. f = SubSeq(p, c + 1, m)
    BY <1>5, <2>1, <2>6, <2>7, SeqEqual
  <2> QED BY <2>3, <2>8
<1> QED BY <1>1, <1>2, <1>4, <1>6, <1>7

\* A Write appends the bytes it takes.
LEMMA WriteContents ==
  ASSUME IInv, ~ Full, NEW d \in Seq(Byte), Len(d) # 0, NEW c, c = Minimum(Len(d), available_space),
         buffer' = Written(d), available_space' = available_space - c, UNCHANGED read_p
  PROVE  /\ c \in 1 .. available_space /\ c \in 1 .. Len(d)
         /\ SubSeq(d, 1, c) \in Seq(Byte) /\ Len(SubSeq(d, 1, c)) = c
         /\ Contents' = Contents \o SubSeq(d, 1, c)
<1>1. PICK m \in Nat : m = BUFF_SIZE - available_space /\ m = Len(Contents)
  BY ContentsType
<1>2. /\ c \in 1 .. available_space /\ c \in 1 .. Len(d)
      /\ \A i \in 1 .. m : (((read_p + i - 1) % BUFF_SIZE) - write_p) % BUFF_SIZE >= c
      /\ \A i \in m + 1 .. m + c : (((read_p + i - 1) % BUFF_SIZE) - write_p) % BUFF_SIZE = i - 1 - m
  BY <1>1, WriteRing
<1>3. BUFF_SIZE - (available_space - c) = m + c
  BY <1>1, <1>2, Before
<1>4. Contents' = [i \in 1 .. m + c |-> Written(d)[(read_p + i - 1) % BUFF_SIZE]]
  BY <1>3 DEF Contents
<1>5. ASSUME NEW i \in 1 .. m + c
      PROVE  Written(d)[(read_p + i - 1) % BUFF_SIZE]
               = IF i <= m THEN Contents[i] ELSE d[i - m]
  <2>1. PICK s \in Slots : s = (read_p + i - 1) % BUFF_SIZE
    BY Before, SMTT(20) DEF Slots
  <2>2. PICK k \in Int : k = (s - write_p) % BUFF_SIZE
    BY <2>1, Before, SMTT(20) DEF Slots
  <2>3. Written(d)[s] = IF k < c THEN d[k + 1] ELSE buffer[s]
    BY <2>2 DEF Written
  <2>4. CASE i <= m
    <3>1. i \in 1 .. m
      BY <2>4
    <3>2. k >= c
      BY <1>2, <2>1, <2>2, <3>1
    <3>3. Contents[i] = buffer[s]
      BY <1>1, <2>1, <3>1, ContentsType
    <3>4. ~ (k < c)
      BY <1>2, <3>2
    <3> QED BY <2>1, <2>3, <2>4, <3>3, <3>4
  <2>5. CASE ~ (i <= m)
    <3>1. i \in m + 1 .. m + c
      BY <2>5, <1>2
    <3>2. k = i - 1 - m
      BY <1>2, <2>1, <2>2, <3>1
    <3>3. k < c /\ k + 1 = i - m
      BY <1>2, <3>1, <3>2
    <3> QED BY <2>1, <2>3, <2>5, <3>3
  <2> QED BY <2>4, <2>5
<1>6. SubSeq(d, 1, c) \in Seq(Byte) /\ Len(SubSeq(d, 1, c)) = c
      /\ \A i \in 1 .. c : SubSeq(d, 1, c)[i] = d[i]
  <2>1. c \in 0 .. Len(d)
    BY <1>2
  <2> QED BY <2>1, Parts
<1>7. PICK q \in Seq(Byte) : q = SubSeq(d, 1, c) /\ Len(q) = c /\ \A i \in 1 .. c : q[i] = d[i]
  BY <1>6
<1>8. PICK p \in Seq(Byte) : p = Contents /\ Len(p) = m
  BY <1>1, ContentsType
<1>9. /\ p \o q \in Seq(Byte) /\ Len(p \o q) = m + c
      /\ \A i \in 1 .. m + c : (p \o q)[i] = IF i <= m THEN p[i] ELSE q[i - m]
  BY <1>7, <1>8, ConcatProperties
<1>10. ASSUME NEW i \in 1 .. m + c
       PROVE  (p \o q)[i] = (IF i <= m THEN Contents[i] ELSE d[i - m])
  <2>1. ~ (i <= m) => i - m \in 1 .. c
    BY <1>2
  <2> QED BY <1>7, <1>8, <1>9, <2>1
<1>11. Contents' = p \o q
  <2>1. PICK f : f = Contents'
    OBVIOUS
  <2>2. \A i \in 1 .. m + c : f[i] = (p \o q)[i]
    BY <1>4, <1>5, <1>10, <2>1
  <2>3. m + c \in Nat /\ f = [i \in 1 .. m + c |-> Written(d)[(read_p + i - 1) % BUFF_SIZE]]
    BY <1>2, <1>4, <2>1
  <2>4. \A i \in 1 .. m + c : (p \o q)[i] \in Byte
    BY <1>9
  <2>5. f \in Seq(Byte) /\ Len(f) = m + c
    <3>1. PICK k \in Nat : k = m + c
      BY <2>3
    <3>2. /\ f = [i \in 1 .. k |-> Written(d)[(read_p + i - 1) % BUFF_SIZE]]
          /\ \A i \in 1 .. k : f[i] \in Byte
      BY <2>2, <2>3, <2>4, <3>1
    <3> QED BY <3>1, <3>2
  <2> QED BY <1>9, <2>1, <2>2, <2>5, SeqEqual
<1> QED BY <1>2, <1>6, <1>7, <1>8, <1>11

\* The ends of the channel.
LEMMA ClosedEnds ==
  ASSUME IInv
  PROVE  /\ ~ freed => /\ "read" \notin Closed
                       /\ Closed = IF writer_closed THEN {"write"} ELSE {}
         /\ freed => Closed = {"read", "write"}
         /\ writer_closed => "write" \in Closed
<1>1. /\ freed <=> reader_closed
      /\ reader_closed => writer_closed
  BY Before DEF CloseInv
<1> QED BY <1>1 DEF Closed

\* The same after a step.
LEMMA ClosedEndsNext ==
  ASSUME IInv'
  PROVE  /\ ~ freed' => Closed' = IF writer_closed' THEN {"write"} ELSE {}
         /\ freed' => Closed' = {"read", "write"}
<1>1. /\ freed' <=> reader_closed'
      /\ reader_closed' => writer_closed'
  BY DEF IInv, PipeInv, CloseInv
<1> QED BY <1>1 DEF Closed

\* What FCB_decref closes.
LEMMA DecrefCloses ==
  ASSUME IInv, NEW e \in Ends, NEW woken, FCB_decref(e, woken)
  PROVE  /\ e = "read" /\ ~ freed' => writer_closed' = writer_closed /\ ~ freed
         /\ e = "write" => freed' = freed
         /\ freed => freed'
         /\ writer_closed => writer_closed'
<1> DEFINE last == Refs(e)' = 0
           r == last /\ e = "read"
<1>1. /\ writer_closed' = (writer_closed \/ last)
      /\ freed' = (freed \/ r)
  BY DEF FCB_decref
<1>2. freed \in BOOLEAN /\ writer_closed \in BOOLEAN
  BY DEF IInv, PipeInv, TypeOK
<1>3. freed' \in BOOLEAN /\ writer_closed' \in BOOLEAN
  BY <1>1
<1>4. CASE e = "read"
  <2>1. ~ freed' => ~ last /\ ~ freed
    BY <1>1, <1>4
  <2> QED BY <1>1, <1>2, <1>3, <1>4, <2>1
<1>5. CASE e = "write"
  <2>1. freed' = freed
    BY <1>1, <1>2, <1>3, <1>5
  <2> QED BY <1>1, <1>5, <2>1
<1> QED BY <1>4, <1>5 DEF Ends

\* A step that touches neither the ring nor the ends is none of the channel.
LEMMA NoStep ==
  ASSUME UNCHANGED <<buffer, read_p, available_space, reader_closed, writer_closed, freed, out>>
  PROVE  UNCHANGED <<Queue, Closed, out>>
BY DEF Queue, Closed, Contents

\* A Read is one of the channel.
LEMMA ReadRefines ==
  ASSUME IInv, IInv', NEW t \in Threads, NEW n \in Nat, Read(t, n), Refs("read") # 0
  PROVE  Channel!Next \/ UNCHANGED <<Queue, Closed, out>>
<1>1. PICK c : c = Minimum(Limit(n), BUFF_SIZE - available_space)
  OBVIOUS
<1>2. ~ freed
  BY Before
<1>3. "read" \notin Closed /\ Closed = IF writer_closed THEN {"write"} ELSE {}
  BY <1>2, ClosedEnds
<1>4. Queue = Contents
  BY <1>2 DEF Queue
<1>5. ASSUME NEW woken, FCB_decref("read", woken)
      PROVE  \/ Queue' = Contents' /\ Closed' = Closed
             \/ Queue' = <<>> /\ Closed' = {"read", "write"}
  <2>1. ~ freed' => writer_closed' = writer_closed
    BY <1>5, DecrefCloses DEF Ends
  <2>2. CASE freed'
    BY <2>2, ClosedEndsNext DEF Queue
  <2>3. CASE ~ freed'
    BY <1>3, <2>1, <2>3, ClosedEndsNext DEF Queue
  <2> QED BY <2>2, <2>3
<1>6. CASE Wait(t, "read", "hasData")
  <2>1. UNCHANGED <<buffer, read_p, available_space, reader_closed, writer_closed, freed, out>>
    BY <1>6 DEF Wait, ring, closing
  <2> QED BY <2>1, NoStep
<1>7. CASE Empty /\ writer_closed /\ Return(t, "read", {}, <<"read", <<>>>>) /\ UNCHANGED ring
  <2>1. out' = <<"read", <<>>>> /\ FCB_decref("read", {})
    BY <1>7 DEF Return
  <2>2. Contents = <<>> /\ Contents' = <<>>
    <3>1. available_space = BUFF_SIZE /\ available_space' = available_space
      BY <1>7, Before DEF ring
    <3>2. BUFF_SIZE - available_space = 0 /\ BUFF_SIZE - available_space' = 0
      BY <3>1, PipeAssumption
    <3> QED BY <3>2 DEF Contents
  <2>3. "write" \in Closed /\ Queue = <<>>
    BY <1>4, <1>7, <2>2, ClosedEnds
  <2>4. \/ Queue' = <<>> /\ Closed' = Closed
        \/ Queue' = <<>> /\ Closed' = {"read", "write"}
    BY <1>5, <2>1, <2>2
  <2>5. Channel!EndOfFile
    BY <1>3, <2>1, <2>3, <2>4 DEF Channel!EndOfFile, Channel!Leave, Queue, Closed
  <2> QED BY <2>5 DEF Channel!Next
<1>8. CASE /\ ~ Empty
           /\ Return(t, "read", ReadWakes,
                     <<"read", [i \in 1 .. c |-> buffer[(read_p + i - 1) % BUFF_SIZE]]>>)
           /\ read_p' = Advanced(read_p, c) /\ available_space' = available_space + c
           /\ UNCHANGED <<buffer, write_p>>
  <2>1. /\ c \in 1 .. Len(Contents)
        /\ [i \in 1 .. c |-> buffer[(read_p + i - 1) % BUFF_SIZE]] = SubSeq(Contents, 1, c)
        /\ Contents' = SubSeq(Contents, c + 1, Len(Contents))
    BY <1>1, <1>8, ReadContents
  <2>2. out' = <<"read", SubSeq(Queue, 1, c)>> /\ FCB_decref("read", ReadWakes)
    BY <1>4, <1>8, <2>1 DEF Return
  <2>3. c \in 1 .. Len(Queue) /\ c \in 1 .. BUFF_SIZE
    <3>1. Len(Contents) \in 0 .. BUFF_SIZE
      BY ContentsType
    <3> QED BY <1>4, <2>1, <3>1, PipeAssumption
  <2>4. \/ Queue' = SubSeq(Queue, c + 1, Len(Queue)) /\ Closed' = Closed
        \/ Queue' = <<>> /\ Closed' = {"read", "write"}
    BY <1>4, <1>5, <2>1, <2>2
  <2>5. Channel!Read(c)
    BY <1>3, <2>2, <2>3, <2>4 DEF Channel!Read, Channel!Leave, Queue, Closed
  <2> QED BY <2>3, <2>5 DEF Channel!Next
<1> QED BY <1>1, <1>6, <1>7, <1>8 DEF Read

\* So is a Write.
LEMMA WriteRefines ==
  ASSUME IInv, IInv', NEW t \in Threads, NEW d \in Seq(Byte), Len(d) # 0, Write(t, d),
         Refs("write") # 0
  PROVE  Channel!Next \/ UNCHANGED <<Queue, Closed, out>>
<1>1. PICK c : c = Minimum(Len(d), available_space)
  OBVIOUS
<1>2. ASSUME NEW woken, FCB_decref("write", woken)
      PROVE  /\ freed' = freed
             /\ freed => UNCHANGED <<Queue, Closed>> /\ "read" \in Closed
             /\ ~ freed => Closed' \in {{}, {"write"}} /\ Queue' = Contents'
  <2>1. freed' = freed
    BY <1>2, DecrefCloses DEF Ends
  <2>2. CASE freed
    BY <2>1, <2>2, ClosedEnds, ClosedEndsNext DEF Queue
  <2>3. CASE ~ freed
    BY <2>1, <2>3, ClosedEndsNext DEF Queue
  <2> QED BY <2>1, <2>2, <2>3
<1>3. ASSUME NEW m \in Nat \ {0}, NEW woken, Return(t, "write", woken, <<"wrote", m>>), freed
      PROVE  Channel!WriteToNobody
  <2>1. out' = <<"wrote", m>> /\ UNCHANGED <<Queue, Closed>> /\ "read" \in Closed
    BY <1>2, <1>3 DEF Return
  <2>2. out' \in {"wrote"} \X (Nat \ {0})
    BY <2>1
  <2> QED BY <2>1, <2>2 DEF Channel!WriteToNobody, Queue, Closed
<1>4. CASE Wait(t, "write", "hasSpace")
  <2>1. UNCHANGED <<buffer, read_p, available_space, reader_closed, writer_closed, freed, out>>
    BY <1>4 DEF Wait, ring, closing
  <2> QED BY <2>1, NoStep
<1>5. CASE /\ ~ Full /\ ~ Garbage /\ Return(t, "write", {"hasData"}, <<"wrote", c>>)
           /\ buffer' = Written(d) /\ write_p' = Advanced(write_p, c)
           /\ available_space' = available_space - c /\ UNCHANGED read_p
  <2>1. /\ c \in 1 .. available_space /\ c \in 1 .. Len(d)
        /\ SubSeq(d, 1, c) \in Seq(Byte) /\ Len(SubSeq(d, 1, c)) = c
        /\ Contents' = Contents \o SubSeq(d, 1, c)
    BY <1>1, <1>5, WriteContents
  <2>2. c \in Nat \ {0}
    BY <2>1
  <2>3. CASE freed
    BY <1>3, <1>5, <2>2, <2>3 DEF Channel!Next
  <2>4. CASE ~ freed
    <3>1. PICK q \in Seq(Byte) : q = SubSeq(d, 1, c) /\ Len(q) = c
      BY <2>1
    <3>2. Closed = {} /\ Queue = Contents
      BY <2>4, Before, ClosedEnds DEF Queue
    <3>3. out' = <<"wrote", Len(q)>> /\ Closed' \in {{}, {"write"}} /\ Queue' = Queue \o q
      BY <1>2, <1>5, <2>1, <2>4, <3>1, <3>2 DEF Return
    <3>4. Len(Queue) + Len(q) <= BUFF_SIZE /\ c \in 0 .. BUFF_SIZE
      <4>1. /\ Len(Contents) = BUFF_SIZE - available_space /\ BUFF_SIZE \in Nat
            /\ available_space \in 0 .. BUFF_SIZE
        BY ContentsType, Before
      <4> QED BY <2>1, <3>1, <3>2, <4>1
    <3>5. Channel!Write(q)
      BY <3>2, <3>3, <3>4 DEF Channel!Write, Queue, Closed
    <3>6. q \in Channel!BytesUpTo(BUFF_SIZE) \ {<<>>}
      <4>1. q \in [1 .. c -> Byte]
        <5>1. DOMAIN q = 1 .. c /\ \A i \in 1 .. c : q[i] \in Byte
          BY <2>2, <3>1
        <5>2. q = [i \in 1 .. c |-> q[i]]
          BY <3>1, <5>1
        <5> QED BY <5>1, <5>2
      <4>2. q # <<>>
        <5>1. Len(q) # 0 /\ Len(<<>>) = 0
          BY <2>2, <3>1
        <5> QED BY <5>1, Zenon
      <4> QED BY <3>4, <4>1, <4>2 DEF Channel!BytesUpTo
    <3> QED BY <3>5, <3>6 DEF Channel!Next
  <2> QED BY <2>3, <2>4
<1>6. CASE /\ Garbage /\ UNCHANGED ring
           /\ \E n \in 1 .. Len(d) : Return(t, "write", {}, <<"wrote", n>>)
  <2>1. PICK n \in 1 .. Len(d) : Return(t, "write", {}, <<"wrote", n>>)
    BY <1>6
  <2>2. n \in Nat \ {0}
    OBVIOUS
  <2> QED BY <1>3, <1>6, <2>1, <2>2 DEF Channel!Next, Garbage
<1> QED BY <1>1, <1>4, <1>5, <1>6 DEF Write, Written

\* A Write with the read end closed.
LEMMA WriteErrorRefines ==
  ASSUME IInv, IInv', NEW t \in Threads, reader_closed,
         Return(t, "write", {}, <<"error", -1>>), UNCHANGED ring
  PROVE  Channel!WriteToNobody
<1>1. freed /\ freed' = freed /\ out' = <<"error", -1>>
  BY Before, DecrefCloses DEF Return, Ends
<1>2. UNCHANGED <<Queue, Closed>> /\ "read" \in Closed
  BY <1>1, ClosedEnds, ClosedEndsNext DEF Queue
<1> QED BY <1>1, <1>2 DEF Channel!WriteToNobody, Queue, Closed

\* Dropping a descriptor may close an end.
LEMMA DropFidRefines ==
  ASSUME IInv, IInv', NEW e \in Ends, DropFid(e)
  PROVE  Channel!Next \/ UNCHANGED <<Queue, Closed, out>>
<1>1. UNCHANGED <<buffer, read_p, available_space, out>> /\ FCB_decref(e, {})
  BY DEF DropFid, ring
<1>2. Contents' = Contents
  BY <1>1 DEF Contents
<1>3. freed => freed'
  BY <1>1, DecrefCloses
<1>4. CASE freed'
  <2>1. Queue' = <<>> /\ Closed' = {"read", "write"}
    BY <1>4, ClosedEndsNext DEF Queue
  <2>2. Channel!Close
    BY <1>1, <2>1 DEF Channel!Close, Queue, Closed
  <2> QED BY <2>2 DEF Channel!Next
<1>5. CASE ~ freed'
  <2>1. Queue' = Queue /\ Closed' = IF writer_closed' THEN {"write"} ELSE {}
    BY <1>2, <1>3, <1>5, ClosedEndsNext DEF Queue
  <2>2. Closed = IF writer_closed THEN {"write"} ELSE {}
    BY <1>3, <1>5, ClosedEnds
  <2>3. CASE writer_closed' = writer_closed
    BY <1>1, <2>1, <2>2, <2>3
  <2>4. CASE writer_closed'
    <3>1. Closed' = Closed \cup {"write"}
      BY <2>1, <2>2, <2>4
    <3>2. Channel!Close
      BY <1>1, <2>1, <3>1 DEF Channel!Close, Queue, Closed
    <3> QED BY <3>2 DEF Channel!Next
  <2>5. writer_closed => writer_closed'
    BY <1>1, DecrefCloses
  <2>6. writer_closed \in BOOLEAN /\ writer_closed' \in BOOLEAN
    BY DEF IInv, PipeInv, TypeOK
  <2> QED BY <2>3, <2>4, <2>5, <2>6
<1> QED BY <1>4, <1>5

\* Every step is one of the channel, or none.
LEMMA NextRefines ==
  ASSUME IInv, IInv', [Next]_vars
  PROVE  Channel!Next \/ UNCHANGED <<Queue, Closed, out>>
<1>1. ASSUME NEW t \in Threads, (\E n \in ReadSizes : sys_Read(t, n)) \/ ResumeRead(t)
      PROVE  Channel!Next \/ UNCHANGED <<Queue, Closed, out>>
  BY <1>1, Reads, ReadRefines
<1>2. ASSUME NEW t \in Threads, (\E n \in WriteSizes : sys_Write(t, n)) \/ ResumeWrite(t)
      PROVE  Channel!Next \/ UNCHANGED <<Queue, Closed, out>>
  <2>1. /\ Refs("write") # 0
        /\ \/ /\ reader_closed /\ Return(t, "write", {}, <<"error", -1>>)
              /\ UNCHANGED ring
           \/ \E d \in Seq(Byte) : Len(d) # 0 /\ Write(t, d)
    BY <1>2, Writes
  <2>2. Channel!WriteToNobody => Channel!Next
    BY DEF Channel!Next
  <2> QED BY <2>1, <2>2, WriteErrorRefines, WriteRefines
<1>3. ASSUME NEW e \in Ends, AddFid(e)
      PROVE  UNCHANGED <<Queue, Closed, out>>
  BY <1>3, NoStep DEF AddFid, ring, closing
<1>4. ASSUME NEW e \in Ends, DropFid(e)
      PROVE  Channel!Next \/ UNCHANGED <<Queue, Closed, out>>
  BY <1>4, DropFidRefines
<1>5. CASE UNCHANGED vars
  BY <1>5, NoStep DEF vars, ring, closing
<1> QED BY <1>1, <1>2, <1>3, <1>4, <1>5 DEF Next, Call, Resume

\* The pipe implements a bounded channel of bytes, for any ring: bytes come out
\* once each in the order in which they went in, and the end of file comes only
\* when everything has been read.
THEOREM Refines == Spec => ImplementsByteChannel
<1>1. Init => Channel!Init
  <2>1. SUFFICES ASSUME Init
                 PROVE  Channel!Init
    OBVIOUS
  <2>2. IInv
    BY <2>1, InitInv
  <2>3. ~ freed /\ ~ reader_closed /\ ~ writer_closed /\ available_space = BUFF_SIZE
        /\ out = <<"error", -1>>
    BY <2>1 DEF Init
  <2>4. BUFF_SIZE - available_space = 0
    BY <2>3, PipeAssumption
  <2>5. Contents = <<>>
    BY <2>4 DEF Contents
  <2> QED BY <2>3, <2>5 DEF Channel!Init
<1>2. Init => IInv
  BY InitInv
<1>3. IInv /\ [Next]_vars => IInv'
  BY NextInv
<1>4. IInv /\ IInv' /\ [Next]_vars => [Channel!Next]_(Channel!vars)
  BY NextRefines DEF Channel!vars, Queue, Closed
<1> QED BY <1>1, <1>2, <1>3, <1>4, PTL DEF Spec, ImplementsByteChannel, Channel!Spec
=============================================================================
