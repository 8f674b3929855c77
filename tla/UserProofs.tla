----------------------------- MODULE UserProofs -----------------------------
(***************************************************************************)
(* What user programs see: the sockets they connect through, and the       *)
(* programs themselves.                                                    *)
(***************************************************************************)
EXTENDS Socket, Programs, ListLemmas
-----------------------------------------------------------------------------
(* Sockets: the inductive invariant.                                       *)

Made == 1 .. Len(scb)
ScbType == [type : {"UNBOUND", "LISTENER", "PEER"}, port : Ports \cup {NULL},
            refcount : {0, 1}, fid : Fid, peer : Scbs \cup {NULL},
            send : Pipes \cup {NULL}, receive : Pipes \cup {NULL}]
Request == [sock : Scbs, thr : Threads \cup {NULL}]

\* Whatever is named has been made; descriptors and calls name open sockets.
MadeInv ==
  /\ Len(scb) <= M
  /\ freed \subseteq Made
  /\ \A f \in Fid : FIDT[f] # NULL => FIDT[f] \in Made \ freed
  /\ \A t \in Threads : using[t] # NULL => using[t] \in Made \ freed
  /\ \A p \in Ports : PortMap[p] # NULL => PortMap[p] \in Made
  /\ \A l \in Scbs : \A i \in DOMAIN queue[l] : queue[l][i].sock \in Made
  /\ \A t \in Threads :
       /\ pc[t] = "accept" => on[t] \in Made
       /\ pc[t] \in {"read", "write"} => /\ using[t] \in Made /\ scb[using[t]].type = "PEER"
                                         /\ on[t] \in 2 .. 2 * Len(scb) + 1

\* What the kind of a socket says of its fields.
KindInv ==
  \A s \in Made :
    /\ scb[s].refcount = 0 => scb[s].type = "UNBOUND"
    /\ scb[s].type = "LISTENER" => scb[s].port # NULL
    /\ scb[s].type # "PEER" => scb[s].send = NULL /\ scb[s].receive = NULL

\* The port map (ListenInv).
PortInv ==
  /\ \A s \in Made : Listening(s) => PortMap[scb[s].port] = s
  /\ \A p \in Ports : PortMap[p] # NULL =>
       /\ scb[PortMap[p]].port = p
       /\ Listening(PortMap[p]) \/ scb[PortMap[p]].type = "PEER"

\* The acceptors of a listener (ListenInv).
Awake(l) == {u \in Threads : pc[u] = "accept" /\ on[u] = l /\ wake[u] # "no"}

AcceptInv ==
  \A t \in Threads : pc[t] = "accept" /\ wake[t] = "no" /\ scb[on[t]].type # "PEER" =>
       Listening(on[t]) /\ Len(queue[on[t]]) <= Cardinality(Awake(on[t]))

\* A server socket is younger than its client, and its pipes bear its name; a
\* client knows the server that Accept made for it last.  Who is in a queue is
\* a client if it is a peer at all.
Client(s) == scb[s].type = "PEER" => s < scb[s].peer

LinkInv ==
  /\ \A s \in Made : scb[s].type = "PEER" =>
       /\ scb[s].peer \in Made /\ scb[s].peer # s /\ scb[scb[s].peer].type = "PEER"
       /\ scb[s].peer < s => /\ scb[s].send \in {Out(s), NULL}
                             /\ scb[s].receive \in {In(s), NULL}
                             /\ scb[s].peer < scb[scb[s].peer].peer
       /\ s < scb[s].peer => /\ scb[s].send \in {In(scb[s].peer), NULL}
                             /\ scb[s].receive \in {Out(scb[s].peer), NULL}
                             /\ scb[scb[s].peer].peer = s
  /\ \A l \in Scbs : \A i \in DOMAIN queue[l] : Client(queue[l][i].sock)

\* Nobody has an end of a pipe that is freed; the pipes to come are new.
EndsInv ==
  /\ \A s \in Made : /\ scb[s].send # NULL => ~ pipe[scb[s].send].freed
                     /\ scb[s].receive # NULL => ~ pipe[scb[s].receive].freed
  /\ \A p \in Pipes : p > 2 * Len(scb) + 1 => pipe[p] = get_pipe

\* Nobody in T sleeps who could go on (PipesInv), given the pipes and what woke
\* whom.
Idle(ps, w, T) ==
  \A t \in T : w[t] = "no" =>
    /\ pc[t] = "read" => ps[on[t]].data = 0 /\ ~ ps[on[t]].writer_closed
    /\ pc[t] = "write" => ps[on[t]].data = BUFF_SIZE /\ ~ ps[on[t]].freed

SleepInv == Idle(pipe, wake, Threads)

SocketIInv ==
  TypeOK /\ MadeInv /\ KindInv /\ PortInv /\ AcceptInv /\ LinkInv /\ EndsInv /\ SleepInv

-----------------------------------------------------------------------------
(* Sockets: facts about the data.                                          *)

PipeType == [data : 0 .. BUFF_SIZE, writer_closed : BOOLEAN, freed : BOOLEAN]

\* The SCBs are an array.
LEMMA ScbSeq ==
  ASSUME NEW n \in Nat, NEW g, g = [i \in 1 .. n |-> g[i]], \A i \in 1 .. n : g[i] \in ScbType
  PROVE  g \in Seq(ScbType) /\ Len(g) = n
<1>1. g \in [1 .. n -> ScbType]
  OBVIOUS
<1> QED BY <1>1

\* What the types give to every step.
LEMMA SocketTypes ==
  ASSUME TypeOK, MadeInv
  PROVE  /\ {M, Fids, BUFF_SIZE, MaxReqs} \subseteq Nat \ {0} /\ Ports \subseteq Nat \ {0}
         /\ NULL \notin Ports /\ NULL \notin Threads /\ NULL \notin Made
         /\ scb \in Seq(ScbType) /\ Len(scb) \in Nat /\ scb = [i \in Made |-> scb[i]]
         /\ \A s \in Made : scb[s] \in ScbType
         /\ Made \subseteq Scbs
         /\ \A p : p \in 2 .. 2 * Len(scb) + 1 => p \in Pipes
<1>1. {M, Fids, BUFF_SIZE, MaxReqs} \subseteq Nat \ {0} /\ Ports \subseteq Nat \ {0} /\ NULL \notin Threads
  BY SocketAssumption DEF NULL
<1>2. scb \in Seq(ScbType)
  BY DEF TypeOK, ScbType
<1>3. /\ Len(scb) \in Nat /\ scb = [i \in Made |-> scb[i]] /\ NULL \notin Made
      /\ \A s \in Made : scb[s] \in ScbType
  BY <1>2 DEF Made, NULL
<1>4. Len(scb) <= M /\ M \in Nat
  BY <1>1 DEF MadeInv
<1>5. Made \subseteq Scbs
  BY <1>3, <1>4 DEF Made, Scbs
<1>6. ASSUME NEW p \in 2 .. 2 * Len(scb) + 1 PROVE p \in Pipes
  BY <1>3, <1>4 DEF Pipes
<1> QED BY <1>1, <1>2, <1>3, <1>5, <1>6 DEF NULL

\* A free descriptor is found when there is one.
LEMMA LowestFree ==
  ASSUME FreeFids # {}
  PROVE  Lowest \in Fid /\ FIDT[Lowest] = NULL
<1>1. FreeFids \in SUBSET Nat
  BY DEF FreeFids, Fid
<1>2. \E f \in FreeFids : \A g \in FreeFids : f <= g
  BY <1>1, LeastNat
<1>3. Lowest \in FreeFids
  BY <1>2 DEF Lowest
<1> QED BY <1>3 DEF FreeFids

\* g is k in which some sockets have given up an end, or count as used.
Lesser(g, k) ==
  /\ g \in Seq(ScbType) /\ Len(g) = Len(k)
  /\ \A r \in 1 .. Len(k) :
       /\ g[r].type = k[r].type /\ g[r].port = k[r].port /\ g[r].refcount \in {k[r].refcount, 1}
       /\ g[r].fid = k[r].fid /\ g[r].peer = k[r].peer
       /\ g[r].send \in {k[r].send, NULL} /\ g[r].receive \in {k[r].receive, NULL}

LEMMA LesserTrans ==
  ASSUME NEW a, NEW b, NEW c, Lesser(a, b), Lesser(b, c)
  PROVE  Lesser(a, c)
BY DEF Lesser

LEMMA LesserSelf ==
  ASSUME NEW k \in Seq(ScbType)
  PROVE  Lesser(k, k)
BY DEF Lesser

\* One end is given up.
LEMMA LoseEnd ==
  ASSUME NEW k \in Seq(ScbType), NEW s \in 1 .. Len(k)
  PROVE  /\ Lesser([k EXCEPT ![s].receive = NULL], k)
         /\ [k EXCEPT ![s].receive = NULL][s].receive = NULL
         /\ Lesser([k EXCEPT ![s].send = NULL], k)
         /\ [k EXCEPT ![s].send = NULL][s].send = NULL
<1> DEFINE n == Len(k)
<1>1. n \in Nat /\ k = [i \in 1 .. n |-> k[i]] /\ \A i \in 1 .. n : k[i] \in ScbType
  OBVIOUS
<1>2. ASSUME NEW e \in ScbType, NEW g, g = [k EXCEPT ![s] = e],
             e = [k[s] EXCEPT !.receive = NULL] \/ e = [k[s] EXCEPT !.send = NULL]
      PROVE  Lesser(g, k) /\ g[s] = e
  <2>1. g = [i \in 1 .. n |-> g[i]] /\ \A i \in 1 .. n : g[i] \in ScbType /\ g[i] = IF i = s THEN e ELSE k[i]
    BY <1>1, <1>2
  <2>2. g \in Seq(ScbType) /\ Len(g) = n
    BY <2>1, <1>1, ScbSeq
  <2>3. /\ e.type = k[s].type /\ e.port = k[s].port /\ e.refcount = k[s].refcount
        /\ e.fid = k[s].fid /\ e.peer = k[s].peer
        /\ e.send \in {k[s].send, NULL} /\ e.receive \in {k[s].receive, NULL}
    BY <1>1, <1>2 DEF ScbType
  <2> QED BY <2>1, <2>2, <2>3 DEF Lesser
<1>3. [k[s] EXCEPT !.receive = NULL] \in ScbType /\ [k[s] EXCEPT !.send = NULL] \in ScbType
  BY <1>1 DEF ScbType
<1>4. /\ [k[s] EXCEPT !.receive = NULL].receive = NULL
      /\ [k[s] EXCEPT !.send = NULL].send = NULL
  BY <1>1 DEF ScbType
<1>5. /\ [k EXCEPT ![s].receive = NULL] = [k EXCEPT ![s] = [k[s] EXCEPT !.receive = NULL]]
      /\ [k EXCEPT ![s].send = NULL] = [k EXCEPT ![s] = [k[s] EXCEPT !.send = NULL]]
  OBVIOUS
<1> QED BY <1>2, <1>3, <1>4, <1>5

\* What one socket sends, only its peer receives; nobody receives the same.
LEMMA Crossed ==
  ASSUME TypeOK, MadeInv, KindInv, LinkInv, NEW s \in Made, scb[s].receive # NULL, NEW r \in Made
  PROVE  /\ scb[r].send = scb[s].receive => r = scb[s].peer
         /\ scb[r].receive = scb[s].receive => r = s
<1>1. Len(scb) \in Nat /\ scb[s] \in ScbType /\ scb[r] \in ScbType
  BY SocketTypes
<1>2. scb[s].type = "PEER" /\ scb[s].peer \in Made /\ scb[s].peer # s
  BY DEF KindInv, LinkInv
<1>3. ASSUME scb[r].send = scb[s].receive \/ scb[r].receive = scb[s].receive
      PROVE  scb[r].type = "PEER" /\ scb[r].peer \in Made /\ scb[r].peer # r
  BY <1>3 DEF KindInv, LinkInv
<1>4. ASSUME NEW x \in Nat, NEW y \in Nat
      PROVE  /\ In(x) # Out(y) /\ (In(x) = In(y) => x = y) /\ (Out(x) = Out(y) => x = y)
  BY DEF In, Out
<1>5. s \in Nat /\ r \in Nat /\ scb[s].peer \in Nat /\ (scb[r].peer \in Made => scb[r].peer \in Nat)
  BY <1>1, <1>2 DEF Made
<1>6. CASE scb[s].peer < s
  <2>1. scb[s].receive = In(s)
    BY <1>2, <1>6 DEF LinkInv
  <2>2. ASSUME scb[r].send = scb[s].receive PROVE r = scb[s].peer
    <3>1. CASE scb[r].peer < r
      BY <1>3, <1>4, <1>5, <2>1, <2>2, <3>1 DEF LinkInv
    <3>2. CASE r < scb[r].peer
      <4>1. scb[r].peer = s
        BY <1>3, <1>4, <1>5, <2>1, <2>2, <3>2 DEF LinkInv
      <4> QED BY <1>3, <2>2, <3>2, <4>1 DEF LinkInv
    <3> QED BY <1>3, <1>5, <2>2, <3>1, <3>2
  <2>3. ASSUME scb[r].receive = scb[s].receive PROVE r = s
    <3>1. CASE scb[r].peer < r
      BY <1>3, <1>4, <1>5, <2>1, <2>3, <3>1 DEF LinkInv
    <3>2. CASE r < scb[r].peer
      BY <1>3, <1>4, <1>5, <2>1, <2>3, <3>2 DEF LinkInv
    <3> QED BY <1>3, <1>5, <2>3, <3>1, <3>2
  <2> QED BY <2>2, <2>3
<1>7. CASE s < scb[s].peer
  <2>1. scb[s].receive = Out(scb[s].peer) /\ scb[scb[s].peer].peer = s
    BY <1>2, <1>7 DEF LinkInv
  <2>2. ASSUME scb[r].send = scb[s].receive PROVE r = scb[s].peer
    <3>1. CASE scb[r].peer < r
      BY <1>3, <1>4, <1>5, <2>1, <2>2, <3>1 DEF LinkInv
    <3>2. CASE r < scb[r].peer
      BY <1>3, <1>4, <1>5, <2>1, <2>2, <3>2 DEF LinkInv
    <3> QED BY <1>3, <1>5, <2>2, <3>1, <3>2
  <2>3. ASSUME scb[r].receive = scb[s].receive PROVE r = s
    <3>1. CASE scb[r].peer < r
      BY <1>3, <1>4, <1>5, <2>1, <2>3, <3>1 DEF LinkInv
    <3>2. CASE r < scb[r].peer
      <4>1. scb[r].receive = Out(scb[r].peer) /\ scb[scb[r].peer].peer = r
        BY <1>3, <2>3, <3>2 DEF LinkInv
      <4>2. scb[r].peer = scb[s].peer
        BY <4>1, <2>1, <2>3, <1>3, <1>4, <1>5
      <4> QED BY <4>1, <4>2, <2>1
    <3> QED BY <1>3, <1>5, <2>3, <3>1, <3>2
  <2> QED BY <2>2, <2>3
<1> QED BY <1>2, <1>5, <1>6, <1>7

-----------------------------------------------------------------------------
(* Sockets: what a step leaves as it is.                                   *)

\* The other threads stay where they are, or are woken there.
Others(t) ==
  \A u \in Threads : u # t => /\ pc'[u] = pc[u] /\ on'[u] = on[u]
                              /\ wake[u] # "no" => wake'[u] # "no"

LEMMA SleepFrame ==
  ASSUME SleepInv, NEW t \in Threads, pc'[t] \notin {"read", "write"}, Others(t), UNCHANGED pipe
  PROVE  SleepInv'
BY DEF SleepInv, Idle, Others

LEMMA AcceptFrame ==
  ASSUME SocketIInv, NEW t \in Threads, pc[t] # "accept", pc'[t] # "accept", Others(t),
         \A u \in Threads : pc[u] = "accept" /\ wake[u] = "no" /\ wake'[u] = "no" /\ scb'[on[u]].type # "PEER"
           => /\ scb[on[u]].type # "PEER"
              /\ Listening(on[u]) => scb'[on[u]].type = "LISTENER" /\ on[u] \notin freed'
              /\ Len(queue'[on[u]]) <= Len(queue[on[u]]) /\ Len(queue'[on[u]]) \in Nat
  PROVE  AcceptInv'
<1> SUFFICES ASSUME NEW u \in Threads, pc'[u] = "accept", wake'[u] = "no",
                    scb'[on'[u]].type # "PEER"
             PROVE  (Listening(on[u]) /\ Len(queue[on[u]]) <= Cardinality(Awake(on[u])))'
  BY DEF AcceptInv
<1>1. u # t /\ on'[u] = on[u] /\ pc[u] = "accept" /\ wake[u] = "no"
  BY DEF Others
<1>2. scb[on[u]].type # "PEER" /\ scb'[on[u]].type = "LISTENER" /\ on[u] \notin freed'
      /\ Len(queue'[on[u]]) <= Len(queue[on[u]]) /\ Len(queue'[on[u]]) \in Nat
      /\ Len(queue[on[u]]) <= Cardinality(Awake(on[u]))
  BY <1>1 DEF SocketIInv, AcceptInv
<1>3. Len(queue[on[u]]) \in Nat
  <2>1. on[u] \in Scbs
    BY <1>1, SocketTypes DEF SocketIInv, MadeInv
  <2> QED BY <2>1 DEF SocketIInv, TypeOK
<1>4. Awake(on[u]) \subseteq Awake(on[u])'
  BY <1>1 DEF Awake, Others
<1>5. /\ Cardinality(Awake(on[u])) <= Cardinality(Awake(on[u])')
      /\ Cardinality(Awake(on[u])) \in Nat /\ Cardinality(Awake(on[u])') \in Nat
  <2>1. IsFiniteSet(Awake(on[u])')
    <3>1. Awake(on[u])' \subseteq Threads
      BY DEF Awake
    <3> QED BY <3>1, SocketAssumption, FS_Subset
  <2> QED BY <1>4, <2>1, FS_Subset, FS_CardinalityType
<1> QED BY <1>1, <1>2, <1>3, <1>5 DEF Listening

\* The SCBs keep what matters, and the requests are of the same sockets.
LEMMA LesserKept ==
  ASSUME SocketIInv, Lesser(scb', scb),
         \A l \in Scbs : \A i \in DOMAIN queue'[l] :
           \E j \in DOMAIN queue[l] : queue'[l][i].sock = queue[l][j].sock
  PROVE  Made' = Made /\ KindInv' /\ LinkInv'
<1>1. Made' = Made
  BY DEF Lesser, Made
<1>2. \A s \in Made : /\ scb'[s].type = scb[s].type /\ scb'[s].port = scb[s].port
                      /\ scb'[s].refcount \in {scb[s].refcount, 1} /\ scb'[s].peer = scb[s].peer
                      /\ scb'[s].send \in {scb[s].send, NULL}
                      /\ scb'[s].receive \in {scb[s].receive, NULL}
  BY DEF Lesser, Made
<1>3. KindInv'
  BY <1>1, <1>2 DEF SocketIInv, KindInv
<1>4. \A s \in Made : scb'[s].type = "PEER" =>
        /\ scb'[s].peer \in Made /\ scb'[s].peer # s /\ scb'[scb'[s].peer].type = "PEER"
        /\ scb'[s].peer < s => /\ scb'[s].send \in {Out(s), NULL}
                               /\ scb'[s].receive \in {In(s), NULL}
                               /\ scb'[s].peer < scb'[scb'[s].peer].peer
        /\ s < scb'[s].peer => /\ scb'[s].send \in {In(scb'[s].peer), NULL}
                               /\ scb'[s].receive \in {Out(scb'[s].peer), NULL}
                               /\ scb'[scb'[s].peer].peer = s
  BY <1>2 DEF SocketIInv, LinkInv
<1>5. ASSUME NEW l \in Scbs, NEW i \in DOMAIN queue'[l]
      PROVE  Client(queue[l][i].sock)'
  <2>1. PICK j \in DOMAIN queue[l] : queue'[l][i].sock = queue[l][j].sock
    OBVIOUS
  <2>2. queue[l][j].sock \in Made /\ Client(queue[l][j].sock)
    BY DEF SocketIInv, LinkInv, MadeInv
  <2>3. queue'[l][i].sock \in Made /\ Client(queue'[l][i].sock)
    BY <2>1, <2>2
  <2> QED BY <1>2, <2>3 DEF Client
<1> QED BY <1>1, <1>3, <1>4, <1>5 DEF LinkInv

\* A socket that nothing in the port map or in Accept needs may be freed.
LEMMA FreeKept ==
  ASSUME SocketIInv, Lesser(scb', scb), UNCHANGED PortMap,
         \A s \in Made : s \in freed' /\ s \notin freed => scb[s].type # "LISTENER",
         freed \subseteq freed'
  PROVE  PortInv'
<1>1. Made' = Made /\ \A r \in Made : scb'[r].type = scb[r].type /\ scb'[r].port = scb[r].port
  BY DEF Lesser, Made
<1>2. \A r \in Made : Listening(r)' <=> Listening(r)
  <2> SUFFICES ASSUME NEW r \in Made PROVE Listening(r)' <=> Listening(r)
    OBVIOUS
  <2> QED BY <1>1 DEF Listening
<1>3. \A p \in Ports : PortMap[p] # NULL => PortMap[p] \in Made
  BY DEF SocketIInv, MadeInv
<1>4. ASSUME NEW p \in Ports, PortMap'[p] # NULL
      PROVE  /\ scb'[PortMap'[p]].port = p
             /\ Listening(PortMap[p])' \/ scb'[PortMap'[p]].type = "PEER"
  <2>1. PortMap[p] \in Made /\ PortMap'[p] = PortMap[p] /\ PortMap[p] # NULL
    BY <1>3, <1>4
  <2>2. scb[PortMap[p]].port = p /\ (Listening(PortMap[p]) \/ scb[PortMap[p]].type = "PEER")
    BY <2>1 DEF SocketIInv, PortInv
  <2> QED BY <1>1, <1>2, <2>1, <2>2
<1>5. ASSUME NEW r \in Made', Listening(r)'
      PROVE  PortMap'[scb'[r].port] = r
  BY <1>1, <1>2, <1>5 DEF SocketIInv, PortInv
<1> QED BY <1>4, <1>5 DEF PortInv

\* Who sleeps in Accept, and where.
LEMMA AcceptorAt ==
  ASSUME SocketIInv, NEW u \in Threads, pc[u] = "accept"
  PROVE  /\ on[u] \in Made /\ on[u] \in Scbs
         /\ queue[on[u]] \in Seq(Request) /\ Len(queue[on[u]]) \in Nat
<1>1. on[u] \in Made /\ on[u] \in Scbs
  BY SocketTypes DEF SocketIInv, MadeInv
<1>2. queue[on[u]] \in Seq(Request)
  BY <1>1 DEF SocketIInv, TypeOK, Request
<1> QED BY <1>1, <1>2

\* A step that leaves the SCBs, the descriptors and the ports alone.
LEMMA StillMade ==
  ASSUME SocketIInv, UNCHANGED <<FIDT, scb, freed, PortMap>>
  PROVE  Made' = Made /\ KindInv' /\ PortInv'
BY DEF SocketIInv, Made, KindInv, PortInv, Listening

-----------------------------------------------------------------------------
(* Sockets: the steps.                                                     *)

LEMMA CorruptStep ==
  ASSUME SocketIInv, Corrupt
  PROVE  SocketIInv'
<1>1. /\ UNCHANGED <<FIDT, scb, freed, PortMap, queue, pipe, pc, on, using, wake, accepted>>
      /\ corrupt' \in BOOLEAN
  BY DEF Corrupt, threadVars
<1>2. TypeOK'
  BY <1>1 DEF SocketIInv, TypeOK
<1>3. MadeInv'
  BY <1>1 DEF SocketIInv, MadeInv, Made
<1>4. KindInv' /\ PortInv' /\ Made' = Made
  BY <1>1, StillMade
<1>5. AcceptInv'
  BY <1>1 DEF SocketIInv, AcceptInv, Listening, Awake
<1>6. LinkInv'
  BY <1>1 DEF SocketIInv, LinkInv, Client, Made
<1>7. EndsInv' /\ SleepInv'
  BY <1>1 DEF SocketIInv, EndsInv, SleepInv, Idle, Made
<1> QED BY <1>2, <1>3, <1>4, <1>5, <1>6, <1>7 DEF SocketIInv

\* Socket makes an SCB.
LEMMA SocketStep ==
  ASSUME SocketIInv, NEW t \in Threads, NEW port \in Ports \cup {NULL}, sys_Socket(t, port)
  PROVE  SocketIInv'
<1> DEFINE n == Len(scb) + 1
           r == NewScb(port, Lowest)
<1>1. /\ FIDT' = [FIDT EXCEPT ![Lowest] = n] /\ scb' = Append(scb, r) /\ Len(scb) < M
      /\ FreeFids # {} /\ pc[t] = "run"
      /\ UNCHANGED <<freed, PortMap, queue, pipe, pc, on, using, wake, accepted, corrupt>>
  BY DEF sys_Socket, Reservable, threadVars, Running
<1>2. /\ scb \in Seq(ScbType) /\ Len(scb) \in Nat /\ n \in Scbs /\ NULL \notin Made /\ M \in Nat
      /\ Made \subseteq Scbs
  <2>1. scb \in Seq(ScbType) /\ Len(scb) \in Nat /\ M \in Nat /\ NULL \notin Made /\ Made \subseteq Scbs
    BY SocketTypes DEF SocketIInv
  <2> QED BY <2>1, <1>1 DEF Scbs
<1>3. Lowest \in Fid /\ 0 \in Fid
  <2>1. Lowest \in Fid
    BY <1>1, LowestFree
  <2> QED BY <2>1, SocketAssumption DEF Fid
<1>4. r \in ScbType /\ r.type = "UNBOUND" /\ r.send = NULL /\ r.receive = NULL
  BY <1>3 DEF NewScb, ScbType
<1>5. /\ scb' \in Seq(ScbType) /\ Len(scb') = n /\ scb'[n] = r /\ n \notin Made
      /\ Made' = Made \cup {n} /\ \A s \in Made : scb'[s] = scb[s]
  <2> HIDE DEF r
  <2> QED BY <1>1, <1>2, <1>4 DEF Made
<1>6. TypeOK'
  BY <1>1, <1>2, <1>3, <1>5 DEF SocketIInv, TypeOK, ScbType
<1>7. MadeInv'
  <2>1. Len(scb') <= M
    BY <1>1, <1>2, <1>5
  <2>2. \A f \in Fid : FIDT'[f] # NULL => FIDT'[f] \in Made' \ freed'
    BY <1>1, <1>3, <1>5 DEF SocketIInv, TypeOK, MadeInv
  <2>3. ASSUME NEW u \in Threads, pc'[u] \in {"read", "write"}
        PROVE  using'[u] \in Made' /\ scb'[using'[u]].type = "PEER" /\ on'[u] \in 2 .. 2 * Len(scb') + 1
    <3>1. using[u] \in Made /\ scb[using[u]].type = "PEER" /\ on[u] \in 2 .. 2 * Len(scb) + 1
      BY <2>3, <1>1 DEF SocketIInv, MadeInv
    <3>2. on[u] \in 2 .. 2 * n + 1
      BY <3>1, <1>2
    <3> QED BY <3>1, <3>2, <1>1, <1>5
  <2> QED BY <1>1, <1>5, <2>1, <2>2, <2>3 DEF SocketIInv, MadeInv
<1>8. KindInv'
  BY <1>4, <1>5 DEF SocketIInv, KindInv
<1>9. \A p \in Ports : PortMap[p] # NULL => PortMap[p] \in Made
  BY DEF SocketIInv, MadeInv
<1>10. PortInv'
  BY <1>1, <1>4, <1>5, <1>9 DEF SocketIInv, PortInv, Listening
<1>11. AcceptInv'
  <2>1. ASSUME NEW u \in Threads, pc[u] = "accept", scb'[on[u]].type # "PEER"
        PROVE  /\ scb[on[u]].type # "PEER"
               /\ Listening(on[u]) => scb'[on[u]].type = "LISTENER" /\ on[u] \notin freed'
               /\ Len(queue'[on[u]]) <= Len(queue[on[u]]) /\ Len(queue'[on[u]]) \in Nat
    <3>1. on[u] \in Made /\ Len(queue[on[u]]) \in Nat
      BY <2>1, AcceptorAt
    <3>2. scb'[on[u]] = scb[on[u]]
      BY <3>1, <1>5
    <3> QED BY <2>1, <3>1, <3>2, <1>1 DEF Listening
  <2>2. Others(t) /\ pc[t] # "accept" /\ pc'[t] # "accept"
    BY <1>1 DEF Others
  <2> QED BY <2>1, <2>2, AcceptFrame
<1>12. LinkInv'
  <2>1. \A l \in Scbs : \A i \in DOMAIN queue[l] : queue[l][i].sock \in Made /\ Client(queue[l][i].sock)
    BY DEF SocketIInv, MadeInv, LinkInv
  <2>2. \A l \in Scbs : \A i \in DOMAIN queue'[l] : Client(queue[l][i].sock)'
    BY <1>1, <1>5, <2>1 DEF Client
  <2> QED BY <1>4, <1>5, <2>2 DEF SocketIInv, LinkInv
<1>13. EndsInv'
  <2>1. \A p \in Pipes : p > 2 * Len(scb') + 1 => p > 2 * Len(scb) + 1
    BY <1>2, <1>5 DEF Pipes
  <2> QED BY <1>1, <1>4, <1>5, <2>1 DEF SocketIInv, EndsInv
<1>14. SleepInv'
  BY <1>1 DEF SocketIInv, SleepInv, Idle
<1> QED BY <1>6, <1>7, <1>8, <1>10, <1>11, <1>12, <1>13, <1>14 DEF SocketIInv

\* Listen: nobody else listens on the port.
LEMMA ListenStep ==
  ASSUME SocketIInv, NEW t \in Threads, NEW f \in Fid, sys_Listen(t, f)
  PROVE  SocketIInv'
<1> DEFINE s == FIDT[f]
           r == [scb[s] EXCEPT !.refcount = 1, !.type = "LISTENER"]
<1>1. /\ scb' = [scb EXCEPT ![s].refcount = 1, ![s].type = "LISTENER"]
      /\ queue' = [queue EXCEPT ![s] = <<>>] /\ PortMap' = [PortMap EXCEPT ![scb[s].port] = s]
      /\ scb[s].port # NULL /\ PortMap[scb[s].port] = NULL /\ scb[s].refcount = 0
      /\ FIDT[f] # NULL /\ pc[t] = "run"
      /\ UNCHANGED <<FIDT, freed, pipe, pc, on, using, wake, accepted, corrupt>>
  BY DEF sys_Listen, MayListen, Running, Open, Sock, threadVars
<1>2. /\ scb \in Seq(ScbType) /\ Len(scb) \in Nat /\ NULL \notin Made
      /\ Made \subseteq Scbs /\ s \in Made /\ s \notin freed /\ scb[s] \in ScbType
      /\ scb = [i \in Made |-> scb[i]] /\ \A i \in Made : scb[i] \in ScbType
  <2>1. s \in Made /\ s \notin freed
    BY <1>1 DEF SocketIInv, MadeInv
  <2> QED BY <2>1, SocketTypes DEF SocketIInv
<1>3. /\ scb[s].type = "UNBOUND" /\ scb[s].port \in Ports
      /\ scb[s].send = NULL /\ scb[s].receive = NULL
  BY <1>1, <1>2 DEF SocketIInv, KindInv, ScbType
<1>4. /\ r \in ScbType /\ r.type = "LISTENER" /\ r.refcount = 1 /\ r.port = scb[s].port
      /\ r.send = NULL /\ r.receive = NULL
  BY <1>2, <1>3 DEF ScbType
<1>5. /\ scb' \in Seq(ScbType) /\ Len(scb') = Len(scb) /\ Made' = Made
      /\ \A i \in Made : scb'[i] = IF i = s THEN r ELSE scb[i]
  <2>1. scb' = [i \in Made |-> IF i = s THEN r ELSE scb[i]]
    BY <1>1, <1>2
  <2> HIDE DEF r, s
  <2>2. \A i \in Made : scb'[i] = (IF i = s THEN r ELSE scb[i]) /\ scb'[i] \in ScbType
    BY <2>1, <1>2, <1>4
  <2>3. scb' = [i \in 1 .. Len(scb) |-> scb'[i]]
    BY <2>1 DEF Made
  <2>4. scb' \in Seq(ScbType) /\ Len(scb') = Len(scb)
    BY <2>2, <2>3, <1>2, ScbSeq DEF Made
  <2> QED BY <2>2, <2>4 DEF Made
<1> HIDE DEF r
<1>6. TypeOK'
  <2>1. queue' \in [Scbs -> Seq(Request)]
    <3>1. queue \in [Scbs -> Seq(Request)]
      BY DEF SocketIInv, TypeOK, Request
    <3>2. <<>> \in Seq(Request)
      BY EmptyElements
    <3> QED BY <3>1, <3>2, <1>1
  <2>2. PortMap' \in [Ports -> Scbs \cup {NULL}]
    BY <1>1, <1>2 DEF SocketIInv, TypeOK
  <2> QED BY <1>1, <1>5, <2>1, <2>2 DEF SocketIInv, TypeOK, ScbType, Request
<1>7. MadeInv'
  <2>1. \A p \in Ports : PortMap'[p] # NULL => PortMap'[p] \in Made
    BY <1>1, <1>2 DEF SocketIInv, TypeOK, MadeInv
  <2>2. \A l \in Scbs : \A i \in DOMAIN queue'[l] : queue'[l][i].sock \in Made
    BY <1>1, <1>2 DEF SocketIInv, TypeOK, MadeInv
  <2>3. \A u \in Threads : pc'[u] \in {"read", "write"} =>
          using'[u] \in Made /\ scb'[using'[u]].type = "PEER" /\ on'[u] \in 2 .. 2 * Len(scb') + 1
    BY <1>1, <1>3, <1>5 DEF SocketIInv, MadeInv
  <2> QED BY <1>1, <1>5, <2>1, <2>2, <2>3 DEF SocketIInv, MadeInv
<1>8. KindInv'
  <2>1. \A i \in Made : i # s => scb'[i] = scb[i]
    BY <1>5
  <2>2. scb'[s] = r
    BY <1>2, <1>5
  <2> QED BY <2>1, <2>2, <1>3, <1>4, <1>5, SocketAssumption DEF SocketIInv, KindInv, NULL
<1>9. PortInv'
  <2>1. ASSUME NEW i \in Made, Listening(i)'
        PROVE  PortMap'[scb'[i].port] = i
    <3>1. CASE i = s
      BY <3>1, <1>1, <1>2, <1>3, <1>4, <1>5 DEF SocketIInv, TypeOK
    <3>2. CASE i # s
      <4>1. Listening(i) /\ scb'[i].port = scb[i].port
        BY <3>2, <2>1, <1>1, <1>5 DEF Listening
      <4>2. PortMap[scb[i].port] = i /\ scb[i].port # scb[s].port
        BY <4>1, <1>1, <1>2 DEF SocketIInv, PortInv
      <4> QED BY <4>1, <4>2, <1>1, <1>3 DEF SocketIInv, TypeOK
    <3> QED BY <3>1, <3>2
  <2>2. ASSUME NEW p \in Ports, PortMap'[p] # NULL
        PROVE  /\ scb'[PortMap'[p]].port = p
               /\ Listening(PortMap[p])' \/ scb'[PortMap'[p]].type = "PEER"
    <3>1. CASE p = scb[s].port
      <4>1. PortMap'[p] = s
        BY <3>1, <1>1, <1>3 DEF SocketIInv, TypeOK
      <4> QED BY <4>1, <3>1, <1>1, <1>2, <1>4, <1>5 DEF Listening
    <3>2. CASE p # scb[s].port
      <4>1. PortMap'[p] = PortMap[p] /\ PortMap[p] \in Made
        BY <3>2, <2>2, <1>1 DEF SocketIInv, TypeOK, MadeInv
      <4>2. /\ scb[PortMap[p]].port = p
            /\ Listening(PortMap[p]) \/ scb[PortMap[p]].type = "PEER"
        BY <4>1, <2>2 DEF SocketIInv, PortInv
      <4>3. PortMap[p] # s
        BY <4>2, <1>3 DEF Listening
      <4>4. scb'[PortMap[p]] = scb[PortMap[p]]
        BY <4>1, <4>3, <1>5
      <4> QED BY <4>1, <4>2, <4>4, <1>1 DEF Listening
    <3> QED BY <3>1, <3>2
  <2> QED BY <1>5, <2>1, <2>2 DEF PortInv
<1>10. AcceptInv'
  <2>1. ASSUME NEW u \in Threads, pc[u] = "accept", wake[u] = "no", scb'[on[u]].type # "PEER"
        PROVE  /\ scb[on[u]].type # "PEER" /\ on[u] # s
               /\ on[u] \in Made /\ Len(queue[on[u]]) \in Nat
    <3>1. on[u] \in Made /\ Len(queue[on[u]]) \in Nat
      BY <2>1, AcceptorAt
    <3>2. scb[on[u]].type # "PEER"
      BY <3>1, <2>1, <1>3, <1>5
    <3>3. Listening(on[u])
      BY <3>2, <2>1 DEF SocketIInv, AcceptInv
    <3> QED BY <3>1, <3>2, <3>3, <1>3 DEF Listening
  <2>2. ASSUME NEW u \in Threads, pc[u] = "accept", wake[u] = "no", scb'[on[u]].type # "PEER"
        PROVE  /\ scb[on[u]].type # "PEER"
               /\ Listening(on[u]) => scb'[on[u]].type = "LISTENER" /\ on[u] \notin freed'
               /\ Len(queue'[on[u]]) <= Len(queue[on[u]]) /\ Len(queue'[on[u]]) \in Nat
    <3>0. on[u] \in Made /\ on[u] # s /\ on[u] \in Scbs /\ queue \in [Scbs -> Seq(Request)]
      BY <2>1, <2>2, <1>2 DEF SocketIInv, TypeOK, Request
    <3>1. queue'[on[u]] = queue[on[u]] /\ scb'[on[u]] = scb[on[u]]
      BY <3>0, <1>1, <1>5
    <3> QED BY <3>1, <2>1, <2>2, <1>1 DEF Listening
  <2>3. Others(t) /\ pc[t] # "accept" /\ pc'[t] # "accept"
    BY <1>1 DEF Others
  <2> QED BY <2>2, <2>3, AcceptFrame
<1>11. LinkInv'
  <2>1. \A i \in Made : /\ scb'[i].type = "PEER" <=> scb[i].type = "PEER"
                        /\ scb[i].type = "PEER" => scb'[i] = scb[i]
    BY <1>3, <1>4, <1>5
  <2>2. ASSUME NEW l \in Scbs, NEW i \in DOMAIN queue'[l]
        PROVE  Client(queue[l][i].sock)'
    <3>1. i \in DOMAIN queue[l] /\ queue'[l] = queue[l]
      BY <1>1, <1>2 DEF SocketIInv, TypeOK
    <3>2. queue[l][i].sock \in Made /\ Client(queue[l][i].sock)
      BY <3>1 DEF SocketIInv, MadeInv, LinkInv
    <3> QED BY <2>1, <3>1, <3>2 DEF Client
  <2> QED BY <1>5, <2>1, <2>2 DEF SocketIInv, LinkInv
<1>12. EndsInv'
  <2>1. ASSUME NEW i \in Made
        PROVE  scb'[i].send = scb[i].send /\ scb'[i].receive = scb[i].receive
    BY <1>3, <1>4, <1>5
  <2> QED BY <2>1, <1>1, <1>5 DEF SocketIInv, EndsInv
<1>13. SleepInv'
  BY <1>1 DEF SocketIInv, SleepInv, Idle
<1> QED BY <1>6, <1>7, <1>8, <1>9, <1>10, <1>11, <1>12, <1>13 DEF SocketIInv

\* A request is taken from the queue of l by t, which calls Accept or has been
\* woken in it: one request less, at most one acceptor less that is awake.
LEMMA TakenFrame ==
  ASSUME SocketIInv, NEW t \in Threads, NEW l \in Made, Others(t), pc'[t] = "run",
         pc[t] = "run" \/ (pc[t] = "accept" /\ on[t] = l /\ wake[t] # "no"),
         queue[l] # <<>>, queue' = [queue EXCEPT ![l] = Tail(@)],
         \A s \in Made : scb'[s].type # "PEER" =>
           scb'[s].type = scb[s].type /\ (s \in freed' => s \in freed)
  PROVE  AcceptInv'
<1> SUFFICES ASSUME NEW u \in Threads, pc'[u] = "accept", wake'[u] = "no",
                    scb'[on'[u]].type # "PEER"
             PROVE  (Listening(on[u]) /\ Len(queue[on[u]]) <= Cardinality(Awake(on[u])))'
  BY DEF AcceptInv
<1> DEFINE x == on[u]
<1>1. u # t /\ on'[u] = x /\ pc[u] = "accept" /\ wake[u] = "no" /\ x \in Made /\ x \in Scbs
      /\ queue[x] \in Seq(Request)
  BY AcceptorAt DEF Others
<1>2. /\ scb[x].type # "PEER" /\ scb'[x].type = scb[x].type
      /\ Listening(x) /\ x \notin freed' /\ scb'[x].type = "LISTENER"
      /\ Len(queue[x]) <= Cardinality(Awake(x))
  <2>1. scb'[x].type = scb[x].type /\ (x \in freed' => x \in freed)
    BY <1>1
  <2> QED BY <1>1, <2>1 DEF SocketIInv, AcceptInv, Listening
<1>3. /\ IsFiniteSet(Awake(x)) /\ IsFiniteSet(Awake(x)')
      /\ Cardinality(Awake(x)) \in Nat /\ Cardinality(Awake(x)') \in Nat
  <2>1. Awake(x) \subseteq Threads /\ Awake(x)' \subseteq Threads
    BY DEF Awake
  <2> QED BY <2>1, SocketAssumption, FS_Subset, FS_CardinalityType
<1>4. Awake(x) \ {t} \subseteq Awake(x)'
  BY <1>1 DEF Awake, Others
<1>5. CASE x = l
  <2>1. queue'[x] = Tail(queue[x])
    BY <1>1, <1>5 DEF SocketIInv, TypeOK
  <2>2. Len(queue'[x]) = Len(queue[x]) - 1 /\ Len(queue[x]) \in Nat
    <3> DEFINE s == queue[x]
    <3>1. s \in Seq(Request) /\ s # <<>>
      BY <1>1, <1>5
    <3> HIDE DEF s
    <3>2. Len(Tail(s)) = Len(s) - 1 /\ Len(s) \in Nat
      BY <3>1, TailElements
    <3> QED BY <2>1, <3>2 DEF s
  <2>3. /\ Cardinality(Awake(x)) - 1 <= Cardinality(Awake(x) \ {t})
        /\ Cardinality(Awake(x) \ {t}) <= Cardinality(Awake(x)')
        /\ Cardinality(Awake(x) \ {t}) \in Nat
    <3>1. Cardinality(Awake(x) \ {t}) <= Cardinality(Awake(x)')
          /\ Cardinality(Awake(x) \ {t}) \in Nat
      BY <1>3, <1>4, FS_Subset, FS_CardinalityType
    <3>2. Cardinality(Awake(x) \ {t}) =
            IF t \in Awake(x) THEN Cardinality(Awake(x)) - 1 ELSE Cardinality(Awake(x))
      BY <1>3, FS_RemoveElement
    <3> QED BY <1>3, <3>1, <3>2
  <2> QED BY <1>1, <1>2, <1>3, <2>2, <2>3 DEF Listening
<1>6. CASE x # l
  <2>1. queue'[x] = queue[x] /\ Len(queue[x]) \in Nat
    BY <1>1, <1>6 DEF SocketIInv, TypeOK
  <2>2. t \notin Awake(x)
    BY <1>6 DEF Awake
  <2>3. Cardinality(Awake(x)) <= Cardinality(Awake(x)')
    BY <1>3, <1>4, <2>2, FS_Subset
  <2> QED BY <1>1, <1>2, <1>3, <2>1, <2>3 DEF Listening
<1> QED BY <1>5, <1>6

\* The records of Accept: the new server and its client.
LEMMA NewPair ==
  ASSUME SocketIInv, NEW c \in Made, NEW port \in Ports \cup {NULL}, NEW f \in Fid,
         Len(scb) < M, NEW n, n = Len(scb) + 1, NEW k, k = Connected(scb, c, n, port, f)
  PROVE  /\ k \in Seq(ScbType) /\ Len(k) = n
         /\ \A s \in Made : s # c => k[s] = scb[s]
         /\ k[c].type = "PEER" /\ k[c].peer = n /\ k[c].refcount = 1
         /\ k[c].send = In(n) /\ k[c].receive = Out(n) /\ k[c].port = scb[c].port
         /\ k[n].type = "PEER" /\ k[n].peer = c /\ k[n].refcount = 1
         /\ k[n].send = Out(n) /\ k[n].receive = In(n)
<1> DEFINE rn == [NewScb(port, f) EXCEPT !.refcount = 1, !.type = "PEER",
                      !.peer = c, !.receive = In(n), !.send = Out(n)]
           rc == [scb[c] EXCEPT !.refcount = 1, !.type = "PEER",
                      !.peer = n, !.send = In(n), !.receive = Out(n)]
<1>1. /\ Len(scb) \in Nat /\ M \in Nat /\ \A s \in Made : scb[s] \in ScbType
      /\ Made \subseteq Scbs
  BY SocketTypes DEF SocketIInv
<1>2. n \in Nat /\ n \in Scbs /\ In(n) \in Pipes /\ Out(n) \in Pipes /\ n \notin Made /\ c # n
  BY <1>1 DEF Scbs, In, Out, Pipes, Made
<1>3. 0 \in Fid
  BY SocketAssumption DEF Fid
<1>4. /\ rn \in ScbType /\ rn.type = "PEER" /\ rn.peer = c /\ rn.refcount = 1
      /\ rn.send = Out(n) /\ rn.receive = In(n)
  BY <1>1, <1>2, <1>3 DEF NewScb, ScbType
<1>5. /\ rc \in ScbType /\ rc.type = "PEER" /\ rc.peer = n /\ rc.refcount = 1
      /\ rc.send = In(n) /\ rc.receive = Out(n) /\ rc.port = scb[c].port
  BY <1>1, <1>2 DEF ScbType
<1>6. k = [i \in 1 .. n |-> IF i = n THEN rn ELSE IF i = c THEN rc ELSE scb[i]]
  BY DEF Connected
<1> HIDE DEF rn, rc
<1>7. \A i \in 1 .. n : k[i] = (IF i = n THEN rn ELSE IF i = c THEN rc ELSE scb[i])
  BY <1>6
<1>8. \A i \in 1 .. n : i = n \/ i \in Made
  BY <1>1 DEF Made
<1>9. k = [i \in 1 .. n |-> k[i]] /\ \A i \in 1 .. n : k[i] \in ScbType
  BY <1>1, <1>4, <1>5, <1>6, <1>7, <1>8
<1>10. k \in Seq(ScbType) /\ Len(k) = n
  BY <1>2, <1>9, ScbSeq
<1>11. n \in 1 .. n /\ c \in 1 .. n /\ \A s \in Made : s \in 1 .. n /\ s # n
  BY <1>1, <1>2 DEF Made
<1>12. k[n] = rn /\ k[c] = rc /\ \A s \in Made : s # c => k[s] = scb[s]
  BY <1>2, <1>7, <1>11
<1> QED BY <1>4, <1>5, <1>10, <1>12

\* Accept takes the first request: it makes a pair of peers, or it fails and
\* wakes the client.
LEMMA EstablishStep ==
  ASSUME SocketIInv, NEW t \in Threads, NEW l \in Made, Establish(t, l),
         pc[t] = "run" \/ (pc[t] = "accept" /\ on[t] = l /\ wake[t] # "no")
  PROVE  SocketIInv'
<1> DEFINE req == Head(queue[l])
           c == req.sock
           n == Len(scb) + 1
<1>1. CASE queue[l] = <<>> \/ c \in freed
  <2>1. Corrupt
    BY <1>1 DEF Establish
  <2> QED BY <2>1, CorruptStep
<1>2. CASE queue[l] # <<>> /\ c \notin freed
  <2>1. /\ queue' = [queue EXCEPT ![l] = Tail(@)]
        /\ accepted' = IF req.thr = NULL THEN accepted
                       ELSE [accepted EXCEPT ![req.thr] = Reservable]
        /\ wake' = [u \in Threads |->
             IF u = t THEN "no"
             ELSE IF u = req.thr /\ wake[u] = "no" THEN "signal" ELSE wake[u]]
        /\ pc' = [pc EXCEPT ![t] = "run"] /\ on' = [on EXCEPT ![t] = NULL]
        /\ using' = [using EXCEPT ![t] = NULL]
        /\ UNCHANGED <<freed, PortMap, pipe, corrupt>>
    BY <1>2 DEF Establish, Return
  <2>2. IF Reservable
        THEN /\ FIDT' = [FIDT EXCEPT ![Lowest] = n]
             /\ scb' = Connected(scb, c, n, scb[l].port, Lowest)
        ELSE /\ scb' = [scb EXCEPT ![c].refcount = 1]
             /\ UNCHANGED FIDT
    BY <1>2 DEF Establish
  <2>3. /\ Len(scb) \in Nat /\ l \in Scbs /\ \A s \in Made : scb[s] \in ScbType
        /\ scb \in Seq(ScbType) /\ NULL \notin Made /\ Made \subseteq Scbs /\ M \in Nat
        /\ queue \in [Scbs -> Seq(Request)] /\ scb = [i \in Made |-> scb[i]]
    <3>1. queue \in [Scbs -> Seq(Request)]
      BY DEF SocketIInv, TypeOK, Request
    <3> QED BY <3>1, SocketTypes DEF SocketIInv
  \* What is left of the queue, and who is taken from it.
  <2>4. /\ c \in Made /\ Client(c) /\ req.thr \in Threads \cup {NULL}
        /\ Tail(queue[l]) \in Seq(Request)
        /\ \A i \in DOMAIN Tail(queue[l]) : i + 1 \in DOMAIN queue[l] /\ Tail(queue[l])[i] = queue[l][i + 1]
    <3> DEFINE s == queue[l]
    <3>1. s \in Seq(Request) /\ s # <<>>
      BY <1>2, <2>3
    <3>2. 1 \in DOMAIN s /\ req = s[1] /\ req \in Request
      <4> HIDE DEF s
      <4>1. 1 \in DOMAIN s /\ Head(s) = s[1] /\ Head(s) \in Request
        BY <3>1
      <4> QED BY <4>1 DEF s
    <3>3. Tail(s) \in Seq(Request) /\ \A i \in DOMAIN Tail(s) : i + 1 \in DOMAIN s /\ Tail(s)[i] = s[i + 1]
      <4> HIDE DEF s
      <4> QED BY <3>1
    <3>4. c \in Made /\ Client(c)
      BY <3>2, <2>3 DEF SocketIInv, MadeInv, LinkInv
    <3> QED BY <3>2, <3>3, <3>4 DEF Request
  <2>5. \A x \in Scbs : \A i \in DOMAIN queue'[x] :
          \E j \in DOMAIN queue[x] : queue'[x][i].sock = queue[x][j].sock
    <3>1. ASSUME NEW x \in Scbs, NEW i \in DOMAIN queue'[x]
          PROVE  \E j \in DOMAIN queue[x] : queue'[x][i].sock = queue[x][j].sock
      <4>1. CASE x = l
        <5>1. queue'[x] = Tail(queue[l])
          BY <4>1, <2>1, <2>3
        <5> QED BY <4>1, <5>1, <2>4
      <4>2. CASE x # l
        BY <4>2, <2>1, <2>3
      <4> QED BY <4>1, <4>2
    <3> QED BY <3>1
  <2>6. /\ queue' \in [Scbs -> Seq(Request)] /\ wake' \in [Threads -> {"no", "signal", "timeout"}]
        /\ accepted' \in [Threads -> BOOLEAN] /\ using' \in [Threads -> Scbs \cup {NULL}]
        /\ pc' \in [Threads -> {"run", "accept", "connect", "read", "write"}]
        /\ on' \in [Threads -> Nat]
    <3>1. queue' \in [Scbs -> Seq(Request)]
      BY <2>1, <2>3, <2>4
    <3>2. wake' \in [Threads -> {"no", "signal", "timeout"}]
      BY <2>1 DEF SocketIInv, TypeOK
    <3>3. accepted' \in [Threads -> BOOLEAN]
      <4>1. Reservable \in BOOLEAN
        BY DEF Reservable
      <4> QED BY <2>1, <2>4, <4>1 DEF SocketIInv, TypeOK
    <3>4. /\ using' \in [Threads -> Scbs \cup {NULL}] /\ on' \in [Threads -> Nat]
          /\ pc' \in [Threads -> {"run", "accept", "connect", "read", "write"}]
      BY <2>1 DEF SocketIInv, TypeOK, NULL
    <3> QED BY <3>1, <3>2, <3>3, <3>4
  <2>7. /\ Others(t) /\ pc'[t] = "run" /\ using'[t] = NULL
        /\ \A u \in Threads : u # t => using'[u] = using[u]
    BY <2>1 DEF Others, SocketIInv, TypeOK
  <2>8. SleepInv'
    <3>1. SleepInv /\ pc'[t] \notin {"read", "write"}
      BY <2>7 DEF SocketIInv
    <3> QED BY <3>1, <2>1, <2>7, SleepFrame
  <2>9. CASE Reservable
    <3>1. Lowest \in Fid /\ Len(scb) < M
      BY <2>9, LowestFree DEF Reservable
    <3>2. scb[l].port \in Ports \cup {NULL}
      BY <2>3 DEF ScbType
    <3>3. /\ scb' \in Seq(ScbType) /\ Len(scb') = n
          /\ \A s \in Made : s # c => scb'[s] = scb[s]
          /\ scb'[c].type = "PEER" /\ scb'[c].peer = n /\ scb'[c].refcount = 1
          /\ scb'[c].send = In(n) /\ scb'[c].receive = Out(n) /\ scb'[c].port = scb[c].port
          /\ scb'[n].type = "PEER" /\ scb'[n].peer = c /\ scb'[n].refcount = 1
          /\ scb'[n].send = Out(n) /\ scb'[n].receive = In(n)
      <4>1. scb' = Connected(scb, c, n, scb[l].port, Lowest) /\ n = Len(scb) + 1 /\ c \in Made
        BY <2>2, <2>4, <2>9
      <4> HIDE DEF c, n
      <4> QED BY <4>1, <3>1, <3>2, NewPair
    <3>4. /\ FIDT' = [FIDT EXCEPT ![Lowest] = n] /\ Made' = Made \cup {n} /\ n \notin Made
          /\ n \in Scbs /\ c < n /\ c # n /\ c \in Nat /\ n \in Nat
      <4>1. FIDT' = [FIDT EXCEPT ![Lowest] = n]
        BY <2>2, <2>9
      <4> HIDE DEF c
      <4> QED BY <4>1, <2>3, <2>4, <3>1, <3>3 DEF Made, Scbs
    <3> HIDE DEF n, c
    <3>5. TypeOK'
      <4>1. FIDT' \in [Fid -> Scbs \cup {NULL}]
        BY <3>1, <3>4 DEF SocketIInv, TypeOK
      <4> QED BY <2>1, <2>6, <3>3, <4>1 DEF SocketIInv, TypeOK, ScbType, Request
    <3>6. MadeInv'
      <4>1. Len(scb') <= M
        BY <2>3, <3>1, <3>3 DEF n
      <4>2. \A f \in Fid : FIDT'[f] # NULL => FIDT'[f] \in Made' \ freed'
        BY <2>1, <3>1, <3>4 DEF SocketIInv, TypeOK, MadeInv
      <4>3. \A u \in Threads : using'[u] # NULL => using'[u] \in Made' \ freed'
        BY <2>1, <2>7, <3>4 DEF SocketIInv, MadeInv
      <4>4. ASSUME NEW x \in Scbs, NEW i \in DOMAIN queue'[x]
            PROVE  queue'[x][i].sock \in Made'
        BY <2>5, <3>4 DEF SocketIInv, MadeInv
      <4>5. ASSUME NEW u \in Threads
            PROVE  /\ pc'[u] = "accept" => on'[u] \in Made'
                   /\ pc'[u] \in {"read", "write"} =>
                        /\ using'[u] \in Made' /\ scb'[using'[u]].type = "PEER"
                        /\ on'[u] \in 2 .. 2 * Len(scb') + 1
        <5>1. CASE u = t
          BY <5>1, <2>7
        <5>2. CASE u # t
          <6>1. pc'[u] = pc[u] /\ on'[u] = on[u] /\ using'[u] = using[u]
            BY <5>2, <2>7 DEF Others
          <6>2. CASE pc[u] = "accept"
            BY <6>1, <6>2, <3>4 DEF SocketIInv, MadeInv
          <6>3. CASE pc[u] \in {"read", "write"}
            <7>1. using[u] \in Made /\ scb[using[u]].type = "PEER" /\ on[u] \in 2 .. 2 * Len(scb) + 1
              BY <6>3 DEF SocketIInv, MadeInv
            <7>2. on[u] \in 2 .. 2 * n + 1
              BY <7>1, <2>3 DEF n
            <7>3. scb'[using[u]].type = "PEER"
              BY <7>1, <3>3
            <7> QED BY <6>1, <6>3, <7>1, <7>2, <7>3, <3>3, <3>4
          <6> QED BY <6>1, <6>2, <6>3
        <5> QED BY <5>1, <5>2
      <4> QED BY <2>1, <3>4, <4>1, <4>2, <4>3, <4>4, <4>5 DEF SocketIInv, MadeInv
    <3>7. KindInv'
      BY <3>3, <3>4, SocketAssumption DEF SocketIInv, KindInv
    <3>8. PortInv'
      <4>1. ASSUME NEW s \in Made', Listening(s)'
            PROVE  PortMap'[scb'[s].port] = s
        <5>1. s # n /\ s # c
          BY <4>1, <3>3 DEF Listening
        <5>2. s \in Made /\ scb'[s] = scb[s] /\ Listening(s)
          BY <4>1, <5>1, <3>3, <3>4, <2>1 DEF Listening
        <5> QED BY <5>2, <2>1 DEF SocketIInv, PortInv
      <4>2. ASSUME NEW p \in Ports, PortMap'[p] # NULL
            PROVE  /\ scb'[PortMap'[p]].port = p
                   /\ Listening(PortMap[p])' \/ scb'[PortMap'[p]].type = "PEER"
        <5>1. /\ PortMap'[p] = PortMap[p] /\ PortMap[p] \in Made
              /\ scb[PortMap[p]].port = p
              /\ Listening(PortMap[p]) \/ scb[PortMap[p]].type = "PEER"
          BY <4>2, <2>1 DEF SocketIInv, MadeInv, PortInv
        <5>2. CASE PortMap[p] = c
          BY <5>1, <5>2, <3>3
        <5>3. CASE PortMap[p] # c
          <6>1. scb'[PortMap[p]] = scb[PortMap[p]]
            BY <5>1, <5>3, <3>3
          <6> QED BY <5>1, <6>1, <2>1 DEF Listening
        <5> QED BY <5>2, <5>3
      <4> QED BY <4>1, <4>2 DEF PortInv
    <3>9. AcceptInv'
      <4>1. \A s \in Made : scb'[s].type # "PEER" =>
              scb'[s].type = scb[s].type /\ (s \in freed' => s \in freed)
        BY <3>3, <2>1
      <4> QED BY <4>1, <2>1, <2>7, <1>2, TakenFrame
    <3>10. LinkInv'
      <4>1. ASSUME NEW s \in Made', scb'[s].type = "PEER"
            PROVE  /\ scb'[s].peer \in Made' /\ scb'[s].peer # s /\ scb'[scb'[s].peer].type = "PEER"
                   /\ scb'[s].peer < s => /\ scb'[s].send \in {Out(s), NULL}
                                          /\ scb'[s].receive \in {In(s), NULL}
                                          /\ scb'[s].peer < scb'[scb'[s].peer].peer
                   /\ s < scb'[s].peer => /\ scb'[s].send \in {In(scb'[s].peer), NULL}
                                          /\ scb'[s].receive \in {Out(scb'[s].peer), NULL}
                                          /\ scb'[scb'[s].peer].peer = s
        <5>1. CASE s = n
          BY <5>1, <2>4, <3>3, <3>4
        <5>2. CASE s = c
          BY <5>2, <3>3, <3>4
        <5>3. CASE s # n /\ s # c
          <6>1. s \in Made /\ scb'[s] = scb[s]
            BY <5>3, <3>3, <3>4
          <6>2. /\ scb[s].peer \in Made /\ scb[s].peer # s /\ scb[scb[s].peer].type = "PEER"
                /\ scb[s].peer < s => /\ scb[s].send \in {Out(s), NULL}
                                      /\ scb[s].receive \in {In(s), NULL}
                                      /\ scb[s].peer < scb[scb[s].peer].peer
                /\ s < scb[s].peer => /\ scb[s].send \in {In(scb[s].peer), NULL}
                                      /\ scb[s].receive \in {Out(scb[s].peer), NULL}
                                      /\ scb[scb[s].peer].peer = s
            BY <6>1, <4>1 DEF SocketIInv, LinkInv
          <6>3. CASE scb[s].peer = c
            <7>1. c < scb[c].peer
              BY <6>2, <6>3, <2>4 DEF Client
            <7>2. ~ (s < c)
              <8>1. s < c => scb[c].peer = s
                BY <6>2, <6>3
              <8>2. s \in Nat
                BY <6>1 DEF Made
              <8> QED BY <7>1, <8>1, <8>2, <3>4
            <7> QED BY <6>1, <6>2, <6>3, <7>2, <3>3, <3>4
          <6>4. CASE scb[s].peer # c
            <7>1. scb'[scb[s].peer] = scb[scb[s].peer]
              BY <6>2, <6>4, <3>3
            <7> QED BY <6>1, <6>2, <7>1, <3>4
          <6> QED BY <6>3, <6>4
        <5> QED BY <5>1, <5>2, <5>3
      <4>2. ASSUME NEW x \in Scbs, NEW i \in DOMAIN queue'[x]
            PROVE  Client(queue[x][i].sock)'
        <5>1. PICK j \in DOMAIN queue[x] : queue'[x][i].sock = queue[x][j].sock
          BY <2>5
        <5>2. queue[x][j].sock \in Made /\ Client(queue[x][j].sock)
          BY DEF SocketIInv, LinkInv, MadeInv
        <5>3. queue'[x][i].sock \in Made /\ Client(queue'[x][i].sock)
          BY <5>1, <5>2
        <5> QED BY <5>3, <3>3, <3>4 DEF Client
      <4> QED BY <4>1, <4>2 DEF LinkInv
    <3>11. EndsInv'
      <4>1. \A p \in Pipes : p > 2 * n + 1 => p > 2 * Len(scb) + 1
        BY <2>3 DEF Pipes, n
      <4>2. /\ In(n) \in Pipes /\ Out(n) \in Pipes
            /\ In(n) > 2 * Len(scb) + 1 /\ Out(n) > 2 * Len(scb) + 1
        BY <2>3, <3>1 DEF Pipes, n, In, Out
      <4>3. ~ pipe[In(n)].freed /\ ~ pipe[Out(n)].freed
        BY <4>2 DEF SocketIInv, EndsInv, get_pipe
      <4>4. ASSUME NEW s \in Made'
            PROVE  /\ scb'[s].send # NULL => ~ pipe'[scb'[s].send].freed
                   /\ scb'[s].receive # NULL => ~ pipe'[scb'[s].receive].freed
        <5>1. CASE s \in {n, c}
          BY <5>1, <4>3, <3>3, <2>1
        <5>2. CASE s \notin {n, c}
          <6>1. s \in Made /\ scb'[s] = scb[s]
            BY <5>2, <3>3, <3>4
          <6> QED BY <6>1, <2>1 DEF SocketIInv, EndsInv
        <5> QED BY <5>1, <5>2
      <4>5. \A p \in Pipes : p > 2 * Len(scb') + 1 => pipe'[p] = get_pipe
        BY <4>1, <3>3, <2>1 DEF SocketIInv, EndsInv
      <4> QED BY <4>4, <4>5 DEF EndsInv
    <3> QED BY <2>8, <3>5, <3>6, <3>7, <3>8, <3>9, <3>10, <3>11 DEF SocketIInv
  <2>10. CASE ~ Reservable
    <3>1. UNCHANGED FIDT /\ scb' = [scb EXCEPT ![c].refcount = 1]
      BY <2>2, <2>10
    <3> HIDE DEF c
    <3>2. Lesser(scb', scb)
      <4> DEFINE e == [scb[c] EXCEPT !.refcount = 1]
      <4>1. e \in ScbType /\ e.refcount = 1 /\ e.type = scb[c].type /\ e.port = scb[c].port
            /\ e.fid = scb[c].fid /\ e.peer = scb[c].peer /\ e.send = scb[c].send
            /\ e.receive = scb[c].receive
        BY <2>3, <2>4 DEF ScbType
      <4>2. scb' = [i \in Made |-> IF i = c THEN e ELSE scb[i]]
        BY <3>1, <2>3
      <4> HIDE DEF e
      <4>3. \A i \in Made : scb'[i] = (IF i = c THEN e ELSE scb[i]) /\ scb'[i] \in ScbType
        BY <4>1, <4>2, <2>3
      <4>4. scb' = [i \in 1 .. Len(scb) |-> scb'[i]]
        BY <4>2 DEF Made
      <4>5. scb' \in Seq(ScbType) /\ Len(scb') = Len(scb)
        BY <4>3, <4>4, <2>3, ScbSeq DEF Made
      <4> QED BY <4>1, <4>3, <4>5 DEF Lesser, Made
    <3>3. Made' = Made /\ KindInv' /\ LinkInv'
      BY <3>2, <2>5, LesserKept
    <3>4. PortInv'
      BY <3>2, <2>1, FreeKept
    <3>5. /\ Len(scb') = Len(scb) /\ scb' \in Seq(ScbType)
          /\ \A s \in Made : /\ scb'[s].type = scb[s].type
                             /\ scb'[s].send \in {scb[s].send, NULL}
                             /\ scb'[s].receive \in {scb[s].receive, NULL}
      BY <3>2 DEF Lesser, Made
    <3>6. TypeOK'
      BY <2>1, <2>6, <3>1, <3>5 DEF SocketIInv, TypeOK, ScbType, Request
    <3>7. MadeInv'
      <4>1. \A u \in Threads : using'[u] # NULL => using'[u] \in Made' \ freed'
        BY <2>1, <2>7, <3>3 DEF SocketIInv, MadeInv
      <4>2. ASSUME NEW x \in Scbs, NEW i \in DOMAIN queue'[x]
            PROVE  queue'[x][i].sock \in Made'
        BY <2>5, <3>3 DEF SocketIInv, MadeInv
      <4>3. \A u \in Threads :
              /\ pc'[u] = "accept" => on'[u] \in Made'
              /\ pc'[u] \in {"read", "write"} =>
                   /\ using'[u] \in Made' /\ scb'[using'[u]].type = "PEER"
                   /\ on'[u] \in 2 .. 2 * Len(scb') + 1
        BY <2>7, <3>3, <3>5 DEF Others, SocketIInv, MadeInv
      <4> QED BY <2>1, <3>1, <3>3, <3>5, <4>1, <4>2, <4>3 DEF SocketIInv, MadeInv
    <3>8. AcceptInv'
      <4>1. \A s \in Made : scb'[s].type # "PEER" =>
              scb'[s].type = scb[s].type /\ (s \in freed' => s \in freed)
        BY <3>5, <2>1
      <4> QED BY <4>1, <2>1, <2>7, <1>2, TakenFrame
    <3>9. EndsInv'
      BY <2>1, <3>3, <3>5 DEF SocketIInv, EndsInv
    <3> QED BY <2>8, <3>3, <3>4, <3>6, <3>7, <3>8, <3>9 DEF SocketIInv
  <2> QED BY <2>9, <2>10
<1> QED BY <1>1, <1>2

\* Nothing new is named by a step that makes nothing.
LEMMA MadeFrame ==
  ASSUME SocketIInv, NEW t \in Threads, Others(t), Lesser(scb', scb), freed' \subseteq Made,
         \A p \in Ports : PortMap'[p] \in {PortMap[p], NULL},
         \A l \in Scbs : \A i \in DOMAIN queue'[l] :
           \E j \in DOMAIN queue[l] : queue'[l][i].sock = queue[l][j].sock,
         \A f \in Fid : FIDT'[f] # NULL => FIDT'[f] \in Made \ freed',
         \A u \in Threads : using'[u] # NULL => using'[u] \in Made \ freed',
         \A u \in Threads : u # t => using'[u] = using[u],
         \/ pc'[t] \in {"run", "connect"}
         \/ pc'[t] = "accept" /\ on'[t] \in Made
         \/ /\ pc'[t] \in {"read", "write"} /\ using'[t] \in Made /\ scb[using'[t]].type = "PEER"
            /\ on'[t] \in 2 .. 2 * Len(scb) + 1
  PROVE  MadeInv'
<1>1. /\ Made' = Made /\ Len(scb') = Len(scb)
      /\ \A s \in Made : scb'[s].type = scb[s].type
  BY DEF Lesser, Made
<1>2. Len(scb') <= M
  BY <1>1 DEF SocketIInv, MadeInv
<1>3. \A p \in Ports : PortMap'[p] # NULL => PortMap'[p] \in Made
  BY DEF SocketIInv, MadeInv
<1>4. \A l \in Scbs : \A i \in DOMAIN queue'[l] : queue'[l][i].sock \in Made
  BY DEF SocketIInv, MadeInv
<1>5. ASSUME NEW u \in Threads
      PROVE  /\ pc'[u] = "accept" => on'[u] \in Made
             /\ pc'[u] \in {"read", "write"} =>
                  /\ using'[u] \in Made /\ scb'[using'[u]].type = "PEER"
                  /\ on'[u] \in 2 .. 2 * Len(scb) + 1
  <2>1. CASE u = t
    BY <2>1, <1>1
  <2>2. CASE u # t
    <3>1. pc'[u] = pc[u] /\ on'[u] = on[u] /\ using'[u] = using[u]
      BY <2>2 DEF Others
    <3> QED BY <3>1, <1>1 DEF SocketIInv, MadeInv
  <2> QED BY <2>1, <2>2
<1> QED BY <1>1, <1>2, <1>3, <1>4, <1>5 DEF MadeInv

\* Accept sleeps at a listener without requests.
LEMMA AcceptStep ==
  ASSUME SocketIInv, NEW t \in Threads, NEW f \in Fid, sys_Accept(t, f)
  PROVE  SocketIInv'
<1> DEFINE l == FIDT[f]
<1>1. /\ pc[t] = "run" /\ FIDT[f] # NULL /\ scb[l].type = "LISTENER" /\ wake[t] \in {"no", "signal", "timeout"}
  BY DEF sys_Accept, Running, Open, IsListener, Sock, SocketIInv, TypeOK
<1>2. l \in Made /\ l \notin freed /\ l \in Scbs /\ l \in Nat
  <2>1. l \in Made /\ l \notin freed
    BY <1>1 DEF SocketIInv, MadeInv
  <2> QED BY <2>1, SocketTypes DEF SocketIInv, Scbs
<1>3. CASE queue[l] = <<>>
  <2>1. /\ pc' = [pc EXCEPT ![t] = "accept"] /\ on' = [on EXCEPT ![t] = l]
        /\ UNCHANGED <<FIDT, scb, freed, PortMap, queue, pipe, using, wake, accepted, corrupt>>
    BY <1>3 DEF sys_Accept, Sleep, Sock
  <2> HIDE DEF l
  <2>2. TypeOK'
    BY <1>2, <2>1 DEF SocketIInv, TypeOK
  <2>3. /\ Others(t) /\ pc'[t] = "accept" /\ on'[t] = l
    BY <2>1 DEF Others, SocketIInv, TypeOK
  <2>4. Lesser(scb', scb)
    BY <2>1, SocketTypes, LesserSelf DEF SocketIInv
  <2>5. MadeInv'
    <3>1. \A x \in Scbs : \A i \in DOMAIN queue'[x] :
            \E j \in DOMAIN queue[x] : queue'[x][i].sock = queue[x][j].sock
      BY <2>1
    <3>2. freed' \subseteq Made
      BY <2>1 DEF SocketIInv, MadeInv
    <3>3. \A g \in Fid : FIDT'[g] # NULL => FIDT'[g] \in Made \ freed'
      BY <2>1 DEF SocketIInv, MadeInv
    <3>4. \A u \in Threads : using'[u] # NULL => using'[u] \in Made \ freed'
      BY <2>1 DEF SocketIInv, MadeInv
    <3> QED BY <1>2, <2>1, <2>3, <2>4, <3>1, <3>2, <3>3, <3>4, MadeFrame
  <2>6. Made' = Made /\ KindInv' /\ PortInv'
    BY <2>1, StillMade
  <2>7. LinkInv'
    BY <2>1 DEF SocketIInv, LinkInv, Client, Made
  <2>8. AcceptInv'
    <3> SUFFICES ASSUME NEW u \in Threads, pc'[u] = "accept", wake'[u] = "no",
                        scb'[on'[u]].type # "PEER"
                 PROVE  (Listening(on[u]) /\ Len(queue[on[u]]) <= Cardinality(Awake(on[u])))'
      BY DEF AcceptInv
    <3>1. \A x : Awake(x) \subseteq Threads /\ Awake(x)' \subseteq Threads /\ Awake(x) \subseteq Awake(x)'
      BY <1>1, <2>1, <2>3 DEF Awake, Others
    <3>2. \A x : /\ Cardinality(Awake(x)) \in Nat /\ Cardinality(Awake(x)') \in Nat
                 /\ Cardinality(Awake(x)) <= Cardinality(Awake(x)')
      BY <3>1, SocketAssumption, FS_Subset, FS_CardinalityType
    <3>3. CASE u = t
      <4>0. l' = l
        BY <2>1 DEF l
      <4>1. queue'[l] = <<>> /\ on'[u] = l
        BY <3>3, <1>3, <2>1, <2>3
      <4>2. Len(queue'[l]) = 0
        BY <4>1
      <4>3. Listening(l)'
        BY <4>0, <1>1, <1>2, <2>1 DEF Listening
      <4>4. Len(queue'[l]) <= Cardinality(Awake(l)')
        BY <4>0, <4>2, <3>2
      <4>5. on'[u] = l'
        BY <4>0, <4>1
      <4> QED BY <4>0, <4>3, <4>4, <4>5
    <3>4. CASE u # t
      <4>1. pc[u] = "accept" /\ on'[u] = on[u] /\ wake[u] = "no" /\ scb[on[u]].type # "PEER"
        BY <3>4, <2>1, <2>3 DEF Others
      <4>2. Listening(on[u]) /\ Len(queue[on[u]]) <= Cardinality(Awake(on[u])) /\ Len(queue[on[u]]) \in Nat
        BY <4>1, AcceptorAt DEF SocketIInv, AcceptInv
      <4>3. Len(queue[on[u]]) <= Cardinality(Awake(on[u])')
        BY <4>1, <4>2, <3>2
      <4> QED BY <4>1, <4>2, <4>3, <2>1 DEF Listening
    <3> QED BY <3>3, <3>4
  <2>9. EndsInv'
    BY <2>1, <2>6 DEF SocketIInv, EndsInv
  <2>10. SleepInv'
    <3>1. SleepInv /\ pc'[t] \notin {"read", "write"}
      BY <2>3 DEF SocketIInv
    <3> QED BY <3>1, <2>1, <2>3, SleepFrame
  <2> QED BY <2>2, <2>5, <2>6, <2>7, <2>8, <2>9, <2>10 DEF SocketIInv
<1>4. CASE queue[l] # <<>>
  <2>1. Establish(t, l)
    BY <1>4 DEF sys_Accept, Sock
  <2> HIDE DEF l
  <2> QED BY <2>1, <1>1, <1>2, EstablishStep
<1> QED BY <1>3, <1>4

\* A step of t that changes nothing but where t is and what woke it, and leaves
\* it neither in Accept nor asleep over a pipe.
LEMMA QuietStep ==
  ASSUME SocketIInv, NEW t \in Threads, TypeOK', Others(t),
         pc'[t] \in {"run", "connect"},
         \A u \in Threads : u # t => wake'[u] = wake[u] /\ using'[u] = using[u],
         using'[t] \in {using[t], NULL},
         UNCHANGED <<FIDT, scb, freed, PortMap, pipe>>,
         \A l \in Scbs : Len(queue'[l]) = Len(queue[l]),
         \A l \in Scbs : \A i \in DOMAIN queue'[l] :
           \E j \in DOMAIN queue[l] : queue'[l][i].sock = queue[l][j].sock,
         pc[t] = "accept" => on[t] \in freed
  PROVE  SocketIInv'
<1>1. Lesser(scb', scb)
  BY SocketTypes, LesserSelf DEF SocketIInv
<1>2. MadeInv'
  <2>1. freed' \subseteq Made
    BY DEF SocketIInv, MadeInv
  <2>2. \A g \in Fid : FIDT'[g] # NULL => FIDT'[g] \in Made \ freed'
    BY DEF SocketIInv, MadeInv
  <2>3. \A u \in Threads : using'[u] # NULL => using'[u] \in Made \ freed'
    BY DEF SocketIInv, MadeInv
  <2> QED BY <1>1, <2>1, <2>2, <2>3, MadeFrame
<1>3. Made' = Made /\ KindInv' /\ PortInv'
  BY StillMade
<1>4. LinkInv'
  BY <1>1, LesserKept
<1>5. AcceptInv'
  <2> SUFFICES ASSUME NEW u \in Threads, pc'[u] = "accept", wake'[u] = "no",
                      scb'[on'[u]].type # "PEER"
               PROVE  (Listening(on[u]) /\ Len(queue[on[u]]) <= Cardinality(Awake(on[u])))'
    BY DEF AcceptInv
  <2>1. u # t /\ pc[u] = "accept" /\ on'[u] = on[u] /\ wake[u] = "no" /\ scb[on[u]].type # "PEER"
    BY DEF Others
  <2>2. /\ Listening(on[u]) /\ Len(queue[on[u]]) <= Cardinality(Awake(on[u]))
        /\ on[u] \in Scbs /\ Len(queue'[on[u]]) = Len(queue[on[u]])
    BY <2>1, AcceptorAt DEF SocketIInv, AcceptInv
  <2>3. pc[t] = "accept" => on[t] # on[u]
    BY <2>2 DEF Listening
  <2>4. Awake(on[u])' = Awake(on[u])
    <3>1. ASSUME NEW v \in Threads
          PROVE  v \in Awake(on[u])' <=> v \in Awake(on[u])
      BY <2>1, <2>3 DEF Awake, Others
    <3>2. Awake(on[u])' \subseteq Threads /\ Awake(on[u]) \subseteq Threads
      BY DEF Awake
    <3> QED BY <3>1, <3>2
  <2> QED BY <2>1, <2>2, <2>4 DEF Listening
<1>6. EndsInv'
  BY <1>3 DEF SocketIInv, EndsInv
<1>7. SleepInv'
  BY SleepFrame DEF SocketIInv
<1> QED BY <1>2, <1>3, <1>4, <1>5, <1>6, <1>7 DEF SocketIInv

\* Accept fails at a listener that was closed.
LEMMA AcceptFailsStep ==
  ASSUME SocketIInv, NEW t \in Threads, AcceptFails(t)
  PROVE  SocketIInv'
<1>1. /\ pc[t] = "accept" /\ on[t] \in freed
      /\ pc' = [pc EXCEPT ![t] = "run"] /\ on' = [on EXCEPT ![t] = NULL]
      /\ using' = [using EXCEPT ![t] = NULL] /\ wake' = [wake EXCEPT ![t] = "no"]
      /\ UNCHANGED <<FIDT, scb, freed, PortMap, queue, pipe, accepted, corrupt>>
  BY DEF AcceptFails, Woken, Return
<1>2. TypeOK'
  BY <1>1 DEF SocketIInv, TypeOK, NULL
<1>3. /\ Others(t) /\ pc'[t] = "run" /\ using'[t] = NULL
      /\ \A u \in Threads : u # t => wake'[u] = wake[u] /\ using'[u] = using[u]
  BY <1>1 DEF Others, SocketIInv, TypeOK
<1>4. /\ \A l \in Scbs : Len(queue'[l]) = Len(queue[l])
      /\ \A l \in Scbs : \A i \in DOMAIN queue'[l] :
           \E j \in DOMAIN queue[l] : queue'[l][i].sock = queue[l][j].sock
  BY <1>1
<1> QED BY <1>1, <1>2, <1>3, <1>4, QuietStep

\* The timer of Connect.
LEMMA TimeoutStep ==
  ASSUME SocketIInv, NEW t \in Threads, Timeout(t)
  PROVE  SocketIInv'
<1>1. /\ pc[t] = "connect" /\ wake' = [wake EXCEPT ![t] = "timeout"]
      /\ UNCHANGED <<FIDT, scb, freed, PortMap, queue, pipe, pc, on, using, accepted, corrupt>>
  BY DEF Timeout
<1>2. TypeOK'
  BY <1>1 DEF SocketIInv, TypeOK
<1>3. /\ Others(t) /\ pc'[t] = "connect"
      /\ \A u \in Threads : u # t => wake'[u] = wake[u] /\ using'[u] = using[u]
  BY <1>1 DEF Others, SocketIInv, TypeOK
<1>4. /\ \A l \in Scbs : Len(queue'[l]) = Len(queue[l])
      /\ \A l \in Scbs : \A i \in DOMAIN queue'[l] :
           \E j \in DOMAIN queue[l] : queue'[l][i].sock = queue[l][j].sock
  BY <1>1
<1> QED BY <1>1, <1>2, <1>3, <1>4, QuietStep

\* Connect returns; its request forgets the thread, not the socket.
LEMMA ForgetType ==
  ASSUME NEW q \in Seq(Request), NEW t \in Threads
  PROVE  /\ Forget(q, t) \in Seq(Request) /\ Len(Forget(q, t)) = Len(q)
         /\ DOMAIN Forget(q, t) = DOMAIN q
         /\ \A i \in DOMAIN q : Forget(q, t)[i].sock = q[i].sock
<1> DEFINE g == Forget(q, t)
           n == Len(q)
<1>1. n \in Nat /\ DOMAIN q = 1 .. n /\ \A i \in 1 .. n : q[i] \in Request
  OBVIOUS
<1>2. g = [i \in 1 .. n |-> [q[i] EXCEPT !.thr = IF @ = t THEN NULL ELSE @]]
  BY <1>1 DEF Forget
<1>3. ASSUME NEW i \in 1 .. n
      PROVE  g[i] \in Request /\ g[i].sock = q[i].sock
  BY <1>1, <1>2 DEF Request
<1>4. g \in [1 .. n -> Request] /\ DOMAIN g = 1 .. n
  BY <1>2, <1>3
<1>5. g \in Seq(Request) /\ Len(g) = n
  <2> HIDE DEF g
  <2> QED BY <1>1, <1>4
<1> QED BY <1>1, <1>3, <1>4, <1>5

LEMMA ConnectReturnStep ==
  ASSUME SocketIInv, NEW t \in Threads, ConnectReturn(t)
  PROVE  SocketIInv'
<1>1. /\ pc[t] = "connect"
      /\ pc' = [pc EXCEPT ![t] = "run"] /\ on' = [on EXCEPT ![t] = NULL]
      /\ using' = [using EXCEPT ![t] = NULL] /\ wake' = [wake EXCEPT ![t] = "no"]
      /\ queue' = [l \in Scbs |-> Forget(queue[l], t)]
      /\ accepted' = [accepted EXCEPT ![t] = FALSE]
      /\ UNCHANGED <<FIDT, scb, freed, PortMap, pipe, corrupt>>
  BY DEF ConnectReturn, Woken, Return
<1>2. \A l \in Scbs : queue[l] \in Seq(Request)
  BY DEF SocketIInv, TypeOK, Request
<1>3. \A l \in Scbs : /\ queue'[l] \in Seq(Request) /\ Len(queue'[l]) = Len(queue[l])
                      /\ DOMAIN queue'[l] = DOMAIN queue[l]
                      /\ \A i \in DOMAIN queue'[l] : queue'[l][i].sock = queue[l][i].sock
  BY <1>1, <1>2, ForgetType
<1>4. TypeOK'
  <2>1. queue' \in [Scbs -> Seq(Request)]
    BY <1>1, <1>3
  <2> QED BY <1>1, <2>1 DEF SocketIInv, TypeOK, NULL, Request
<1>5. /\ Others(t) /\ pc'[t] = "run" /\ using'[t] = NULL
      /\ \A u \in Threads : u # t => wake'[u] = wake[u] /\ using'[u] = using[u]
  BY <1>1 DEF Others, SocketIInv, TypeOK
<1>6. \A l \in Scbs : \A i \in DOMAIN queue'[l] :
        \E j \in DOMAIN queue[l] : queue'[l][i].sock = queue[l][j].sock
  BY <1>3
<1> QED BY <1>1, <1>3, <1>4, <1>5, <1>6, QuietStep

\* Connect adds a request and wakes an acceptor for it, if there is one asleep.
LEMMA ConnectStep ==
  ASSUME SocketIInv, NEW t \in Threads, NEW f \in Fid, NEW port \in Ports, sys_Connect(t, f, port)
  PROVE  SocketIInv'
<1> DEFINE l == PortMap[port]
           c == FIDT[f]
           e == [sock |-> c, thr |-> t]
<1>1. /\ pc[t] = "run" /\ c # NULL /\ l # NULL /\ scb[c].type = "UNBOUND"
      /\ queue' = [queue EXCEPT ![l] = Append(@, e)] /\ wake' = SignalOne(l)
      /\ pc' = [pc EXCEPT ![t] = "connect"] /\ on' = [on EXCEPT ![t] = c]
      /\ accepted' = [accepted EXCEPT ![t] = FALSE]
      /\ UNCHANGED <<FIDT, scb, freed, PortMap, pipe, using, corrupt>>
  BY DEF sys_Connect, Running, Open, Sock, Sleep
<1>2. /\ l \in Made /\ c \in Made /\ l \in Scbs /\ c \in Scbs /\ c \in Nat
      /\ queue \in [Scbs -> Seq(Request)] /\ e \in Request
      /\ queue[l] \in Seq(Request)
  <2>1. l \in Made /\ c \in Made
    BY <1>1 DEF SocketIInv, MadeInv
  <2>2. queue \in [Scbs -> Seq(Request)]
    BY DEF SocketIInv, TypeOK, Request
  <2>3. Made \subseteq Scbs /\ Made \subseteq Nat
    BY SocketTypes DEF SocketIInv, Made
  <2> QED BY <2>1, <2>2, <2>3 DEF Request
<1> HIDE DEF l, c, e
<1>3. /\ queue' \in [Scbs -> Seq(Request)] /\ Len(queue'[l]) = Len(queue[l]) + 1
      /\ \A x \in Scbs : x # l => queue'[x] = queue[x]
      /\ Append(queue[l], e) = queue'[l]
  <2>1. queue'[l] = Append(queue[l], e) /\ \A x \in Scbs : x # l => queue'[x] = queue[x]
    BY <1>1, <1>2
  <2>2. Append(queue[l], e) \in Seq(Request) /\ Len(Append(queue[l], e)) = Len(queue[l]) + 1
    BY <1>2, AppendElement
  <2> QED BY <1>1, <1>2, <2>1, <2>2
<1>4. ASSUME NEW x \in Scbs, NEW i \in DOMAIN queue'[x]
      PROVE  queue'[x][i].sock \in Made /\ Client(queue'[x][i].sock)
  <2>1. CASE x # l
    BY <2>1, <1>3, <1>4 DEF SocketIInv, MadeInv, LinkInv
  <2>2. CASE x = l
    <3> DEFINE q == queue[l]
    <3>1. q \in Seq(Request)
      BY <1>2
    <3>2. i \in DOMAIN Append(q, e)
      BY <1>3, <1>4, <2>2
    <3> HIDE DEF q
    <3>3. \/ i \in DOMAIN q /\ Append(q, e)[i] = q[i]
          \/ Append(q, e)[i] = e
      BY <3>1, <3>2, <1>2
    <3>4. CASE i \in DOMAIN q /\ Append(q, e)[i] = q[i]
      BY <3>4, <2>2, <1>2, <1>3 DEF q, SocketIInv, MadeInv, LinkInv
    <3>5. CASE Append(q, e)[i] = e
      BY <3>5, <2>2, <1>1, <1>2, <1>3 DEF q, e, Client
    <3> QED BY <3>3, <3>4, <3>5
  <2> QED BY <2>1, <2>2
\* Somebody is signalled, if anybody sleeps at l.
<1>5. ASSUME NEW u \in Threads
      PROVE  /\ wake'[u] \in {wake[u], "signal"}
             /\ wake[u] = "no" => wake'[u] = "no" \/ u \in Acceptors(l)
  BY <1>1 DEF SignalOne, SocketIInv, TypeOK, Acceptors
<1>6. wake' \in [Threads -> {"no", "signal", "timeout"}]
  BY <1>1 DEF SignalOne, SocketIInv, TypeOK
<1>7. Acceptors(l) # {} => \E v \in Acceptors(l) : wake'[v] = "signal"
  <2> SUFFICES ASSUME Acceptors(l) # {} PROVE \E v \in Acceptors(l) : wake'[v] = "signal"
    OBVIOUS
  <2>1. PICK v : v = CHOOSE u \in Acceptors(l) : TRUE
    OBVIOUS
  <2>2. v \in Acceptors(l) /\ wake' = [wake EXCEPT ![v] = "signal"]
    BY <2>1, <1>1 DEF SignalOne
  <2>3. v \in Threads
    BY <2>2 DEF Acceptors
  <2> QED BY <2>2, <2>3 DEF SocketIInv, TypeOK
<1>8. TypeOK'
  BY <1>1, <1>2, <1>3, <1>6 DEF SocketIInv, TypeOK, Request
<1>9. Others(t) /\ pc'[t] = "connect"
  BY <1>1, <1>5 DEF Others, SocketIInv, TypeOK
<1>10. Made' = Made /\ KindInv' /\ PortInv'
  BY <1>1, StillMade
<1>11. MadeInv'
  <2>1. \A u \in Threads :
          /\ pc'[u] = "accept" => on'[u] \in Made
          /\ pc'[u] \in {"read", "write"} =>
               /\ using'[u] \in Made /\ scb'[using'[u]].type = "PEER"
               /\ on'[u] \in 2 .. 2 * Len(scb') + 1
    BY <1>1, <1>9 DEF Others, SocketIInv, MadeInv
  <2> QED BY <1>1, <1>4, <1>10, <2>1 DEF SocketIInv, MadeInv
<1>12. AcceptInv'
  <2> SUFFICES ASSUME NEW u \in Threads, pc'[u] = "accept", wake'[u] = "no",
                      scb'[on'[u]].type # "PEER"
               PROVE  (Listening(on[u]) /\ Len(queue[on[u]]) <= Cardinality(Awake(on[u])))'
    BY DEF AcceptInv
  <2> DEFINE x == on[u]
  <2>1. /\ u # t /\ pc[u] = "accept" /\ on'[u] = x /\ wake[u] = "no" /\ scb[x].type # "PEER"
    BY <1>1, <1>5, <1>9 DEF Others
  <2>2. /\ Listening(x) /\ Len(queue[x]) <= Cardinality(Awake(x)) /\ x \in Scbs
        /\ Len(queue[x]) \in Nat
    BY <2>1, AcceptorAt DEF SocketIInv, AcceptInv
  <2>3. Awake(x) \subseteq Awake(x)' /\ IsFiniteSet(Awake(x)) /\ IsFiniteSet(Awake(x)')
    <3>1. Awake(x) \subseteq Threads /\ Awake(x)' \subseteq Threads
      BY DEF Awake
    <3>2. Awake(x) \subseteq Awake(x)'
      BY <1>1, <1>9, <2>1 DEF Awake, Others
    <3> QED BY <3>1, <3>2, SocketAssumption, FS_Subset
  <2>4. /\ Cardinality(Awake(x)) <= Cardinality(Awake(x)')
        /\ Cardinality(Awake(x)) \in Nat /\ Cardinality(Awake(x)') \in Nat
    BY <2>3, FS_Subset, FS_CardinalityType
  <2>5. CASE x # l
    BY <2>1, <2>2, <2>4, <2>5, <1>1, <1>3 DEF Listening
  <2>6. CASE x = l
    <3>1. u \in Acceptors(l)
      BY <2>1, <2>6 DEF Acceptors
    <3>2. PICK v \in Acceptors(l) : wake'[v] = "signal"
      BY <3>1, <1>7
    <3>3. v \in Threads /\ pc[v] = "accept" /\ on[v] = x /\ wake[v] = "no" /\ v # t
      BY <3>2, <2>6, <1>1 DEF Acceptors
    <3>4. v \notin Awake(x) /\ Awake(x) \cup {v} \subseteq Awake(x)'
      BY <2>1, <2>3, <3>2, <3>3, <1>9 DEF Awake, Others
    <3>5. /\ Cardinality(Awake(x) \cup {v}) = Cardinality(Awake(x)) + 1
          /\ Cardinality(Awake(x) \cup {v}) <= Cardinality(Awake(x)')
      BY <2>3, <3>4, FS_AddElement, FS_Subset
    <3>6. Len(queue'[x]) <= Cardinality(Awake(x)')
      BY <2>2, <2>4, <2>6, <3>5, <1>3
    <3> QED BY <2>1, <2>2, <3>6, <1>1 DEF Listening
  <2> QED BY <2>5, <2>6
<1>13. LinkInv'
  <2>1. ASSUME NEW x \in Scbs, NEW i \in DOMAIN queue'[x]
        PROVE  Client(queue[x][i].sock)'
    BY <1>1, <1>4 DEF Client
  <2> QED BY <1>1, <1>10, <2>1 DEF SocketIInv, LinkInv
<1>14. EndsInv'
  BY <1>1, <1>10 DEF SocketIInv, EndsInv
<1>15. SleepInv'
  <2>1. SleepInv /\ pc'[t] \notin {"read", "write"}
    BY <1>9 DEF SocketIInv
  <2> QED BY <2>1, <1>1, <1>9, SleepFrame
<1> QED BY <1>8, <1>10, <1>11, <1>12, <1>13, <1>14, <1>15 DEF SocketIInv

-----------------------------------------------------------------------------
(* Sockets: the pipes.                                                     *)

\* A byte is taken or put: the pipe keeps its type and its ends, and whoever
\* slept at it and can go on now is woken.
LEMMA TransferIdle ==
  ASSUME SocketIInv, NEW t \in Threads, NEW p \in Pipes, NEW ps, NEW w, NEW other,
         \/ ps = Taken(p) /\ other = "write"
         \/ Writable(p) /\ ps = Put(p) /\ other = "read",
         w = MovedWakes(t, p, other)
  PROVE  /\ ps \in [Pipes -> PipeType] /\ w \in [Threads -> {"no", "signal", "timeout"}]
         /\ \A q \in Pipes : q # p => ps[q] = pipe[q]
         /\ ps[p].freed = pipe[p].freed
         /\ w[t] = "no" /\ \A u \in Threads : u # t /\ wake[u] # "no" => w[u] # "no"
         /\ Idle(ps, w, Threads \ {t})
<1>1. pipe \in [Pipes -> PipeType] /\ BUFF_SIZE \in Nat /\ wake \in [Threads -> {"no", "signal", "timeout"}]
  BY SocketTypes DEF SocketIInv, TypeOK, PipeType
<1>2. /\ ps \in [Pipes -> PipeType] /\ \A q \in Pipes : q # p => ps[q] = pipe[q]
      /\ ps[p].freed = pipe[p].freed
  <2>1. CASE ps = Taken(p)
    <3> DEFINE d == IF pipe[p].data > 0 THEN pipe[p].data - 1 ELSE pipe[p].data
    <3>1. d \in 0 .. BUFF_SIZE /\ pipe[p] \in PipeType
      BY <1>1 DEF PipeType
    <3>2. ps = [pipe EXCEPT ![p] = [pipe[p] EXCEPT !.data = d]]
      BY <2>1 DEF Taken
    <3> HIDE DEF d
    <3>3. [pipe[p] EXCEPT !.data = d] \in PipeType /\ [pipe[p] EXCEPT !.data = d].freed = pipe[p].freed
      BY <3>1 DEF PipeType
    <3> QED BY <1>1, <3>2, <3>3
  <2>2. CASE Writable(p) /\ ps = Put(p)
    <3> DEFINE d == pipe[p].data + 1
    <3>1. d \in 0 .. BUFF_SIZE /\ pipe[p] \in PipeType
      BY <1>1, <2>2 DEF PipeType, Writable
    <3>2. ps = [pipe EXCEPT ![p] = [pipe[p] EXCEPT !.data = d]]
      BY <2>2 DEF Put
    <3> HIDE DEF d
    <3>3. [pipe[p] EXCEPT !.data = d] \in PipeType /\ [pipe[p] EXCEPT !.data = d].freed = pipe[p].freed
      BY <3>1 DEF PipeType
    <3> QED BY <1>1, <3>2, <3>3
  <2> QED BY <2>1, <2>2
<1>3. /\ w \in [Threads -> {"no", "signal", "timeout"}]
      /\ w[t] = "no" /\ \A u \in Threads : u # t => w[u] = IF wake[u] = "no" /\ pc[u] \in {other} /\ on[u] = p
                                                          THEN "signal" ELSE wake[u]
  BY <1>1 DEF MovedWakes, Broadcast
<1>4. ASSUME NEW u \in Threads \ {t}, w[u] = "no", pc[u] \in {"read", "write"}
      PROVE  /\ pc[u] = "read" => ps[on[u]].data = 0 /\ ~ ps[on[u]].writer_closed
             /\ pc[u] = "write" => ps[on[u]].data = BUFF_SIZE /\ ~ ps[on[u]].freed
  <2>1. wake[u] = "no" /\ ~ (on[u] = p /\ pc[u] = other)
    BY <1>3, <1>4
  <2>2. on[u] \in Pipes
    BY <1>4, SocketTypes DEF SocketIInv, MadeInv
  <2>3. /\ pc[u] = "read" => pipe[on[u]].data = 0 /\ ~ pipe[on[u]].writer_closed
        /\ pc[u] = "write" => pipe[on[u]].data = BUFF_SIZE /\ ~ pipe[on[u]].freed
    BY <2>1 DEF SocketIInv, SleepInv, Idle
  <2>4. CASE on[u] # p
    <3>1. ps[on[u]] = pipe[on[u]]
      BY <1>2, <2>2, <2>4
    <3> QED BY <2>3, <3>1, <1>4
  <2>5. CASE on[u] = p
    <3>1. CASE ps = Taken(p) /\ other = "write"
      <4>1. pc[u] = "read" /\ pipe[p].data = 0 /\ ~ pipe[p].writer_closed
        BY <1>4, <2>1, <2>3, <2>5, <3>1
      <4>2. ps[p] = [pipe[p] EXCEPT !.data = pipe[p].data] /\ pipe[p] \in PipeType
        BY <1>1, <3>1, <4>1 DEF Taken
      <4> QED BY <2>5, <4>1, <4>2 DEF PipeType
    <3>2. CASE Writable(p) /\ ps = Put(p) /\ other = "read"
      <4>1. pc[u] = "write" /\ pipe[p].data = BUFF_SIZE
        BY <1>4, <2>1, <2>3, <2>5, <3>2
      <4> QED BY <1>1, <3>2, <4>1 DEF Writable
    <3> QED BY <3>1, <3>2
  <2> QED BY <2>4, <2>5
<1>5. Idle(ps, w, Threads \ {t})
  BY <1>4 DEF Idle
<1> QED BY <1>2, <1>3, <1>5

\* A closed end wakes whoever it concerns.
LEMMA ShutIdle ==
  ASSUME SocketIInv, NEW t \in Threads, NEW s \in Made, NEW how \in SUBSET {"read", "write"},
         NEW ps \in [Pipes -> PipeType], NEW w \in [Threads -> {"no", "signal", "timeout"}],
         Idle(ps, w, Threads \ {t})
  PROVE  /\ ShutPipes(s, how, ps) \in [Pipes -> PipeType]
         /\ ShutWakes(s, how, w) \in [Threads -> {"no", "signal", "timeout"}]
         /\ \A u \in Threads : w[u] # "no" => ShutWakes(s, how, w)[u] # "no"
         /\ \A p \in Pipes : ShutPipes(s, how, ps)[p].freed =>
              ps[p].freed \/ ("read" \in how /\ p = scb[s].receive)
         /\ \A p \in Pipes : p # scb[s].receive /\ p # scb[s].send => ShutPipes(s, how, ps)[p] = ps[p]
         /\ Idle(ShutPipes(s, how, ps), ShutWakes(s, how, w), Threads \ {t})
<1> DEFINE qs == ShutPipes(s, how, ps)
           ws == ShutWakes(s, how, w)
           e(p) == IF p = scb[s].receive /\ "read" \in how
                   THEN [ps[p] EXCEPT !.writer_closed = TRUE, !.freed = TRUE]
                   ELSE IF p = scb[s].send /\ "write" \in how
                   THEN [ps[p] EXCEPT !.writer_closed = TRUE] ELSE ps[p]
<1>1. qs = [p \in Pipes |-> e(p)]
  BY DEF ShutPipes
<1>2. \A p \in Pipes : qs[p] = e(p)
  BY <1>1
<1>3. ASSUME NEW p \in Pipes
      PROVE  /\ e(p) \in PipeType
             /\ e(p).data = ps[p].data
             /\ e(p).freed => ps[p].freed \/ ("read" \in how /\ p = scb[s].receive)
             /\ e(p).writer_closed => \/ ps[p].writer_closed
                                      \/ p = scb[s].receive /\ "read" \in how
                                      \/ p = scb[s].send /\ "write" \in how
             /\ p # scb[s].receive /\ p # scb[s].send => e(p) = ps[p]
  <2>1. ps[p] \in PipeType
    OBVIOUS
  <2> QED BY <2>1 DEF PipeType
<1>4. qs \in [Pipes -> PipeType]
  <2> HIDE DEF e
  <2> QED BY <1>1, <1>3
<1>5. /\ ws \in [Threads -> {"no", "signal", "timeout"}]
      /\ \A u \in Threads : w[u] # "no" => ws[u] # "no"
      /\ \A u \in Threads : ws[u] = "no" =>
           /\ w[u] = "no"
           /\ on[u] # NULL => /\ pc[u] \in {"read", "write"} /\ on[u] = scb[s].receive => "read" \notin how
                              /\ pc[u] = "read" /\ on[u] = scb[s].send => "write" \notin how
  BY DEF ShutWakes
<1>6. ASSUME NEW u \in Threads \ {t}, ws[u] = "no", pc[u] \in {"read", "write"}
      PROVE  /\ pc[u] = "read" => qs[on[u]].data = 0 /\ ~ qs[on[u]].writer_closed
             /\ pc[u] = "write" => qs[on[u]].data = BUFF_SIZE /\ ~ qs[on[u]].freed
  <2>1. on[u] \in Pipes /\ on[u] # NULL
    BY <1>6, SocketTypes DEF SocketIInv, MadeInv, NULL
  <2>2. /\ pc[u] = "read" => ps[on[u]].data = 0 /\ ~ ps[on[u]].writer_closed
        /\ pc[u] = "write" => ps[on[u]].data = BUFF_SIZE /\ ~ ps[on[u]].freed
    BY <1>5, <1>6 DEF Idle
  <2>3. /\ on[u] = scb[s].receive => "read" \notin how
        /\ pc[u] = "read" /\ on[u] = scb[s].send => "write" \notin how
    BY <1>5, <1>6, <2>1
  <2>4. qs[on[u]] = e(on[u])
    BY <1>2, <2>1
  <2> HIDE DEF e, qs
  <2> QED BY <1>3, <2>1, <2>2, <2>3, <2>4
<1>7. Idle(qs, ws, Threads \ {t})
  <2> HIDE DEF qs, ws
  <2> QED BY <1>6 DEF Idle
<1>8. /\ \A p \in Pipes : qs[p].freed => ps[p].freed \/ ("read" \in how /\ p = scb[s].receive)
      /\ \A p \in Pipes : p # scb[s].receive /\ p # scb[s].send => qs[p] = ps[p]
  <2> HIDE DEF e, qs
  <2> QED BY <1>2, <1>3
<1> QED BY <1>4, <1>5, <1>7, <1>8

\* ShutDown of a peer takes the ends it names, and its peer's end of the pipe
\* that is freed.
LEMMA ShutEnds ==
  ASSUME SocketIInv, NEW s \in Made, scb[s].type = "PEER", NEW how \in SUBSET {"read", "write"},
         NEW k, k = Shut(s, how)
  PROVE  /\ Lesser(k, scb)
         /\ "read" \in how => k[s].receive = NULL
         /\ "read" \in how /\ scb[s].receive # NULL => k[scb[s].peer].send = NULL
<1>1. /\ scb \in Seq(ScbType) /\ s \in 1 .. Len(scb) /\ scb[s].peer \in Made /\ scb[s].peer # s
  BY SocketTypes DEF SocketIInv, LinkInv, Made
<1> DEFINE a == [scb EXCEPT ![s].receive = NULL]
           b == [a EXCEPT ![scb[s].peer].send = NULL]
           j == IF "read" \in how /\ scb[s].receive # NULL THEN ShutRead(s, scb) ELSE scb
<1>2. Lesser(a, scb) /\ a[s].receive = NULL
  BY <1>1, LoseEnd
<1>3. Lesser(b, a) /\ b[scb[s].peer].send = NULL
  <2>1. a \in Seq(ScbType) /\ scb[s].peer \in 1 .. Len(a)
    BY <1>1, <1>2 DEF Lesser, Made
  <2> HIDE DEF a
  <2> QED BY <2>1, LoseEnd
<1>4. ShutRead(s, scb) = b
  BY DEF ShutRead
<1>5. Lesser(b, scb) /\ b[s].receive = NULL
  <2> HIDE DEF a, b
  <2>1. Lesser(b, scb)
    BY <1>2, <1>3, LesserTrans
  <2>2. s \in 1 .. Len(a)
    BY <1>1, <1>2 DEF Lesser
  <2>3. b[s].receive \in {a[s].receive, NULL}
    BY <1>3, <2>2 DEF Lesser
  <2> QED BY <2>1, <2>3, <1>2
<1>6. /\ Lesser(j, scb)
      /\ "read" \in how => j[s].receive = NULL
      /\ "read" \in how /\ scb[s].receive # NULL => j[scb[s].peer].send = NULL
  <2> HIDE DEF a, b
  <2> QED BY <1>1, <1>3, <1>4, <1>5, LesserSelf
<1> HIDE DEF j
<1>7. k = IF "write" \in how THEN [j EXCEPT ![s].send = NULL] ELSE j
  BY DEF Shut, j
<1>8. CASE "write" \in how
  <2>1. j \in Seq(ScbType) /\ s \in 1 .. Len(j) /\ Len(j) = Len(scb)
    BY <1>1, <1>6 DEF Lesser
  <2>2. Lesser(k, j)
    BY <1>7, <1>8, <2>1, LoseEnd
  <2>3. Lesser(k, scb)
    BY <2>2, <1>6, LesserTrans
  <2>4. \A r \in Made : k[r].receive \in {j[r].receive, NULL} /\ k[r].send \in {j[r].send, NULL}
    BY <2>1, <2>2 DEF Lesser, Made
  <2> QED BY <2>3, <2>4, <1>1, <1>6
<1>9. CASE "write" \notin how
  BY <1>6, <1>7, <1>9
<1> QED BY <1>8, <1>9

\* The pipe that s receives from may be freed when s and its peer have given up
\* its ends: nobody else has one.
LEMMA FreedEnds ==
  ASSUME SocketIInv, NEW s \in Made, NEW how \in SUBSET {"read", "write"},
         Lesser(scb', scb),
         "read" \in how => scb'[s].receive = NULL,
         "read" \in how /\ scb[s].receive # NULL => scb'[scb[s].peer].send = NULL,
         \A p \in Pipes : pipe'[p].freed => pipe[p].freed \/ ("read" \in how /\ p = scb[s].receive),
         \A p \in Pipes : p > 2 * Len(scb) + 1 => pipe'[p] = pipe[p]
  PROVE  EndsInv'
<1>1. /\ Made' = Made /\ Len(scb') = Len(scb) /\ Len(scb) \in Nat
      /\ \A r \in Made : /\ scb'[r].send \in {scb[r].send, NULL}
                         /\ scb'[r].receive \in {scb[r].receive, NULL}
                         /\ scb[r] \in ScbType
  BY SocketTypes DEF Lesser, Made, SocketIInv
<1>2. ASSUME NEW r \in Made, scb'[r].send # NULL
      PROVE  ~ pipe'[scb'[r].send].freed
  <2>1. scb'[r].send = scb[r].send /\ scb[r].send # NULL /\ scb[r].send \in Pipes
    BY <1>1, <1>2 DEF ScbType
  <2>2. ~ pipe[scb[r].send].freed
    BY <2>1 DEF SocketIInv, EndsInv
  <2>3. ~ ("read" \in how /\ scb[r].send = scb[s].receive)
    <3> SUFFICES ASSUME "read" \in how, scb[r].send = scb[s].receive PROVE FALSE
      OBVIOUS
    <3>1. r = scb[s].peer
      BY <2>1, Crossed DEF SocketIInv
    <3> QED BY <3>1, <2>1, <1>2
  <2> QED BY <2>1, <2>2, <2>3
<1>3. ASSUME NEW r \in Made, scb'[r].receive # NULL
      PROVE  ~ pipe'[scb'[r].receive].freed
  <2>1. scb'[r].receive = scb[r].receive /\ scb[r].receive # NULL /\ scb[r].receive \in Pipes
    BY <1>1, <1>3 DEF ScbType
  <2>2. ~ pipe[scb[r].receive].freed
    BY <2>1 DEF SocketIInv, EndsInv
  <2>3. ~ ("read" \in how /\ scb[r].receive = scb[s].receive)
    <3> SUFFICES ASSUME "read" \in how, scb[r].receive = scb[s].receive PROVE FALSE
      OBVIOUS
    <3>1. r = s
      BY <2>1, Crossed DEF SocketIInv
    <3> QED BY <3>1, <1>3
  <2> QED BY <2>1, <2>2, <2>3
<1>4. \A p \in Pipes : p > 2 * Len(scb') + 1 => pipe'[p] = get_pipe
  BY <1>1 DEF SocketIInv, EndsInv
<1> QED BY <1>1, <1>2, <1>3, <1>4 DEF EndsInv

\* The pipes of a socket are not those to come.
LEMMA OldPipes ==
  ASSUME SocketIInv, NEW s \in Made, NEW p \in Pipes, p \in {scb[s].receive, scb[s].send}
  PROVE  ~ (p > 2 * Len(scb) + 1)
<1>1. /\ scb[s].type = "PEER"
      /\ scb[s].peer \in Made /\ scb[s].peer # s /\ p # NULL
  BY DEF SocketIInv, KindInv, LinkInv, Pipes, NULL
<1>2. Len(scb) \in Nat /\ s \in Nat /\ s <= Len(scb) /\ scb[s].peer \in Nat /\ scb[s].peer <= Len(scb)
  BY <1>1, SocketTypes DEF SocketIInv, Made
<1>3. p \in {In(s), Out(s), In(scb[s].peer), Out(scb[s].peer)}
  BY <1>1, <1>2 DEF SocketIInv, LinkInv
<1> QED BY <1>2, <1>3 DEF In, Out

\* A step that only takes ends, wakes threads and frees what is not a listener.
LEMMA PipeStep ==
  ASSUME SocketIInv, NEW t \in Threads, Others(t), TypeOK', Lesser(scb', scb), EndsInv',
         UNCHANGED <<PortMap, queue>>, pc[t] # "accept", pc'[t] # "accept",
         pc'[t] \in {"read", "write"} =>
           /\ using'[t] \in Made /\ scb[using'[t]].type = "PEER" /\ on'[t] \in 2 .. 2 * Len(scb) + 1
           /\ wake'[t] = "no" =>
                /\ pc'[t] = "read" => pipe'[on'[t]].data = 0 /\ ~ pipe'[on'[t]].writer_closed
                /\ pc'[t] = "write" => pipe'[on'[t]].data = BUFF_SIZE /\ ~ pipe'[on'[t]].freed,
         Idle(pipe', wake', Threads \ {t}),
         freed \subseteq freed', freed' \subseteq Made,
         \A s \in Made : s \in freed' /\ s \notin freed => scb[s].type # "LISTENER",
         \A f \in Fid : FIDT'[f] # NULL => FIDT'[f] \in Made \ freed',
         \A u \in Threads : using'[u] # NULL => using'[u] \in Made \ freed',
         \A u \in Threads : u # t => using'[u] = using[u]
  PROVE  SocketIInv'
<1>1. \A l \in Scbs : \A i \in DOMAIN queue'[l] :
        \E j \in DOMAIN queue[l] : queue'[l][i].sock = queue[l][j].sock
  OBVIOUS
<1>2. pc'[t] \in {"run", "connect", "accept", "read", "write"}
  BY DEF TypeOK
<1>3. MadeInv'
  BY <1>1, <1>2, MadeFrame
<1>4. Made' = Made /\ KindInv' /\ LinkInv'
  BY <1>1, LesserKept
<1>5. PortInv'
  BY FreeKept
<1>6. AcceptInv'
  <2>1. ASSUME NEW u \in Threads, pc[u] = "accept", wake[u] = "no", scb'[on[u]].type # "PEER"
        PROVE  /\ scb[on[u]].type # "PEER"
               /\ Listening(on[u]) => scb'[on[u]].type = "LISTENER" /\ on[u] \notin freed'
               /\ Len(queue'[on[u]]) <= Len(queue[on[u]]) /\ Len(queue'[on[u]]) \in Nat
    <3>1. on[u] \in Made /\ Len(queue[on[u]]) \in Nat
      BY <2>1, AcceptorAt
    <3>2. scb'[on[u]].type = scb[on[u]].type
      BY <3>1 DEF Lesser, Made
    <3> QED BY <2>1, <3>1, <3>2 DEF Listening
  <2> QED BY <2>1, AcceptFrame
<1>7. SleepInv'
  <2>1. ASSUME NEW u \in Threads, wake'[u] = "no"
        PROVE  /\ pc'[u] = "read" => pipe'[on'[u]].data = 0 /\ ~ pipe'[on'[u]].writer_closed
               /\ pc'[u] = "write" => pipe'[on'[u]].data = BUFF_SIZE /\ ~ pipe'[on'[u]].freed
    <3>1. CASE u = t
      BY <3>1, <2>1
    <3>2. CASE u # t
      BY <3>2, <2>1 DEF Others, Idle
    <3> QED BY <3>1, <3>2
  <2> QED BY <2>1 DEF SleepInv, Idle
<1> QED BY <1>3, <1>4, <1>5, <1>6, <1>7 DEF SocketIInv

\* Read and Write: a byte goes through, or the caller sleeps because none can.
LEMMA ReadWriteStep ==
  ASSUME SocketIInv, NEW t \in Threads, NEW f \in Fid,
         \/ socket_read(t, f)
         \/ socket_write(t, f)
  PROVE  SocketIInv'
<1> DEFINE s == FIDT[f]
           Moves(p) ==
             \/ pipe' = Taken(p) /\ wake' = MovedWakes(t, p, "write")
             \/ Writable(p) /\ pipe' = Put(p) /\ wake' = MovedWakes(t, p, "read")
           Does(p, label) ==
             /\ p = (IF label = "read" THEN scb[s].receive ELSE scb[s].send) /\ p # NULL
             /\ pc[t] = "run" /\ FIDT[f] # NULL /\ scb[s].type = "PEER"
             /\ \/ Moves(p) /\ UNCHANGED <<pc, on, using>>
                \/ /\ label = "read" => ~ Readable(p)
                   /\ label = "write" => ~ Writable(p)
                   /\ Sleep(t, label, p) /\ using' = [using EXCEPT ![t] = s] /\ UNCHANGED <<pipe, wake>>
             /\ UNCHANGED <<FIDT, scb, freed, PortMap, queue, accepted, corrupt>>
<1>0. \E p : \E label \in {"read", "write"} : Does(p, label)
  <2>1. CASE socket_read(t, f)
    <3>1. Does(scb[s].receive, "read")
      BY <2>1 DEF socket_read, Running, Open, Sock, IsPeer
    <3> HIDE DEF Does
    <3> QED BY <3>1
  <2>2. CASE socket_write(t, f)
    <3>1. Does(scb[s].send, "write")
      BY <2>2 DEF socket_write, Running, Open, Sock, IsPeer
    <3> HIDE DEF Does
    <3> QED BY <3>1
  <2> QED BY <2>1, <2>2
<1>p. PICK p : \E label \in {"read", "write"} : Does(p, label)
  BY <1>0
<1>1. PICK label \in {"read", "write"} : Does(p, label)
  BY <1>p
<1>2. /\ s \in Made /\ s \notin freed /\ s \in Scbs /\ p \in Pipes /\ scb[s] \in ScbType
      /\ ~ pipe[p].freed /\ p \in Nat
  <2>1. s \in Made /\ s \notin freed
    BY <1>1 DEF SocketIInv, MadeInv
  <2>2. s \in Scbs /\ scb[s] \in ScbType
    BY <2>1, SocketTypes DEF SocketIInv
  <2>3. p \in Pipes
    BY <1>1, <2>2 DEF ScbType
  <2>4. ~ pipe[p].freed
    BY <1>1, <2>1 DEF SocketIInv, EndsInv
  <2> QED BY <2>1, <2>2, <2>3, <2>4 DEF Pipes
<1>3. Lesser(scb', scb)
  BY <1>1, SocketTypes, LesserSelf DEF SocketIInv
<1>4. /\ freed \subseteq freed' /\ freed' \subseteq Made
      /\ \A g \in Fid : FIDT'[g] # NULL => FIDT'[g] \in Made \ freed'
      /\ \A r \in Made : r \in freed' /\ r \notin freed => scb[r].type # "LISTENER"
      /\ \A u \in Threads : using[u] # NULL => using[u] \in Made \ freed'
      /\ Made' = Made
  BY <1>1 DEF SocketIInv, MadeInv, Made
<1>5. CASE Moves(p) /\ UNCHANGED <<pc, on, using>>
  <2>1. PICK other : /\ wake' = MovedWakes(t, p, other)
                     /\ \/ pipe' = Taken(p) /\ other = "write"
                        \/ Writable(p) /\ pipe' = Put(p) /\ other = "read"
    BY <1>5
  <2>2. /\ pipe' \in [Pipes -> PipeType] /\ wake' \in [Threads -> {"no", "signal", "timeout"}]
        /\ \A q \in Pipes : q # p => pipe'[q] = pipe[q]
        /\ pipe'[p].freed = pipe[p].freed
        /\ wake'[t] = "no" /\ \A u \in Threads : u # t /\ wake[u] # "no" => wake'[u] # "no"
        /\ Idle(pipe', wake', Threads \ {t})
    <3> DEFINE w == MovedWakes(t, p, other)
               ps == pipe'
    <3>1. \/ ps = Taken(p) /\ other = "write"
          \/ Writable(p) /\ ps = Put(p) /\ other = "read"
      BY <2>1
    <3> HIDE DEF ps
    <3>2. /\ ps \in [Pipes -> PipeType] /\ w \in [Threads -> {"no", "signal", "timeout"}]
          /\ \A q \in Pipes : q # p => ps[q] = pipe[q]
          /\ ps[p].freed = pipe[p].freed
          /\ w[t] = "no" /\ \A u \in Threads : u # t /\ wake[u] # "no" => w[u] # "no"
          /\ Idle(ps, w, Threads \ {t})
      BY <3>1, <1>2, TransferIdle
    <3>3. wake' = w
      BY <2>1
    <3> QED BY <3>2, <3>3 DEF ps
  <2>3. TypeOK'
    BY <1>1, <1>5, <2>2 DEF SocketIInv, TypeOK, PipeType
  <2>4. Others(t) /\ pc'[t] = "run"
    BY <1>1, <1>5, <2>2 DEF Others
  <2>5. EndsInv'
    <3>1. \A q \in Pipes : pipe'[q].freed = pipe[q].freed
      BY <2>2
    <3>2. ~ (p > 2 * Len(scb) + 1)
      BY <1>1, <1>2, OldPipes
    <3>3. ASSUME NEW r \in Made
          PROVE  /\ scb[r].send # NULL => scb[r].send \in Pipes
                 /\ scb[r].receive # NULL => scb[r].receive \in Pipes
      <4>1. scb[r] \in ScbType
        BY SocketTypes DEF SocketIInv
      <4> QED BY <4>1 DEF ScbType
    <3>4. \A q \in Pipes : q > 2 * Len(scb) + 1 => pipe'[q] = get_pipe
      BY <2>2, <3>2 DEF SocketIInv, EndsInv
    <3> QED BY <1>1, <1>4, <3>1, <3>3, <3>4 DEF SocketIInv, EndsInv
  <2>6. /\ pc'[t] \notin {"read", "write", "accept"} /\ pc[t] # "accept"
        /\ \A u \in Threads : using'[u] = using[u]
        /\ UNCHANGED <<PortMap, queue>>
    BY <1>1, <1>5
  <2> QED BY <1>3, <1>4, <2>2, <2>3, <2>4, <2>5, <2>6, PipeStep
<1>6. CASE /\ label = "read" => ~ Readable(p)
           /\ label = "write" => ~ Writable(p)
           /\ Sleep(t, label, p) /\ using' = [using EXCEPT ![t] = s] /\ UNCHANGED <<pipe, wake>>
  <2>1. /\ pc' = [pc EXCEPT ![t] = label] /\ on' = [on EXCEPT ![t] = p]
        /\ using' = [using EXCEPT ![t] = s] /\ UNCHANGED <<pipe, wake>>
    BY <1>6 DEF Sleep
  <2> HIDE DEF s
  <2>2. /\ TypeOK' /\ Others(t) /\ pc'[t] = label /\ on'[t] = p /\ using'[t] = s
        /\ \A u \in Threads : u # t => using'[u] = using[u]
    <3>1. TypeOK'
      BY <1>1, <1>2, <2>1 DEF SocketIInv, TypeOK
    <3>2. /\ Others(t) /\ pc'[t] = label /\ on'[t] = p /\ using'[t] = s
          /\ \A u \in Threads : u # t => using'[u] = using[u]
      BY <1>2, <2>1 DEF Others, SocketIInv, TypeOK
    <3> QED BY <3>1, <3>2
  <2>3. EndsInv'
    BY <1>1, <1>4, <2>1 DEF SocketIInv, EndsInv
  <2>4. Idle(pipe', wake', Threads \ {t})
    BY <2>1 DEF SocketIInv, SleepInv, Idle
  <2>5. \A u \in Threads : using'[u] # NULL => using'[u] \in Made \ freed'
    <3> SUFFICES ASSUME NEW u \in Threads, using'[u] # NULL PROVE using'[u] \in Made \ freed'
      OBVIOUS
    <3>1. CASE u = t
      BY <3>1, <1>1, <1>2, <2>2
    <3>2. CASE u # t
      BY <3>2, <2>2, <1>4
    <3> QED BY <3>1, <3>2
  <2>6. pipe[p] \in PipeType /\ BUFF_SIZE \in Nat
    BY <1>2, SocketTypes DEF SocketIInv, TypeOK, PipeType
  <2>7. /\ label = "read" => pipe'[p].data = 0 /\ ~ pipe'[p].writer_closed
        /\ label = "write" => pipe'[p].data = BUFF_SIZE /\ ~ pipe'[p].freed
    BY <1>2, <1>6, <2>1, <2>6 DEF Readable, Writable, PipeType
  <2>8. p \in 2 .. 2 * Len(scb) + 1
    <3>1. ~ (p > 2 * Len(scb) + 1)
      BY <1>1, <1>2, OldPipes
    <3>2. Len(scb) \in Nat /\ p >= 2
      BY <1>2, SocketTypes DEF SocketIInv, Pipes
    <3> QED BY <1>2, <3>1, <3>2
  <2>9. /\ pc[t] # "accept" /\ pc'[t] # "accept"
        /\ UNCHANGED <<PortMap, queue>>
    BY <1>1, <2>2
  <2> QED BY <1>1, <1>2, <1>3, <1>4, <2>2, <2>3, <2>4, <2>5, <2>7, <2>8, <2>9, PipeStep
<1> QED BY <1>1, <1>5, <1>6

\* ShutDown.
LEMMA ShutDownStep ==
  ASSUME SocketIInv, NEW t \in Threads, NEW f \in Fid, NEW how \in SUBSET {"read", "write"},
         sys_ShutDown(t, f, how)
  PROVE  SocketIInv'
<1> DEFINE s == FIDT[f]
<1>1. /\ pc[t] = "run" /\ FIDT[f] # NULL /\ scb[s].type = "PEER"
      /\ scb' = Shut(s, how) /\ pipe' = ShutPipes(s, how, pipe) /\ wake' = ShutWakes(s, how, wake)
      /\ UNCHANGED <<FIDT, freed, PortMap, queue, pc, on, using, accepted>>
      /\ corrupt' \in BOOLEAN
  BY DEF sys_ShutDown, Running, Open, Sock, IsPeer, Writes, ShutDangles
<1>2. s \in Made
  BY <1>1 DEF SocketIInv, MadeInv
<1>3. /\ Lesser(scb', scb)
      /\ "read" \in how => scb'[s].receive = NULL
      /\ "read" \in how /\ scb[s].receive # NULL => scb'[scb[s].peer].send = NULL
  <2> HIDE DEF s
  <2> QED BY <1>1, <1>2, ShutEnds
<1>4. /\ pipe \in [Pipes -> PipeType] /\ wake \in [Threads -> {"no", "signal", "timeout"}]
      /\ Idle(pipe, wake, Threads \ {t})
  BY DEF SocketIInv, TypeOK, PipeType, SleepInv, Idle
<1>5. /\ pipe' \in [Pipes -> PipeType] /\ wake' \in [Threads -> {"no", "signal", "timeout"}]
      /\ \A u \in Threads : wake[u] # "no" => wake'[u] # "no"
      /\ \A p \in Pipes : pipe'[p].freed => pipe[p].freed \/ ("read" \in how /\ p = scb[s].receive)
      /\ \A p \in Pipes : p # scb[s].receive /\ p # scb[s].send => pipe'[p] = pipe[p]
      /\ Idle(pipe', wake', Threads \ {t})
  <2> HIDE DEF s
  <2>1. /\ ShutPipes(s, how, pipe) \in [Pipes -> PipeType]
        /\ ShutWakes(s, how, wake) \in [Threads -> {"no", "signal", "timeout"}]
        /\ \A u \in Threads : wake[u] # "no" => ShutWakes(s, how, wake)[u] # "no"
        /\ \A p \in Pipes : ShutPipes(s, how, pipe)[p].freed =>
             pipe[p].freed \/ ("read" \in how /\ p = scb[s].receive)
        /\ \A p \in Pipes : p # scb[s].receive /\ p # scb[s].send => ShutPipes(s, how, pipe)[p] = pipe[p]
        /\ Idle(ShutPipes(s, how, pipe), ShutWakes(s, how, wake), Threads \ {t})
    BY <1>2, <1>4, ShutIdle
  <2> QED BY <1>1, <2>1
<1>6. EndsInv'
  <2>1. \A p \in Pipes : p > 2 * Len(scb) + 1 => pipe'[p] = pipe[p]
    BY <1>2, <1>5, OldPipes
  <2> HIDE DEF s
  <2> QED BY <1>2, <1>3, <1>5, <2>1, FreedEnds
<1>7. TypeOK'
  <2>1. scb' \in Seq(ScbType)
    BY <1>3 DEF Lesser
  <2> QED BY <1>1, <1>5, <2>1 DEF SocketIInv, TypeOK, PipeType, ScbType
<1>8. Others(t)
  BY <1>1, <1>5 DEF Others
<1>9. /\ freed \subseteq freed' /\ freed' \subseteq Made
      /\ \A g \in Fid : FIDT'[g] # NULL => FIDT'[g] \in Made \ freed'
      /\ \A r \in Made : r \in freed' /\ r \notin freed => scb[r].type # "LISTENER"
      /\ \A u \in Threads : using'[u] # NULL => using'[u] \in Made \ freed'
      /\ \A u \in Threads : using'[u] = using[u]
      /\ pc[t] # "accept" /\ pc'[t] \notin {"accept", "read", "write"}
      /\ UNCHANGED <<PortMap, queue>>
  BY <1>1 DEF SocketIInv, MadeInv
<1> QED BY <1>3, <1>5, <1>6, <1>7, <1>8, <1>9, PipeStep

\* The last reference to a peer goes: ClosePeer takes ends, of whichever socket is
\* open at its descriptor, and frees a pipe that nobody has an end of.
LEMMA ClosePeerEnds ==
  ASSUME SocketIInv, NEW t \in Threads, NEW s \in Made, scb[s].type = "PEER",
         NEW tb, tb[scb[s].fid] \in Made \cup {NULL},
         NEW ps \in [Pipes -> PipeType], NEW w \in [Threads -> {"no", "signal", "timeout"}],
         Idle(ps, w, Threads \ {t}),
         \A p \in Pipes : ps[p].freed = pipe[p].freed,
         \A p \in Pipes : p > 2 * Len(scb) + 1 => ps[p] = pipe[p],
         \A u \in Threads : u # t /\ wake[u] # "no" => w[u] # "no",
         ClosePeer(t, s, tb, ps, w)
  PROVE  /\ Lesser(scb', scb) /\ UNCHANGED PortMap /\ EndsInv'
         /\ pipe' \in [Pipes -> PipeType] /\ wake' \in [Threads -> {"no", "signal", "timeout"}]
         /\ \A u \in Threads : u # t /\ wake[u] # "no" => wake'[u] # "no"
         /\ Idle(pipe', wake', Threads \ {t}) /\ corrupt' \in BOOLEAN
<1> DEFINE v == tb[scb[s].fid]
           both == {"read", "write"}
           hit == v # NULL /\ IsPeer(v)
           k == IF hit THEN Shut(v, both) ELSE scb
           x == IF hit THEN ShutWakes(v, both, w) ELSE w
           q == scb[s].peer
<1>1. /\ scb' = [k EXCEPT ![q].receive = NULL]
      /\ pipe' = IF hit THEN ShutPipes(v, both, ps) ELSE ps
      /\ wake' = [x EXCEPT ![t] = "no"] /\ UNCHANGED PortMap
      /\ corrupt' \in BOOLEAN
  BY DEF ClosePeer, Writes
<1>2. q \in Made /\ scb \in Seq(ScbType)
  BY SocketTypes DEF SocketIInv, LinkInv
<1>3. hit => v \in Made /\ scb[v].type = "PEER"
  BY DEF IsPeer
<1>4. both \in SUBSET {"read", "write"} /\ "read" \in both
  OBVIOUS
<1> HIDE DEF both, v, q
<1>5. /\ Lesser(k, scb)
      /\ hit => k[v].receive = NULL
      /\ hit /\ scb[v].receive # NULL => k[scb[v].peer].send = NULL
  <2>1. CASE hit
    BY <2>1, <1>3, <1>4, ShutEnds
  <2>2. CASE ~ hit
    BY <2>2, <1>2, LesserSelf
  <2> QED BY <2>1, <2>2
<1>6. /\ pipe' \in [Pipes -> PipeType] /\ x \in [Threads -> {"no", "signal", "timeout"}]
      /\ \A u \in Threads : w[u] # "no" => x[u] # "no"
      /\ \A p \in Pipes : pipe'[p].freed => ps[p].freed \/ (hit /\ p = scb[v].receive)
      /\ \A p \in Pipes : p > 2 * Len(scb) + 1 => pipe'[p] = ps[p]
      /\ Idle(pipe', x, Threads \ {t})
  <2>1. CASE hit
    <3>1. pipe' = ShutPipes(v, both, ps) /\ x = ShutWakes(v, both, w)
      BY <2>1, <1>1
    <3>2. /\ pipe' \in [Pipes -> PipeType] /\ x \in [Threads -> {"no", "signal", "timeout"}]
          /\ \A u \in Threads : w[u] # "no" => x[u] # "no"
          /\ \A p \in Pipes : pipe'[p].freed => ps[p].freed \/ ("read" \in both /\ p = scb[v].receive)
          /\ \A p \in Pipes : p # scb[v].receive /\ p # scb[v].send => pipe'[p] = ps[p]
          /\ Idle(pipe', x, Threads \ {t})
      <4>1. v \in Made
        BY <2>1, <1>3
      <4>2. /\ ShutPipes(v, both, ps) \in [Pipes -> PipeType]
            /\ ShutWakes(v, both, w) \in [Threads -> {"no", "signal", "timeout"}]
            /\ \A u \in Threads : w[u] # "no" => ShutWakes(v, both, w)[u] # "no"
            /\ \A p \in Pipes : ShutPipes(v, both, ps)[p].freed =>
                 ps[p].freed \/ ("read" \in both /\ p = scb[v].receive)
            /\ \A p \in Pipes : p # scb[v].receive /\ p # scb[v].send => ShutPipes(v, both, ps)[p] = ps[p]
            /\ Idle(ShutPipes(v, both, ps), ShutWakes(v, both, w), Threads \ {t})
        BY <4>1, <1>4, ShutIdle
      <4> HIDE DEF x, hit
      <4> QED BY <3>1, <4>2
    <3>3. \A p \in Pipes : p > 2 * Len(scb) + 1 => p # scb[v].receive /\ p # scb[v].send
      BY <2>1, <1>3, OldPipes
    <3> QED BY <3>2, <3>3, <2>1
  <2>2. CASE ~ hit
    BY <2>2, <1>1
  <2> QED BY <2>1, <2>2
<1> HIDE DEF k, x, hit
<1>7. Lesser(scb', k)
  <2>1. k \in Seq(ScbType) /\ q \in 1 .. Len(k)
    BY <1>2, <1>5 DEF Lesser, Made
  <2> QED BY <2>1, <1>1, LoseEnd
<1>8. Lesser(scb', scb)
  BY <1>5, <1>7, LesserTrans
<1>9. /\ hit => scb'[v].receive = NULL
      /\ hit /\ scb[v].receive # NULL => scb'[scb[v].peer].send = NULL
  <2>1. \A r \in Made : scb'[r].receive \in {k[r].receive, NULL} /\ scb'[r].send \in {k[r].send, NULL}
    BY <1>5, <1>7 DEF Lesser, Made
  <2>2. hit => v \in Made /\ scb[v].peer \in Made
    BY <1>3 DEF SocketIInv, LinkInv
  <2> QED BY <1>5, <2>1, <2>2
<1>10. EndsInv'
  <2>1. CASE hit
    BY <2>1, <1>3, <1>4, <1>6, <1>8, <1>9, FreedEnds
  <2>2. CASE ~ hit
    <3>1. PICK how \in SUBSET {"read", "write"} : how = {}
      OBVIOUS
    <3>2. /\ "read" \notin how
          /\ \A p \in Pipes : pipe'[p].freed => pipe[p].freed \/ ("read" \in how /\ p = scb[s].receive)
          /\ \A p \in Pipes : p > 2 * Len(scb) + 1 => pipe'[p] = pipe[p]
      BY <2>2, <3>1, <1>6
    <3> QED BY <3>2, <1>8, FreedEnds
  <2> QED BY <2>1, <2>2
<1>11. /\ wake' \in [Threads -> {"no", "signal", "timeout"}]
       /\ \A u \in Threads : u # t => wake'[u] = x[u]
  BY <1>1, <1>6
<1>12. Idle(pipe', wake', Threads \ {t})
  BY <1>6, <1>11 DEF Idle
<1> QED BY <1>1, <1>6, <1>8, <1>10, <1>11, <1>12

\* Close.
LEMMA CloseStep ==
  ASSUME SocketIInv, NEW t \in Threads, NEW f \in Fid, sys_Close(t, f)
  PROVE  SocketIInv'
<1> DEFINE s == FIDT[f]
           tb == [FIDT EXCEPT ![f] = NULL]
<1>1. /\ pc[t] = "run" /\ FIDT[f] # NULL /\ FIDT' = tb
      /\ IF Referenced(s, tb, using)
         THEN UNCHANGED <<scb, freed, PortMap, pipe, wake, corrupt>>
         ELSE socket_close(t, s, tb) /\ freed' = freed \cup {s}
      /\ UNCHANGED <<queue, pc, on, using, accepted>>
  BY DEF sys_Close, Running, Open, Sock
<1>2. /\ s \in Made /\ s \notin freed /\ s \in Scbs /\ scb[s] \in ScbType /\ scb \in Seq(ScbType)
      /\ freed \subseteq Made /\ Made \subseteq Scbs
  <2>1. s \in Made /\ s \notin freed
    BY <1>1 DEF SocketIInv, MadeInv
  <2> QED BY <2>1, SocketTypes DEF SocketIInv, MadeInv
<1>3. FIDT' \in [Fid -> Scbs \cup {NULL}] /\ \A g \in Fid : FIDT'[g] \in {FIDT[g], NULL}
  BY <1>1 DEF SocketIInv, TypeOK
<1>4. pc[t] # "accept" /\ pc'[t] \notin {"accept", "read", "write"} /\ UNCHANGED queue
      /\ \A u \in Threads : using'[u] = using[u]
  BY <1>1
<1>5. CASE Referenced(s, tb, using)
  <2>1. UNCHANGED <<scb, freed, PortMap, pipe, wake, corrupt>>
    BY <1>1, <1>5
  <2>2. Lesser(scb', scb)
    BY <1>2, <2>1, LesserSelf
  <2>3. TypeOK'
    BY <1>1, <1>3, <2>1 DEF SocketIInv, TypeOK
  <2>4. Others(t) /\ Idle(pipe', wake', Threads \ {t}) /\ EndsInv'
    BY <1>1, <2>1 DEF Others, SocketIInv, SleepInv, Idle, EndsInv, Made
  <2>5. /\ \A g \in Fid : FIDT'[g] # NULL => FIDT'[g] \in Made \ freed'
        /\ \A u \in Threads : using'[u] # NULL => using'[u] \in Made \ freed'
        /\ freed \subseteq freed' /\ freed' \subseteq Made
    BY <1>2, <1>3, <1>4, <2>1 DEF SocketIInv, MadeInv
  <2> QED BY <1>4, <2>1, <2>2, <2>3, <2>4, <2>5, PipeStep
<1>6. CASE ~ Referenced(s, tb, using)
  <2>1. /\ socket_close(t, s, tb) /\ freed' = freed \cup {s}
        /\ \A g \in Fid : FIDT'[g] # s
        /\ \A u \in Threads : using[u] # s
    BY <1>1, <1>6 DEF Referenced
  <2>2. /\ \A g \in Fid : FIDT'[g] # NULL => FIDT'[g] \in Made \ freed'
        /\ \A u \in Threads : using'[u] # NULL => using'[u] \in Made \ freed'
        /\ freed \subseteq freed' /\ freed' \subseteq Made
    BY <1>2, <1>3, <1>4, <2>1 DEF SocketIInv, MadeInv
  <2> HIDE DEF s
  <2>3. CASE scb[s].type = "LISTENER"
    <3>1. CloseListener(s)
      BY <2>1, <2>3 DEF socket_close
    <3>2. /\ wake' = [u \in Threads |-> IF wake[u] = "no" /\ pc[u] \in {"accept"} /\ on[u] = s
                                        THEN "signal" ELSE wake[u]]
          /\ PortMap' = [p \in Ports |-> IF PortMap[p] = s THEN NULL ELSE PortMap[p]]
          /\ UNCHANGED <<scb, pipe, corrupt>>
      BY <3>1 DEF CloseListener, Broadcast, Cleared
    <3>3. /\ wake' \in [Threads -> {"no", "signal", "timeout"}]
          /\ PortMap' \in [Ports -> Scbs \cup {NULL}]
          /\ \A p \in Ports : PortMap'[p] = IF PortMap[p] = s THEN NULL ELSE PortMap[p]
      BY <3>2 DEF SocketIInv, TypeOK
    <3>4. TypeOK'
      BY <1>1, <1>2, <1>3, <2>2, <3>2, <3>3 DEF SocketIInv, TypeOK
    <3>5. Others(t)
      BY <1>1, <3>2 DEF Others
    <3>6. Lesser(scb', scb)
      BY <1>2, <3>2, LesserSelf
    <3>7. MadeInv'
      <4>1. \A l \in Scbs : \A i \in DOMAIN queue'[l] :
              \E j \in DOMAIN queue[l] : queue'[l][i].sock = queue[l][j].sock
        BY <1>4
      <4>2. \A p \in Ports : PortMap'[p] \in {PortMap[p], NULL}
        BY <3>3
      <4>3. pc'[t] \in {"run", "connect"}
        BY <1>1
      <4> QED BY <1>4, <2>2, <3>5, <3>6, <4>1, <4>2, <4>3, MadeFrame
    <3>8. Made' = Made /\ KindInv' /\ LinkInv' /\ EndsInv'
      BY <1>4, <3>2 DEF SocketIInv, Made, KindInv, LinkInv, Client, EndsInv
    <3>9. PortInv'
      <4>1. ASSUME NEW r \in Made, Listening(r)'
            PROVE  PortMap'[scb'[r].port] = r
        <5>1. r # s /\ Listening(r)
          BY <4>1, <2>1, <3>2 DEF Listening
        <5>2. PortMap[scb[r].port] = r /\ scb[r].port \in Ports
          <6>1. scb[r] \in ScbType
            BY SocketTypes DEF SocketIInv
          <6>2. scb[r].port # NULL
            BY <5>1 DEF SocketIInv, KindInv, Listening
          <6> QED BY <5>1, <6>1, <6>2 DEF SocketIInv, PortInv, ScbType
        <5> QED BY <5>1, <5>2, <3>2, <3>3
      <4>2. ASSUME NEW p \in Ports, PortMap'[p] # NULL
            PROVE  /\ scb'[PortMap'[p]].port = p
                   /\ Listening(PortMap[p])' \/ scb'[PortMap'[p]].type = "PEER"
        <5>1. PortMap'[p] = PortMap[p] /\ PortMap[p] # s /\ PortMap[p] # NULL
          BY <4>2, <3>3
        <5>2. scb[PortMap[p]].port = p /\ (Listening(PortMap[p]) \/ scb[PortMap[p]].type = "PEER")
          BY <5>1 DEF SocketIInv, PortInv
        <5> QED BY <5>1, <5>2, <2>1, <3>2 DEF Listening
      <4> QED BY <4>1, <4>2, <3>8 DEF PortInv
    <3>10. AcceptInv'
      <4>1. ASSUME NEW u \in Threads, pc[u] = "accept", wake[u] = "no", wake'[u] = "no",
                   scb'[on[u]].type # "PEER"
            PROVE  /\ scb[on[u]].type # "PEER"
                   /\ Listening(on[u]) => scb'[on[u]].type = "LISTENER" /\ on[u] \notin freed'
                   /\ Len(queue'[on[u]]) <= Len(queue[on[u]]) /\ Len(queue'[on[u]]) \in Nat
        <5>1. on[u] # s
          BY <4>1, <3>2
        <5>2. Len(queue[on[u]]) \in Nat
          BY <4>1, AcceptorAt
        <5> QED BY <4>1, <5>1, <5>2, <1>4, <2>1, <3>2 DEF Listening
      <4> QED BY <4>1, <1>4, <3>5, AcceptFrame
    <3>11. SleepInv'
      BY <1>1, <3>2 DEF SocketIInv, SleepInv, Idle
    <3> QED BY <3>4, <3>7, <3>8, <3>9, <3>10, <3>11 DEF SocketIInv
  <2>4. CASE scb[s].type = "PEER"
    <3>1. ClosePeer(t, s, tb, pipe, wake)
      BY <2>1, <2>4 DEF socket_close
    <3>2. tb[scb[s].fid] \in Made \cup {NULL}
      <4>1. scb[s].fid \in Fid
        BY <1>2 DEF ScbType
      <4>2. tb[scb[s].fid] \in {FIDT[scb[s].fid], NULL}
        BY <1>1, <1>3, <4>1
      <4> QED BY <4>1, <4>2 DEF SocketIInv, MadeInv
    <3>3. /\ pipe \in [Pipes -> PipeType] /\ wake \in [Threads -> {"no", "signal", "timeout"}]
          /\ Idle(pipe, wake, Threads \ {t})
      BY DEF SocketIInv, TypeOK, PipeType, SleepInv, Idle
    <3>4. /\ Lesser(scb', scb) /\ UNCHANGED PortMap /\ EndsInv'
          /\ pipe' \in [Pipes -> PipeType] /\ wake' \in [Threads -> {"no", "signal", "timeout"}]
          /\ \A u \in Threads : u # t /\ wake[u] # "no" => wake'[u] # "no"
          /\ Idle(pipe', wake', Threads \ {t}) /\ corrupt' \in BOOLEAN
      <4> HIDE DEF tb
      <4> QED BY <1>2, <2>4, <3>1, <3>2, <3>3, ClosePeerEnds
    <3>5. TypeOK'
      <4>1. scb' \in Seq(ScbType)
        BY <3>4 DEF Lesser
      <4> QED BY <1>1, <1>2, <1>3, <2>2, <3>4, <4>1 DEF SocketIInv, TypeOK, PipeType, ScbType
    <3>6. Others(t)
      BY <1>1, <3>4 DEF Others
    <3>7. \A r \in Made : r \in freed' /\ r \notin freed => scb[r].type # "LISTENER"
      BY <2>1, <2>4
    <3> QED BY <1>4, <2>2, <3>4, <3>5, <3>6, <3>7, PipeStep
  <2>5. CASE scb[s].type \notin {"LISTENER", "PEER"}
    <3>1. UNCHANGED <<scb, pipe, wake, PortMap, corrupt>>
      BY <2>1, <2>5 DEF socket_close
    <3>2. Lesser(scb', scb)
      BY <1>2, <3>1, LesserSelf
    <3>3. TypeOK'
      BY <1>1, <1>2, <1>3, <2>2, <3>1 DEF SocketIInv, TypeOK
    <3>4. Others(t) /\ Idle(pipe', wake', Threads \ {t}) /\ EndsInv'
      BY <1>1, <3>1 DEF Others, SocketIInv, SleepInv, Idle, EndsInv, Made
    <3>5. \A r \in Made : r \in freed' /\ r \notin freed => scb[r].type # "LISTENER"
      BY <2>1, <2>5
    <3> QED BY <1>4, <2>2, <3>1, <3>2, <3>3, <3>4, <3>5, PipeStep
  <2> QED BY <2>3, <2>4, <2>5
<1> QED BY <1>5, <1>6

\* A Read or Write goes on.
LEMMA ResumeStep ==
  ASSUME SocketIInv, NEW t \in Threads, NEW label \in {"read", "write"}, TransferResume(t, label)
  PROVE  SocketIInv'
<1> DEFINE p == on[t]
           s == using[t]
           ps == IF label = "read" THEN Taken(p) ELSE Put(p)
           w == MovedWakes(t, p, IF label = "read" THEN "write" ELSE "read")
           go == IF label = "read" THEN Readable(p) ELSE Writable(p)
           last == ~ Referenced(s, FIDT, [using EXCEPT ![t] = NULL])
<1>1. /\ pc[t] = label
      /\ \/ Corrupt
         \/ /\ go
            /\ IF last THEN ClosePeer(t, s, FIDT, ps, w) /\ freed' = freed \cup {s}
               ELSE pipe' = ps /\ wake' = w /\ UNCHANGED <<scb, freed, PortMap, corrupt>>
            /\ Return(t) /\ UNCHANGED <<FIDT, queue, accepted>>
         \/ /\ ~ go /\ ~ pipe[p].freed /\ wake' = [wake EXCEPT ![t] = "no"]
            /\ UNCHANGED <<FIDT, scb, freed, PortMap, queue, pipe, pc, on,
                           using, accepted, corrupt>>
  <2>1. /\ pc[t] = label
        /\ CASE pipe[p].freed -> Corrupt
             [] ~ pipe[p].freed /\ go ->
                  /\ IF last THEN ClosePeer(t, s, FIDT, ps, w) /\ freed' = freed \cup {s}
                     ELSE pipe' = ps /\ wake' = w /\ UNCHANGED <<scb, freed, PortMap, corrupt>>
                  /\ Return(t) /\ UNCHANGED <<FIDT, queue, accepted>>
             [] OTHER ->
                  /\ wake' = [wake EXCEPT ![t] = "no"]
                  /\ UNCHANGED <<FIDT, scb, freed, PortMap, queue, pipe, pc, on,
                                 using, accepted, corrupt>>
    BY DEF TransferResume, Woken
  <2> HIDE DEF go, last, ps, w
  <2> QED BY <2>1
<1>2. /\ s \in Made /\ s \notin freed /\ s \in Scbs /\ scb[s].type = "PEER" /\ s # NULL
      /\ p \in Pipes /\ p \in 2 .. 2 * Len(scb) + 1 /\ ~ (p > 2 * Len(scb) + 1)
      /\ scb \in Seq(ScbType) /\ scb[s] \in ScbType /\ freed \subseteq Made /\ Made \subseteq Scbs
  <2>1. s \in Made /\ scb[s].type = "PEER" /\ p \in 2 .. 2 * Len(scb) + 1
    BY <1>1 DEF SocketIInv, MadeInv
  <2>2. s # NULL /\ p \in Pipes /\ s \in Scbs /\ scb[s] \in ScbType /\ scb \in Seq(ScbType)
        /\ Len(scb) \in Nat /\ Made \subseteq Scbs
    BY <2>1, SocketTypes DEF SocketIInv
  <2>3. s \notin freed /\ freed \subseteq Made
    BY <2>2 DEF SocketIInv, MadeInv
  <2> QED BY <2>1, <2>2, <2>3
<1>3. CASE Corrupt
  BY <1>3, CorruptStep
<1>4. CASE /\ go
           /\ IF last THEN ClosePeer(t, s, FIDT, ps, w) /\ freed' = freed \cup {s}
              ELSE pipe' = ps /\ wake' = w /\ UNCHANGED <<scb, freed, PortMap, corrupt>>
           /\ Return(t) /\ UNCHANGED <<FIDT, queue, accepted>>
  <2>1. \/ ps = Taken(p) /\ label = "read"
        \/ Writable(p) /\ ps = Put(p) /\ label = "write"
    BY <1>4
  <2>2. /\ ps \in [Pipes -> PipeType] /\ w \in [Threads -> {"no", "signal", "timeout"}]
        /\ \A q \in Pipes : q # p => ps[q] = pipe[q]
        /\ ps[p].freed = pipe[p].freed
        /\ w[t] = "no" /\ \A u \in Threads : u # t /\ wake[u] # "no" => w[u] # "no"
        /\ Idle(ps, w, Threads \ {t})
    <3>1. PICK other : /\ \/ ps = Taken(p) /\ other = "write"
                          \/ Writable(p) /\ ps = Put(p) /\ other = "read"
                       /\ w = MovedWakes(t, p, other)
      BY <2>1
    <3> DEFINE z == MovedWakes(t, p, other)
    <3>2. w = z
      BY <3>1
    <3> HIDE DEF ps, p, w
    <3>3. /\ ps \in [Pipes -> PipeType] /\ z \in [Threads -> {"no", "signal", "timeout"}]
          /\ \A q \in Pipes : q # p => ps[q] = pipe[q]
          /\ ps[p].freed = pipe[p].freed
          /\ z[t] = "no" /\ \A u \in Threads : u # t /\ wake[u] # "no" => z[u] # "no"
          /\ Idle(ps, z, Threads \ {t})
      BY <3>1, <1>2, TransferIdle
    <3> HIDE DEF z
    <3> QED BY <3>2, <3>3
  <2>3. /\ \A q \in Pipes : ps[q].freed = pipe[q].freed
        /\ \A q \in Pipes : q > 2 * Len(scb) + 1 => ps[q] = pipe[q]
    <3> HIDE DEF ps, p
    <3> QED BY <1>2, <2>2
  <2>4. /\ pc' = [pc EXCEPT ![t] = "run"] /\ on' = [on EXCEPT ![t] = NULL]
        /\ using' = [using EXCEPT ![t] = NULL] /\ UNCHANGED <<FIDT, queue, accepted>>
    BY <1>4 DEF Return
  <2>5. /\ pc'[t] = "run" /\ using'[t] = NULL /\ pc[t] # "accept"
        /\ \A u \in Threads : u # t => pc'[u] = pc[u] /\ on'[u] = on[u] /\ using'[u] = using[u]
        /\ pc' \in [Threads -> {"run", "accept", "connect", "read", "write"}]
        /\ on' \in [Threads -> Nat] /\ using' \in [Threads -> Scbs \cup {NULL}]
    BY <1>1, <2>4 DEF SocketIInv, TypeOK, NULL
  <2>6. CASE last
    <3>1. ClosePeer(t, s, FIDT, ps, w) /\ freed' = freed \cup {s}
      BY <1>4, <2>6
    <3>2. \A g \in Fid : FIDT[g] # s
      BY <2>6 DEF Referenced
    <3>3. \A u \in Threads : using'[u] # s
      BY <2>4, <2>6 DEF Referenced
    <3>4. FIDT[scb[s].fid] \in Made \cup {NULL}
      <4>1. scb[s].fid \in Fid
        BY <1>2 DEF ScbType
      <4> QED BY <4>1 DEF SocketIInv, MadeInv
    <3>5. /\ Lesser(scb', scb) /\ UNCHANGED PortMap /\ EndsInv'
          /\ pipe' \in [Pipes -> PipeType] /\ wake' \in [Threads -> {"no", "signal", "timeout"}]
          /\ \A u \in Threads : u # t /\ wake[u] # "no" => wake'[u] # "no"
          /\ Idle(pipe', wake', Threads \ {t}) /\ corrupt' \in BOOLEAN
      <4> HIDE DEF ps, w, s, p
      <4> QED BY <1>2, <2>2, <2>3, <3>1, <3>4, ClosePeerEnds
    <3>6. /\ \A g \in Fid : FIDT'[g] # NULL => FIDT'[g] \in Made \ freed'
          /\ \A u \in Threads : using'[u] # NULL => using'[u] \in Made \ freed'
          /\ freed \subseteq freed' /\ freed' \subseteq Made
          /\ \A r \in Made : r \in freed' /\ r \notin freed => scb[r].type # "LISTENER"
      <4>1. \A g \in Fid : FIDT'[g] # NULL => FIDT'[g] \in Made \ freed'
        BY <2>4, <3>1, <3>2 DEF SocketIInv, MadeInv
      <4>2. \A u \in Threads : using'[u] # NULL => using'[u] \in Made \ freed'
        <5> HIDE DEF s
        <5> QED BY <2>5, <3>1, <3>3 DEF SocketIInv, MadeInv
      <4> QED BY <4>1, <4>2, <1>2, <3>1
    <3>7. TypeOK'
      <4>1. scb' \in Seq(ScbType) /\ freed' \subseteq Scbs
        BY <1>2, <3>1, <3>5 DEF Lesser
      <4> QED BY <2>4, <2>5, <3>5, <4>1 DEF SocketIInv, TypeOK, PipeType, ScbType
    <3>8. Others(t)
      BY <2>5, <3>5 DEF Others
    <3> QED BY <2>4, <2>5, <3>5, <3>6, <3>7, <3>8, PipeStep
  <2>7. CASE ~ last
    <3>1. pipe' = ps /\ wake' = w /\ UNCHANGED <<scb, freed, PortMap, corrupt>>
      BY <1>4, <2>7
    <3> HIDE DEF ps, w, p, s, last, go
    <3>2. Lesser(scb', scb)
      BY <1>2, <3>1, LesserSelf
    <3>3. EndsInv'
      <4>1. \A q \in Pipes : q > 2 * Len(scb) + 1 => pipe'[q] = get_pipe
        BY <2>3, <3>1 DEF SocketIInv, EndsInv
      <4>2. ASSUME NEW r \in Made
            PROVE  /\ scb[r].send # NULL => scb[r].send \in Pipes
                   /\ scb[r].receive # NULL => scb[r].receive \in Pipes
        <5>1. scb[r] \in ScbType
          BY SocketTypes DEF SocketIInv
        <5> QED BY <5>1 DEF ScbType
      <4> QED BY <2>3, <3>1, <4>1, <4>2 DEF SocketIInv, EndsInv, Made
    <3>4. /\ \A g \in Fid : FIDT'[g] # NULL => FIDT'[g] \in Made \ freed'
          /\ \A u \in Threads : using'[u] # NULL => using'[u] \in Made \ freed'
          /\ freed \subseteq freed' /\ freed' \subseteq Made
          /\ \A r \in Made : r \in freed' /\ r \notin freed => scb[r].type # "LISTENER"
      <4>1. \A u \in Threads : using'[u] \in {using[u], NULL}
        BY <2>5
      <4> QED BY <4>1, <1>2, <2>4, <3>1 DEF SocketIInv, MadeInv
    <3>5. TypeOK'
      BY <2>2, <2>4, <2>5, <3>1 DEF SocketIInv, TypeOK, PipeType
    <3>6. Others(t)
      BY <2>2, <2>5, <3>1 DEF Others
    <3>7. Idle(pipe', wake', Threads \ {t}) /\ UNCHANGED <<PortMap, queue>>
      BY <2>2, <2>4, <3>1
    <3> QED BY <2>5, <3>2, <3>3, <3>4, <3>5, <3>6, <3>7, PipeStep
  <2> QED BY <2>6, <2>7
<1>5. CASE /\ ~ go /\ ~ pipe[p].freed /\ wake' = [wake EXCEPT ![t] = "no"]
           /\ UNCHANGED <<FIDT, scb, freed, PortMap, queue, pipe, pc, on,
                          using, accepted, corrupt>>
  <2>1. pipe[p] \in PipeType /\ BUFF_SIZE \in Nat
    BY <1>2, SocketTypes DEF SocketIInv, TypeOK, PipeType
  <2>2. /\ label = "read" => pipe[p].data = 0 /\ ~ pipe[p].writer_closed
        /\ label = "write" => pipe[p].data = BUFF_SIZE /\ ~ pipe[p].freed
    BY <1>5, <2>1 DEF Readable, Writable, PipeType
  <2>3. TypeOK'
    BY <1>5 DEF SocketIInv, TypeOK
  <2>4. Lesser(scb', scb)
    BY <1>2, <1>5, LesserSelf
  <2>5. /\ Others(t) /\ EndsInv' /\ Idle(pipe', wake', Threads \ {t})
        /\ UNCHANGED <<PortMap, queue>>
    <3>1. \A u \in Threads : u # t => wake'[u] = wake[u]
      BY <1>5 DEF SocketIInv, TypeOK
    <3> QED BY <1>5, <3>1 DEF Others, SocketIInv, EndsInv, Made, SleepInv, Idle
  <2>6. /\ \A g \in Fid : FIDT'[g] # NULL => FIDT'[g] \in Made \ freed'
        /\ \A u \in Threads : using'[u] # NULL => using'[u] \in Made \ freed'
        /\ freed \subseteq freed' /\ freed' \subseteq Made
        /\ \A r \in Made : r \in freed' /\ r \notin freed => scb[r].type # "LISTENER"
        /\ \A u \in Threads : using'[u] = using[u]
    BY <1>2, <1>5 DEF SocketIInv, MadeInv
  <2>7. /\ pc'[t] = label /\ on'[t] = p /\ using'[t] = s /\ pc[t] # "accept" /\ pc'[t] # "accept"
        /\ pipe' = pipe
    BY <1>1, <1>5
  <2> HIDE DEF p, s, go
  <2> QED BY <1>2, <2>2, <2>3, <2>4, <2>5, <2>6, <2>7, PipeStep
<1> QED BY <1>1, <1>3, <1>4, <1>5

-----------------------------------------------------------------------------
(* Sockets: the theorems.                                                  *)

\* Every step keeps the invariant.
LEMMA SocketNext ==
  ASSUME SocketIInv, [Next]_vars
  PROVE  SocketIInv'
<1>1. CASE UNCHANGED vars
  <2>1. /\ UNCHANGED <<FIDT, scb, freed, PortMap, queue, pipe, pc, on, using, wake, accepted>>
        /\ UNCHANGED corrupt
    BY <1>1 DEF vars
  <2>2. TypeOK' /\ MadeInv'
    BY <2>1 DEF SocketIInv, TypeOK, MadeInv, Made
  <2>3. KindInv' /\ PortInv' /\ Made' = Made
    BY <2>1, StillMade
  <2>4. AcceptInv' /\ LinkInv'
    BY <2>1 DEF SocketIInv, AcceptInv, Listening, Awake, LinkInv, Client, Made
  <2>5. EndsInv' /\ SleepInv'
    BY <2>1 DEF SocketIInv, EndsInv, SleepInv, Idle, Made
  <2> QED BY <2>2, <2>3, <2>4, <2>5 DEF SocketIInv
<1>2. ASSUME NEW t \in Threads, Call(t)
      PROVE  SocketIInv'
  <2>1. CASE \E port \in Ports \cup {NULL} : sys_Socket(t, port)
    BY <2>1, SocketStep
  <2>2. ASSUME NEW f \in Fid, \/ sys_Listen(t, f)
                              \/ sys_Accept(t, f)
                              \/ sys_Close(t, f)
                              \/ socket_read(t, f)
                              \/ socket_write(t, f)
        PROVE  SocketIInv'
    BY <2>2, ListenStep, AcceptStep, CloseStep, ReadWriteStep
  <2>3. ASSUME NEW f \in Fid, NEW port \in Ports, sys_Connect(t, f, port)
        PROVE  SocketIInv'
    BY <2>3, ConnectStep
  <2>4. ASSUME NEW f \in Fid, NEW how \in {{"read"}, {"write"}, {"read", "write"}},
               sys_ShutDown(t, f, how)
        PROVE  SocketIInv'
    <3>1. how \in SUBSET {"read", "write"}
      OBVIOUS
    <3> QED BY <2>4, <3>1, ShutDownStep
  <2> QED BY <1>2, <2>1, <2>2, <2>3, <2>4 DEF Call
<1>3. ASSUME NEW t \in Threads, Resume(t)
      PROVE  SocketIInv'
  <2>1. CASE AcceptResume(t)
    <3>1. pc[t] = "accept" /\ wake[t] # "no" /\ on[t] \in Made
      BY <2>1 DEF AcceptResume, Woken, SocketIInv, MadeInv
    <3>2. Corrupt \/ Establish(t, on[t])
      BY <2>1 DEF AcceptResume
    <3> QED BY <3>1, <3>2, CorruptStep, EstablishStep
  <2> QED BY <1>3, <2>1, AcceptFailsStep, ConnectReturnStep, ResumeStep DEF Resume
<1> QED BY <1>1, <1>2, <1>3, TimeoutStep DEF Next

\* Before any call.
LEMMA SocketInit == Init => SocketIInv
<1> SUFFICES ASSUME Init PROVE SocketIInv
  OBVIOUS
<1>1. /\ {M, Fids, BUFF_SIZE, MaxReqs} \subseteq Nat \ {0} /\ scb = <<>> /\ scb \in Seq(ScbType)
      /\ Len(scb) = 0 /\ Made = {}
  BY SocketAssumption DEF Init, Made
<1>2. <<>> \in Seq(Request)
  BY EmptyElements
<1>3. TypeOK
  <2>1. queue \in [Scbs -> Seq(Request)]
    BY <1>2 DEF Init
  <2>2. get_pipe \in PipeType
    BY <1>1 DEF get_pipe, PipeType
  <2>3. pipe \in [Pipes -> PipeType]
    BY <2>2 DEF Init
  <2> QED BY <1>1, <2>1, <2>3 DEF Init, TypeOK, ScbType, PipeType, Request, NULL
<1>4. MadeInv /\ KindInv /\ PortInv /\ AcceptInv
  BY <1>1 DEF Init, MadeInv, KindInv, PortInv, AcceptInv, NULL
<1>5. LinkInv
  BY <1>1 DEF Init, LinkInv
<1>6. EndsInv /\ SleepInv
  BY <1>1 DEF Init, EndsInv, SleepInv, Idle
<1> QED BY <1>3, <1>4, <1>5, <1>6 DEF SocketIInv

\* The inductive invariant of the sockets holds for any threads, descriptors,
\* ports and capacities.
THEOREM SocketInvariant == Spec => []SocketIInv
BY SocketInit, SocketNext, PTL DEF Spec

\* What the invariant says of the ports and of Accept.
LEMMA ListenFollows == SocketIInv => ListenInv
<1> SUFFICES ASSUME SocketIInv PROVE ListenInv
  OBVIOUS
<1>1. TypeOK
  BY DEF SocketIInv
<1>2. \A t \in Threads : pc[t] = "accept" /\ wake[t] = "no" /\ scb[on[t]].type # "PEER" =>
        /\ Listening(on[t])
        /\ Len(queue[on[t]]) <=
             Cardinality({u \in Threads : pc[u] = "accept" /\ on[u] = on[t] /\ wake[u] # "no"})
  BY DEF SocketIInv, AcceptInv, Awake
<1> QED BY <1>1, <1>2 DEF ListenInv, SocketIInv, PortInv, Made

\* What the invariant says of the two ends of a connection.
LEMMA PipesFollow == SocketIInv => PipesInv
<1> SUFFICES ASSUME SocketIInv PROVE PipesInv
  OBVIOUS
<1>1. ASSUME NEW t \in Threads, wake[t] = "no"
      PROVE  /\ pc[t] = "read" => ~ Readable(on[t])
             /\ pc[t] = "write" => ~ Writable(on[t]) /\ ~ pipe[on[t]].freed
  <2>1. BUFF_SIZE \in Nat
    BY SocketTypes DEF SocketIInv
  <2> QED BY <1>1, <2>1 DEF SocketIInv, SleepInv, Idle, Readable, Writable
<1>2. ASSUME NEW s \in Made, scb[s].type = "PEER"
      PROVE  /\ scb[s].send # NULL => ~ pipe[scb[s].send].freed
             /\ scb[s].receive # NULL => ~ pipe[scb[s].receive].freed
             /\ scb[scb[s].peer].peer = s =>
                  /\ scb[s].send # NULL => scb[scb[s].peer].receive \in {scb[s].send, NULL}
                  /\ scb[s].send # scb[s].receive \/ scb[s].send = NULL
             /\ \A r \in Made \ {s} : scb[r].receive = scb[s].receive => scb[s].receive = NULL
  <2> DEFINE q == scb[s].peer
  <2>1. /\ q \in Made /\ q # s /\ scb[q].type = "PEER" /\ s \in Nat /\ q \in Nat
        /\ q < s => /\ scb[s].send \in {Out(s), NULL} /\ scb[s].receive \in {In(s), NULL}
                    /\ q < scb[q].peer
        /\ s < q => /\ scb[s].send \in {In(q), NULL} /\ scb[s].receive \in {Out(q), NULL}
                    /\ scb[q].peer = s
        /\ scb[q].peer < q => scb[q].receive \in {In(q), NULL}
        /\ q < scb[q].peer => scb[q].receive \in {Out(scb[q].peer), NULL}
    <3>1. \A x \in Made : x \in Nat
      BY DEF Made
    <3>2. q \in Made
      BY <1>2 DEF SocketIInv, LinkInv
    <3> QED BY <1>2, <3>1, <3>2 DEF SocketIInv, LinkInv
  <2> HIDE DEF q
  <2>2. ASSUME scb[q].peer = s
        PROVE  /\ scb[s].send # NULL => scb[q].receive \in {scb[s].send, NULL}
               /\ scb[s].send # scb[s].receive \/ scb[s].send = NULL
    <3>1. CASE q < s
      BY <2>1, <2>2, <3>1 DEF In, Out, NULL
    <3>2. CASE s < q
      BY <2>1, <2>2, <3>2 DEF In, Out, NULL
    <3> QED BY <2>1, <3>1, <3>2
  <2>3. ASSUME NEW r \in Made \ {s}, scb[r].receive = scb[s].receive, scb[s].receive # NULL
        PROVE  FALSE
    BY <2>3, Crossed DEF SocketIInv
  <2> QED BY <1>2, <2>2, <2>3 DEF SocketIInv, EndsInv, q
<1> QED BY <1>1, <1>2 DEF PipesInv, Made

\* A socket that listens is the one its port leads to; no acceptor sleeps beside
\* a request that nobody is awake for.
THEOREM PortsLead == Spec => []ListenInv
BY SocketInvariant, ListenFollows, PTL

\* The two ends of a connection are crossed, nobody holds an end of a freed pipe,
\* and nobody sleeps over a pipe who could go on.
THEOREM PipesCrossed == Spec => []PipesInv
BY SocketInvariant, PipesFollow, PTL

-----------------------------------------------------------------------------
(* The dining philosophers.                                                *)

Stages == {"absent", "arrive", "think", "wait", "eat", "gone"}
Moods == {"NOTHERE", "THINKING", "HUNGRY", "EATING"}

\* What a philosopher's position says of its state.
MoodInv ==
  \A i \in Symp!Phil :
    /\ place[i] \in {"absent", "arrive", "gone"} <=> state[i] = "NOTHERE"
    /\ place[i] = "think" <=> state[i] = "THINKING"
    /\ place[i] = "eat" => state[i] = "EATING"
    /\ state[i] = "HUNGRY" => place[i] = "wait"

\* The philosophers the host has not collected.
Present == {i \in Symp!Phil : place[i] # "absent"}

\* The host is in a loop, and no more philosophers are left than it has turns:
\* Exec may fail, and WaitChild may find nobody.
HostInv ==
  /\ kind \in {"processes", "threads"}
  /\ \E k \in 0 .. N :
       \/ host = <<"init", 0>> /\ Present = {}
       \/ host = <<"start", k>> /\ table = "made" /\ Present \subseteq 0 .. k - 1
       \/ /\ host = <<"wait", k>> /\ table = "made"
          /\ kind = "threads" => Present \subseteq k .. N - 1
          /\ kind = "processes" => Cardinality(Present) <= N - k
       \/ host = <<"done", 0>> /\ Present = {}

SympInv ==
  /\ state \in [Symp!Phil -> Moods] /\ place \in [Symp!Phil -> Stages]
  /\ sleeping \subseteq Symp!Phil
  /\ MoodInv /\ HostInv /\ Symp!TableInv

\* A neighbour's neighbour: in a ring of one or more.
LEMMA Neighbours ==
  ASSUME NEW i \in Symp!Phil
  PROVE  /\ Symp!LEFT(i) \in Symp!Phil /\ Symp!RIGHT(i) \in Symp!Phil
         /\ Symp!RIGHT(Symp!LEFT(i)) = i /\ Symp!LEFT(Symp!RIGHT(i)) = i
         /\ N > 1 => Symp!LEFT(i) # i /\ Symp!RIGHT(i) # i
<1>1. /\ N \in Nat /\ N >= 1 /\ i \in Nat /\ i <= N - 1
  BY ProgramsAssumption DEF Symp!Phil
<1>2. \A j \in Symp!Phil : /\ Symp!LEFT(j) = IF j = N - 1 THEN 0 ELSE j + 1
                           /\ Symp!RIGHT(j) = IF j = 0 THEN N - 1 ELSE j - 1
  <2>1. ASSUME NEW j \in Symp!Phil
        PROVE  Symp!LEFT(j) = IF j = N - 1 THEN 0 ELSE j + 1
    <3>1. j \in Nat /\ j <= N - 1
      BY <1>1 DEF Symp!Phil
    <3>2. CASE j = N - 1
      BY <1>1, <3>1, <3>2 DEF Symp!LEFT
    <3>3. CASE j # N - 1
      BY <1>1, <3>1, <3>3 DEF Symp!LEFT
    <3> QED BY <3>2, <3>3
  <2>2. ASSUME NEW j \in Symp!Phil
        PROVE  Symp!RIGHT(j) = IF j = 0 THEN N - 1 ELSE j - 1
    <3>1. j \in Nat /\ j <= N - 1
      BY <1>1 DEF Symp!Phil
    <3>2. CASE j = 0
      BY <1>1, <3>1, <3>2 DEF Symp!RIGHT
    <3>3. CASE j # 0
      <4>1. j + N - 1 = (j - 1) + N /\ j - 1 \in 0 .. N - 1
        BY <1>1, <3>1, <3>3
      <4>2. ((j - 1) + N) % N = j - 1
        BY <1>1, <4>1
      <4> QED BY <4>1, <4>2, <3>3 DEF Symp!RIGHT
    <3> QED BY <3>2, <3>3
  <2> QED BY <2>1, <2>2
<1>3. Symp!LEFT(i) \in Symp!Phil /\ Symp!RIGHT(i) \in Symp!Phil
  BY <1>1, <1>2 DEF Symp!Phil
<1> QED BY <1>1, <1>2, <1>3

\* No two neighbours eat.
Apart(st) == \A i \in Symp!Phil : st[i] = "EATING" /\ N > 1 => st[Symp!LEFT(i)] # "EATING"

\* trytoeat keeps neighbours apart, and who stays hungry has a neighbour that
\* eats.
LEMMA TryToEat ==
  ASSUME NEW st \in [Symp!Phil -> Moods], NEW j \in Symp!Phil, NEW r,
         Apart(st), r = Symp!trytoeat(st, j)
  PROVE  /\ r \in [Symp!Phil -> Moods] /\ Apart(r)
         /\ \A i \in Symp!Phil :
              r[i] = st[i] \/ (i = j /\ st[i] = "HUNGRY" /\ r[i] = "EATING")
         /\ r[j] = "HUNGRY" => "EATING" \in {r[Symp!LEFT(j)], r[Symp!RIGHT(j)]}
<1>1. CASE Symp!CanEat(st, j)
  <2>1. r = [st EXCEPT ![j] = "EATING"]
    BY <1>1 DEF Symp!trytoeat
  <2>2. /\ st[j] = "HUNGRY" /\ st[Symp!LEFT(j)] # "EATING" /\ st[Symp!RIGHT(j)] # "EATING"
    BY <1>1 DEF Symp!CanEat
  <2>3. r \in [Symp!Phil -> Moods]
    BY <2>1 DEF Moods
  <2>4. ASSUME NEW i \in Symp!Phil, r[i] = "EATING", N > 1
        PROVE  r[Symp!LEFT(i)] # "EATING"
    <3>1. CASE i = j
      BY <3>1, <2>1, <2>2, <2>4, Neighbours
    <3>2. CASE i # j /\ Symp!LEFT(i) = j
      <4>1. Symp!RIGHT(j) = i
        BY <3>2, Neighbours
      <4> QED BY <4>1, <3>2, <2>1, <2>2, <2>4
    <3>3. CASE i # j /\ Symp!LEFT(i) # j
      <4>1. Symp!LEFT(i) \in Symp!Phil
        BY Neighbours
      <4> QED BY <4>1, <3>3, <2>1, <2>4 DEF Apart
    <3> QED BY <3>1, <3>2, <3>3
  <2> QED BY <2>1, <2>2, <2>3, <2>4 DEF Apart
<1>2. CASE ~ Symp!CanEat(st, j)
  BY <1>2 DEF Symp!trytoeat, Symp!CanEat
<1> QED BY <1>1, <1>2

\* A step that leaves the host alone and neither starts nor collects anybody.
LEMMA HostKept ==
  ASSUME HostInv, Present' = Present, UNCHANGED <<host, kind, table>>
  PROVE  HostInv'
BY DEF HostInv

\* A philosopher that comes or goes disturbs no other.
LEMMA ComeOrGo ==
  ASSUME SympInv, NEW i \in Symp!Phil,
         \/ Symp!Arrive(i)
         \/ Symp!Leave(i)
  PROVE  SympInv'
<1>1. PICK v \in {"NOTHERE", "THINKING"}, lbl \in {"think", "gone"} :
        /\ state' = [state EXCEPT ![i] = v] /\ place' = [place EXCEPT ![i] = lbl]
        /\ sleeping' = {j \in sleeping : ~ (state'[j] = "EATING" /\ state[j] # "EATING")}
        /\ lbl = "think" <=> v = "THINKING"
        /\ UNCHANGED <<host, kind, table>>
        /\ place[i] \in {"arrive", "think"}
  BY DEF Symp!Arrive, Symp!Leave, Symp!Monitor
<1>2. /\ state[i] \in {"NOTHERE", "THINKING"} /\ table = "made"
      /\ state \in [Symp!Phil -> Moods] /\ place \in [Symp!Phil -> Stages]
      /\ sleeping \subseteq Symp!Phil
      /\ \A j \in Symp!Phil : Symp!LEFT(j) \in Symp!Phil /\ Symp!RIGHT(j) \in Symp!Phil
  BY <1>1, Neighbours DEF SympInv, MoodInv, Symp!TableInv
<1>3. state' \in [Symp!Phil -> Moods] /\ place' \in [Symp!Phil -> Stages] /\ MoodInv'
  BY <1>1, <1>2 DEF SympInv, MoodInv, Moods, Stages
<1>4. \A j \in Symp!Phil : state'[j] = "EATING" <=> state[j] = "EATING"
  BY <1>1, <1>2
<1>5. Symp!TableInv'
  <2>1. \A j \in Symp!Phil : state'[j] = "EATING" /\ N > 1 => state'[Symp!LEFT(j)] # "EATING"
    BY <1>2, <1>4 DEF SympInv, Symp!TableInv
  <2>2. ASSUME NEW j \in Symp!Phil, state'[j] = "HUNGRY"
        PROVE  "EATING" \in {state'[Symp!LEFT(j)], state'[Symp!RIGHT(j)]}
    <3>1. state[j] = "HUNGRY"
      BY <1>1, <1>2, <2>2
    <3> QED BY <3>1, <1>2, <1>4 DEF SympInv, Symp!TableInv
  <2>3. \A j \in sleeping' : place'[j] = "wait" /\ state'[j] = "HUNGRY"
    <3>1. \A j \in sleeping : place[j] = "wait" /\ state[j] = "HUNGRY"
      BY DEF SympInv, Symp!TableInv
    <3> QED BY <3>1, <1>1, <1>2
  <2>4. \A j \in Symp!Phil : place'[j] \notin {"absent", "gone"} => table' = "made"
    BY <1>1, <1>2
  <2> QED BY <1>3, <2>1, <2>2, <2>3, <2>4 DEF Symp!TableInv, Moods
<1>6. Present' = Present
  BY <1>1, <1>2 DEF Present
<1>7. HostInv'
  BY <1>1, <1>6, HostKept DEF SympInv
<1> QED BY <1>1, <1>2, <1>3, <1>5, <1>7 DEF SympInv

\* A philosopher becomes hungry: it eats, or sleeps because a neighbour eats.
LEMMA HungryStep ==
  ASSUME SympInv, NEW i \in Symp!Phil, Symp!Hungry(i)
  PROVE  SympInv'
<1> DEFINE st == [state EXCEPT ![i] = "HUNGRY"]
<1>1. /\ place[i] = "think" /\ state' = Symp!trytoeat(st, i)
      /\ UNCHANGED <<host, kind, table>>
      /\ \/ /\ state'[i] = "HUNGRY" /\ place' = [place EXCEPT ![i] = "wait"]
            /\ sleeping' = sleeping \cup {i}
         \/ /\ state'[i] # "HUNGRY" /\ place' = [place EXCEPT ![i] = "eat"]
            /\ UNCHANGED sleeping
  BY DEF Symp!Hungry
<1>2. /\ state[i] = "THINKING" /\ table = "made"
      /\ state \in [Symp!Phil -> Moods] /\ place \in [Symp!Phil -> Stages]
      /\ sleeping \subseteq Symp!Phil
      /\ \A j \in Symp!Phil : Symp!LEFT(j) \in Symp!Phil /\ Symp!RIGHT(j) \in Symp!Phil
  BY <1>1, Neighbours DEF SympInv, MoodInv, Symp!TableInv
<1>3. st \in [Symp!Phil -> Moods] /\ Apart(st)
  <2>1. st \in [Symp!Phil -> Moods]
    BY <1>2 DEF Moods
  <2>2. Apart(st)
    BY <1>2 DEF Apart, SympInv, Symp!TableInv
  <2> QED BY <2>1, <2>2
<1>4. /\ state' \in [Symp!Phil -> Moods] /\ Apart(state')
      /\ \A j \in Symp!Phil : state'[j] = st[j] \/ (i = j /\ state'[j] = "EATING")
      /\ state'[i] = "HUNGRY" => "EATING" \in {state'[Symp!LEFT(i)], state'[Symp!RIGHT(i)]}
  <2> HIDE DEF st
  <2> QED BY <1>1, <1>3, TryToEat
<1>5. /\ \A j \in Symp!Phil : j # i => state'[j] = state[j]
      /\ state'[i] \in {"HUNGRY", "EATING"}
  BY <1>2, <1>4
<1>6. place' \in [Symp!Phil -> Stages] /\ MoodInv' /\ sleeping' \subseteq Symp!Phil
  <2>1. place' \in [Symp!Phil -> Stages] /\ sleeping' \subseteq Symp!Phil
    BY <1>1, <1>2 DEF Stages
  <2>2. ASSUME NEW j \in Symp!Phil
        PROVE  /\ place'[j] \in {"absent", "arrive", "gone"} <=> state'[j] = "NOTHERE"
               /\ place'[j] = "think" <=> state'[j] = "THINKING"
               /\ place'[j] = "eat" => state'[j] = "EATING"
               /\ state'[j] = "HUNGRY" => place'[j] = "wait"
    <3>1. CASE j = i
      BY <3>1, <1>1, <1>2, <1>5
    <3>2. CASE j # i
      <4>1. place'[j] = place[j] /\ state'[j] = state[j]
        BY <3>2, <1>1, <1>2, <1>5
      <4> QED BY <4>1 DEF SympInv, MoodInv
    <3> QED BY <3>1, <3>2
  <2> QED BY <2>1, <2>2 DEF MoodInv
<1>7. Symp!TableInv'
  <2>1. \A j \in Symp!Phil : state'[j] = "EATING" /\ N > 1 => state'[Symp!LEFT(j)] # "EATING"
    BY <1>4 DEF Apart
  <2>2. ASSUME NEW j \in Symp!Phil, state'[j] = "HUNGRY"
        PROVE  "EATING" \in {state'[Symp!LEFT(j)], state'[Symp!RIGHT(j)]}
    <3>1. CASE j = i
      BY <3>1, <2>2, <1>4
    <3>2. CASE j # i
      <4>1. "EATING" \in {state[Symp!LEFT(j)], state[Symp!RIGHT(j)]}
        BY <3>2, <2>2, <1>5 DEF SympInv, Symp!TableInv
      <4>2. PICK k \in {Symp!LEFT(j), Symp!RIGHT(j)} : state[k] = "EATING"
        BY <4>1
      <4> QED BY <4>2, <1>2, <1>5
    <3> QED BY <3>1, <3>2
  <2>3. \A j \in sleeping' : place'[j] = "wait" /\ state'[j] = "HUNGRY"
    <3>1. \A j \in sleeping : place[j] = "wait" /\ state[j] = "HUNGRY"
      BY DEF SympInv, Symp!TableInv
    <3>2. \A j \in sleeping : j # i /\ j \in Symp!Phil
      BY <3>1, <1>1, <1>2
    <3>3. ASSUME NEW j \in sleeping'
          PROVE  place'[j] = "wait" /\ state'[j] = "HUNGRY"
      <4>1. CASE j = i
        BY <4>1, <3>2, <3>3, <1>1, <1>2
      <4>2. CASE j # i
        BY <4>2, <3>1, <3>2, <3>3, <1>1, <1>2, <1>5
      <4> QED BY <4>1, <4>2
    <3> QED BY <3>3
  <2>4. \A j \in Symp!Phil : place'[j] \notin {"absent", "gone"} => table' = "made"
    BY <1>1, <1>2
  <2> QED BY <1>4, <2>1, <2>2, <2>3, <2>4 DEF Symp!TableInv, Moods
<1>8. Present' = Present
  BY <1>1, <1>2 DEF Present
<1>9. HostInv'
  BY <1>1, <1>8, HostKept DEF SympInv
<1> QED BY <1>4, <1>6, <1>7, <1>9 DEF SympInv

\* Cond_Wait returns.
LEMMA WakeStep ==
  ASSUME SympInv, NEW i \in Symp!Phil, Symp!Wake(i)
  PROVE  SympInv'
<1>1. /\ place[i] = "wait" /\ UNCHANGED <<state, host, kind, table>>
      /\ \/ state[i] = "HUNGRY" /\ sleeping' = sleeping \cup {i} /\ UNCHANGED place
         \/ /\ state[i] # "HUNGRY" /\ place' = [place EXCEPT ![i] = "eat"]
            /\ UNCHANGED sleeping
  BY DEF Symp!Wake
<1>2. /\ table = "made" /\ state[i] \in {"HUNGRY", "EATING"}
      /\ state \in [Symp!Phil -> Moods] /\ place \in [Symp!Phil -> Stages]
      /\ sleeping \subseteq Symp!Phil
  <2>1. state[i] \in Moods
    BY DEF SympInv
  <2> QED BY <1>1, <2>1 DEF SympInv, MoodInv, Symp!TableInv, Moods
<1>3. place' \in [Symp!Phil -> Stages] /\ MoodInv' /\ sleeping' \subseteq Symp!Phil
  BY <1>1, <1>2 DEF SympInv, MoodInv, Stages
<1>4. Symp!TableInv'
  <2>1. \A j \in sleeping' : place'[j] = "wait" /\ state'[j] = "HUNGRY"
    <3>1. \A j \in sleeping : place[j] = "wait" /\ state[j] = "HUNGRY"
      BY DEF SympInv, Symp!TableInv
    <3> QED BY <3>1, <1>1, <1>2
  <2>2. \A j \in Symp!Phil : place'[j] \notin {"absent", "gone"} => table' = "made"
    BY <1>1, <1>2
  <2> QED BY <1>1, <2>1, <2>2 DEF SympInv, Symp!TableInv
<1>5. Present' = Present
  BY <1>1, <1>2 DEF Present
<1>6. HostInv'
  BY <1>1, <1>5, HostKept DEF SympInv
<1> QED BY <1>1, <1>2, <1>3, <1>4, <1>6 DEF SympInv

\* The philosopher has eaten: both neighbours try, and who of them stays hungry
\* has its other neighbour eat.
LEMMA ThinkStep ==
  ASSUME SympInv, NEW i \in Symp!Phil, Symp!Think(i)
  PROVE  SympInv'
<1> DEFINE L == Symp!LEFT(i)
           R == Symp!RIGHT(i)
           s0 == [state EXCEPT ![i] = "THINKING"]
           s1 == Symp!trytoeat(s0, L)
<1>1. /\ place[i] = "eat" /\ state' = Symp!trytoeat(s1, R)
      /\ place' = [place EXCEPT ![i] = "think"]
      /\ sleeping' = {j \in sleeping : ~ (state'[j] = "EATING" /\ state[j] # "EATING")}
      /\ UNCHANGED <<host, kind, table>>
  BY DEF Symp!Think, Symp!Monitor, Symp!PutDown
<1>2. /\ table = "made"
      /\ state \in [Symp!Phil -> Moods] /\ place \in [Symp!Phil -> Stages]
      /\ sleeping \subseteq Symp!Phil /\ L \in Symp!Phil /\ R \in Symp!Phil
  BY <1>1, Neighbours DEF SympInv, MoodInv, Symp!TableInv
<1>3. s0 \in [Symp!Phil -> Moods] /\ Apart(s0)
  <2>1. s0 \in [Symp!Phil -> Moods]
    BY <1>2 DEF Moods
  <2>2. \A j \in Symp!Phil : Symp!LEFT(j) \in Symp!Phil
    BY Neighbours
  <2>3. Apart(s0)
    BY <1>2, <2>2 DEF Apart, SympInv, Symp!TableInv
  <2> QED BY <2>1, <2>3
<1>4. /\ s1 \in [Symp!Phil -> Moods] /\ Apart(s1)
      /\ \A j \in Symp!Phil : s1[j] = s0[j] \/ (s0[j] = "HUNGRY" /\ s1[j] = "EATING")
      /\ s1[L] = "HUNGRY" => "EATING" \in {s1[Symp!LEFT(L)], s1[Symp!RIGHT(L)]}
  <2> HIDE DEF s0, L
  <2> QED BY <1>2, <1>3, TryToEat
<1>5. /\ state' \in [Symp!Phil -> Moods] /\ Apart(state')
      /\ \A j \in Symp!Phil : state'[j] = s1[j] \/ (s1[j] = "HUNGRY" /\ state'[j] = "EATING")
      /\ state'[R] = "HUNGRY" => "EATING" \in {state'[Symp!LEFT(R)], state'[Symp!RIGHT(R)]}
  <2> HIDE DEF s1, R
  <2> QED BY <1>1, <1>2, <1>4, TryToEat
<1>6. \A j \in Symp!Phil :
        /\ s1[j] = "EATING" => state'[j] = "EATING"
        /\ state'[j] = "HUNGRY" => s1[j] = "HUNGRY" /\ s0[j] = "HUNGRY"
        /\ \/ state'[j] = s0[j]
           \/ s0[j] = "HUNGRY" /\ state'[j] = "EATING"
  <2> HIDE DEF s1, s0
  <2> QED BY <1>4, <1>5
<1>7. /\ state'[i] = "THINKING"
      /\ \A j \in Symp!Phil : j # i => /\ \/ state'[j] = state[j]
                                          \/ state[j] = "HUNGRY" /\ state'[j] = "EATING"
                                       /\ state'[j] = "HUNGRY" => state[j] = "HUNGRY"
  <2> HIDE DEF s1
  <2> QED BY <1>2, <1>6
<1>8. place' \in [Symp!Phil -> Stages] /\ MoodInv' /\ sleeping' \subseteq Symp!Phil
  <2>1. place' \in [Symp!Phil -> Stages] /\ sleeping' \subseteq Symp!Phil
    BY <1>1, <1>2 DEF Stages
  <2>2. ASSUME NEW j \in Symp!Phil
        PROVE  /\ place'[j] \in {"absent", "arrive", "gone"} <=> state'[j] = "NOTHERE"
               /\ place'[j] = "think" <=> state'[j] = "THINKING"
               /\ place'[j] = "eat" => state'[j] = "EATING"
               /\ state'[j] = "HUNGRY" => place'[j] = "wait"
    <3>1. CASE j = i
      BY <3>1, <1>1, <1>2, <1>7
    <3>2. CASE j # i
      <4>1. place'[j] = place[j]
        BY <3>2, <1>1, <1>2
      <4>2. CASE state'[j] = state[j]
        BY <4>1, <4>2 DEF SympInv, MoodInv
      <4>3. CASE state[j] = "HUNGRY" /\ state'[j] = "EATING"
        BY <4>1, <4>3 DEF SympInv, MoodInv
      <4> QED BY <3>2, <4>2, <4>3, <1>7
    <3> QED BY <3>1, <3>2
  <2> QED BY <2>1, <2>2 DEF MoodInv
<1>9. Symp!TableInv'
  <2>1. \A j \in Symp!Phil : state'[j] = "EATING" /\ N > 1 => state'[Symp!LEFT(j)] # "EATING"
    BY <1>5 DEF Apart
  <2>2. ASSUME NEW j \in Symp!Phil, state'[j] = "HUNGRY"
        PROVE  "EATING" \in {state'[Symp!LEFT(j)], state'[Symp!RIGHT(j)]}
    <3>1. /\ j # i /\ state[j] = "HUNGRY"
          /\ Symp!LEFT(j) \in Symp!Phil /\ Symp!RIGHT(j) \in Symp!Phil
          /\ Symp!LEFT(Symp!RIGHT(j)) = j /\ Symp!RIGHT(Symp!LEFT(j)) = j
      BY <2>2, <1>7, Neighbours
    <3>2. CASE j = R
      BY <3>2, <2>2, <1>5
    <3>3. CASE j = L
      <4>1. s1[L] = "HUNGRY"
        BY <3>3, <2>2, <1>6
      <4>2. "EATING" \in {s1[Symp!LEFT(j)], s1[Symp!RIGHT(j)]}
        BY <4>1, <3>3, <1>4
      <4> QED BY <4>2, <3>1, <1>6
    <3>4. CASE j # L /\ j # R
      <4>1. Symp!LEFT(j) # i /\ Symp!RIGHT(j) # i
        BY <3>1, <3>4
      <4>2. "EATING" \in {state[Symp!LEFT(j)], state[Symp!RIGHT(j)]}
        BY <3>1 DEF SympInv, Symp!TableInv
      <4>3. \A k \in Symp!Phil : k # i /\ state[k] = "EATING" => state'[k] = "EATING"
        BY <1>7
      <4> QED BY <3>1, <4>1, <4>2, <4>3
    <3> QED BY <3>2, <3>3, <3>4
  <2>3. \A j \in sleeping' : place'[j] = "wait" /\ state'[j] = "HUNGRY"
    <3>1. \A j \in sleeping : place[j] = "wait" /\ state[j] = "HUNGRY"
      BY DEF SympInv, Symp!TableInv
    <3>2. \A j \in sleeping : j # i /\ j \in Symp!Phil
      BY <3>1, <1>1, <1>2
    <3> QED BY <3>1, <3>2, <1>1, <1>2, <1>7
  <2>4. \A j \in Symp!Phil : place'[j] \notin {"absent", "gone"} => table' = "made"
    BY <1>1, <1>2
  <2> QED BY <1>5, <2>1, <2>2, <2>3, <2>4 DEF Symp!TableInv, Moods
<1>10. Present' = Present
  BY <1>1, <1>2 DEF Present
<1>11. HostInv'
  BY <1>1, <1>10, HostKept DEF SympInv
<1> QED BY <1>5, <1>8, <1>9, <1>11 DEF SympInv

\* The host: it starts who is absent, collects who is gone, and destroys a table
\* that everybody has left.
LEMMA HostStep ==
  ASSUME SympInv, Symp!Host
  PROVE  SympInv'
<1>1. /\ state \in [Symp!Phil -> Moods] /\ place \in [Symp!Phil -> Stages]
      /\ sleeping \subseteq Symp!Phil /\ N \in Nat /\ N >= 1
      /\ IsFiniteSet(Symp!Phil) /\ Cardinality(Symp!Phil) = N
      /\ Present \subseteq Symp!Phil /\ IsFiniteSet(Present)
      /\ Cardinality(Present) \in Nat /\ Cardinality(Present) <= N
  <2>1. N \in Nat /\ N >= 1
    BY ProgramsAssumption
  <2>2. IsFiniteSet(Symp!Phil) /\ Cardinality(Symp!Phil) = N
    BY <2>1, FS_Interval DEF Symp!Phil
  <2>3. Present \subseteq Symp!Phil
    BY DEF Present
  <2>4. IsFiniteSet(Present) /\ Cardinality(Present) <= N
    BY <2>2, <2>3, FS_Subset
  <2>5. Cardinality(Present) \in Nat
    BY <2>4, FS_CardinalityType
  <2> QED BY <2>1, <2>2, <2>3, <2>4, <2>5 DEF SympInv
<1>2. /\ UNCHANGED <<state, sleeping>>
  BY DEF Symp!Host, Symp!HostInit, Symp!HostStart, Symp!HostStarted, Symp!HostWait,
         Symp!HostDestroy, Symp!philVars
\* What the invariant says of the philosophers, when the host moves one that is
\* not at the table.
<1>3. ASSUME NEW k \in Symp!Phil, NEW lbl \in {"arrive", "absent"}, place' = [place EXCEPT ![k] = lbl],
             place[k] \in {"absent", "gone"}, table = "made", table' = "made"
      PROVE  place' \in [Symp!Phil -> Stages] /\ MoodInv' /\ Symp!TableInv'
  <2>1. place' \in [Symp!Phil -> Stages]
    BY <1>1, <1>3 DEF Stages
  <2>2. MoodInv'
    BY <1>1, <1>2, <1>3 DEF SympInv, MoodInv
  <2>3. \A j \in sleeping' : place'[j] = "wait" /\ state'[j] = "HUNGRY"
    <3>1. \A j \in sleeping : place[j] = "wait" /\ state[j] = "HUNGRY"
      BY DEF SympInv, Symp!TableInv
    <3> QED BY <3>1, <1>1, <1>2, <1>3
  <2>4. Symp!TableInv'
    BY <1>2, <1>3, <2>3 DEF SympInv, Symp!TableInv
  <2> QED BY <2>1, <2>2, <2>4
<1>4. ASSUME UNCHANGED place, \/ table' = "made"
                              \/ Present = {}
      PROVE  place' \in [Symp!Phil -> Stages] /\ MoodInv' /\ Symp!TableInv' /\ Present' = Present
  <2>1. place' \in [Symp!Phil -> Stages] /\ MoodInv' /\ Present' = Present
    BY <1>1, <1>2, <1>4 DEF SympInv, MoodInv, Present
  <2>2. \A j \in Symp!Phil : place'[j] \notin {"absent", "gone"} => table' = "made"
    BY <1>4 DEF Present
  <2>3. Symp!TableInv'
    BY <1>2, <1>4, <2>2 DEF SympInv, Symp!TableInv
  <2> QED BY <2>1, <2>3
<1>5. CASE Symp!HostInit
  <2>1. Present = {} /\ UNCHANGED place /\ table' = "made" /\ host' = <<"start", 0>>
        /\ kind' \in {"processes", "threads"}
    BY <1>5 DEF Symp!HostInit, Symp!philVars, SympInv, HostInv
  <2>2. HostInv'
    BY <2>1, <1>1, <1>4 DEF HostInv
  <2> QED BY <2>1, <2>2, <1>1, <1>2, <1>4 DEF SympInv
<1>6. CASE Symp!HostStart
  <2>1. PICK k \in 0 .. N : host = <<"start", k>> /\ table = "made" /\ Present \subseteq 0 .. k - 1
    BY <1>6 DEF Symp!HostStart, SympInv, HostInv
  <2>2. /\ k < N /\ UNCHANGED <<table, kind>> /\ host' = <<"start", k + 1>>
        /\ \/ place' = [place EXCEPT ![k] = "arrive"]
           \/ UNCHANGED place
    BY <1>6, <2>1 DEF Symp!HostStart
  <2>3. k \in Symp!Phil /\ k + 1 \in 0 .. N /\ k \notin 0 .. k - 1
    BY <1>1, <2>2 DEF Symp!Phil
  <2>4. place[k] = "absent"
    BY <2>1, <2>3 DEF Present
  <2>5. place' \in [Symp!Phil -> Stages] /\ MoodInv' /\ Symp!TableInv'
    <3>1. CASE place' = [place EXCEPT ![k] = "arrive"]
      BY <3>1, <1>3, <2>1, <2>2, <2>3, <2>4
    <3>2. CASE UNCHANGED place
      BY <3>2, <1>4, <2>1, <2>2
    <3> QED BY <2>2, <3>1, <3>2
  <2>6. Present' \subseteq 0 .. (k + 1) - 1
    <3>1. Present' \subseteq Present \cup {k}
      BY <1>1, <2>2 DEF Present
    <3> QED BY <3>1, <2>1, <2>3
  <2>7. HostInv'
    BY <2>1, <2>2, <2>3, <2>6 DEF SympInv, HostInv
  <2> QED BY <2>5, <2>7, <1>1, <1>2 DEF SympInv
<1>7. CASE Symp!HostStarted
  <2>1. /\ host = <<"start", N>> /\ host' = <<"wait", 0>> /\ UNCHANGED <<place, table, kind>>
    BY <1>7 DEF Symp!HostStarted, Symp!philVars
  <2>2. table = "made" /\ kind \in {"processes", "threads"}
    BY <2>1 DEF SympInv, HostInv
  <2>3. place' \in [Symp!Phil -> Stages] /\ MoodInv' /\ Symp!TableInv' /\ Present' = Present
    BY <1>4, <2>1, <2>2
  <2>4. HostInv'
    <3>1. 0 \in 0 .. N /\ Present \subseteq 0 .. N - 1 /\ Cardinality(Present) <= N - 0
      BY <1>1 DEF Symp!Phil
    <3> QED BY <3>1, <2>1, <2>2, <2>3 DEF HostInv
  <2> QED BY <2>3, <2>4, <1>1, <1>2 DEF SympInv
<1>8. CASE Symp!HostWait
  <2>1. PICK k \in 0 .. N : /\ host = <<"wait", k>> /\ table = "made"
                            /\ kind = "threads" => Present \subseteq k .. N - 1
                            /\ kind = "processes" => Cardinality(Present) <= N - k
    BY <1>8 DEF Symp!HostWait, SympInv, HostInv
  <2>2. /\ k < N /\ UNCHANGED <<table, kind>> /\ host' = <<"wait", k + 1>> /\ Symp!Collect
        /\ k + 1 \in 0 .. N /\ k \in Symp!Phil /\ kind \in {"processes", "threads"}
    BY <1>1, <1>8, <2>1 DEF Symp!HostWait, Symp!Phil, SympInv, HostInv
  \* The one that is collected is no longer present.
  <2>3. ASSUME NEW i \in Symp!Phil, place[i] = "gone", place' = [place EXCEPT ![i] = "absent"]
        PROVE  /\ place' \in [Symp!Phil -> Stages] /\ MoodInv' /\ Symp!TableInv'
               /\ i \in Present /\ Present' = Present \ {i}
    <3>1. place' \in [Symp!Phil -> Stages] /\ MoodInv' /\ Symp!TableInv'
      BY <1>3, <2>1, <2>2, <2>3
    <3>2. i \in Present /\ Present' = Present \ {i}
      BY <1>1, <2>3 DEF Present
    <3> QED BY <3>1, <3>2
  <2>4. CASE kind = "processes" /\ \E i \in Symp!Phil :
               place[i] = "gone" /\ place' = [place EXCEPT ![i] = "absent"]
    <3>1. PICK i \in Symp!Phil : place[i] = "gone" /\ place' = [place EXCEPT ![i] = "absent"]
      BY <2>4
    <3>2. Cardinality(Present') = Cardinality(Present) - 1
      BY <3>1, <2>3, <1>1, FS_RemoveElement
    <3>3. Cardinality(Present') <= N - (k + 1)
      BY <3>2, <2>1, <2>2, <2>4, <1>1
    <3>4. HostInv'
      BY <3>3, <2>1, <2>2, <2>4 DEF HostInv
    <3> QED BY <3>1, <3>4, <2>3, <1>1, <1>2 DEF SympInv
  <2>5. CASE kind = "processes" /\ (\A i \in Symp!Phil : place[i] = "absent") /\ UNCHANGED place
    <3>1. Present = {} /\ Cardinality(Present) = 0
      BY <2>5, FS_EmptySet DEF Present
    <3>2. place' \in [Symp!Phil -> Stages] /\ MoodInv' /\ Symp!TableInv' /\ Present' = Present
      BY <2>5, <1>4, <2>1, <2>2
    <3>3. 0 <= N - (k + 1)
      BY <2>2, <1>1
    <3>4. HostInv'
      BY <3>1, <3>2, <3>3, <2>1, <2>2, <2>5 DEF HostInv
    <3> QED BY <3>2, <3>4, <1>1, <1>2 DEF SympInv
  <2>6. CASE kind = "threads" /\ place[k] = "gone" /\ place' = [place EXCEPT ![k] = "absent"]
    <3>1. Present' = Present \ {k}
      BY <2>2, <2>3, <2>6
    <3>2. Present' \subseteq k + 1 .. N - 1
      BY <3>1, <2>1, <2>6, <1>1 DEF Symp!Phil
    <3>3. HostInv'
      BY <3>2, <2>1, <2>2, <2>6 DEF HostInv
    <3> QED BY <3>3, <2>2, <2>3, <2>6, <1>1, <1>2 DEF SympInv
  <2> QED BY <2>1, <2>2, <2>4, <2>5, <2>6 DEF Symp!Collect
<1>9. CASE Symp!HostDestroy
  <2>1. /\ host = <<"wait", N>> /\ host' = <<"done", 0>> /\ UNCHANGED <<place, kind>>
        /\ kind \in {"processes", "threads"}
    BY <1>9 DEF Symp!HostDestroy, Symp!philVars, SympInv, HostInv
  <2>2. /\ kind = "threads" => Present \subseteq N .. N - 1
        /\ kind = "processes" => Cardinality(Present) <= N - N
    BY <2>1 DEF SympInv, HostInv
  <2>3. Present = {}
    <3>1. CASE kind = "threads"
      BY <3>1, <2>2, <1>1
    <3>2. CASE kind = "processes"
      <4>1. Cardinality(Present) = 0
        BY <3>2, <2>2, <1>1
      <4> QED BY <4>1, <1>1, FS_EmptySet
    <3> QED BY <2>1, <3>1, <3>2
  <2>4. place' \in [Symp!Phil -> Stages] /\ MoodInv' /\ Symp!TableInv' /\ Present' = Present
    BY <1>4, <2>1, <2>3
  <2>5. HostInv'
    BY <2>1, <2>3, <2>4, <1>1 DEF HostInv
  <2> QED BY <2>4, <2>5, <1>1, <1>2 DEF SympInv
<1> QED BY <1>5, <1>6, <1>7, <1>8, <1>9 DEF Symp!Host

\* Neighbours never eat at once, and nobody hungry is forgotten: the philosophers
\* of every symposium, of processes or of threads.
THEOREM SymposiumTheorem == ProgramsSpec => []SymposiumInv
<1> DEFINE I == task = "symposium" => SympInv
<1>1. boot => I
  <2> SUFFICES ASSUME boot PROVE SympInv
    OBVIOUS
  <2>1. Symp!Init
    BY DEF boot
  <2>2. /\ state \in [Symp!Phil -> Moods] /\ place \in [Symp!Phil -> Stages]
        /\ sleeping \subseteq Symp!Phil /\ MoodInv /\ Symp!TableInv
    BY <2>1 DEF Symp!Init, Moods, Stages, MoodInv, Symp!TableInv
  <2>3. Present = {} /\ 0 \in 0 .. N
    BY <2>1, ProgramsAssumption DEF Symp!Init, Present
  <2>4. HostInv
    BY <2>1, <2>3 DEF Symp!Init, HostInv
  <2> QED BY <2>2, <2>4 DEF SympInv
<1>2. I /\ [ProgramsNext]_programVars => I'
  <2> SUFFICES ASSUME I, [ProgramsNext]_programVars PROVE I'
    OBVIOUS
  <2>1. CASE task = "symposium" /\ Symp!Next /\ UNCHANGED task
    <3>1. SympInv'
      BY <2>1, HostStep, ComeOrGo, HungryStep, WakeStep, ThinkStep
         DEF Symp!Next, Symp!Philosopher
    <3> QED BY <3>1
  <2>2. CASE UNCHANGED <<task, sympVars>>
    BY <2>2 DEF sympVars, SympInv, MoodInv, HostInv, Present, Symp!TableInv
  <2>3. CASE task # "symposium" /\ UNCHANGED task
    BY <2>3
  <2> QED BY <2>1, <2>2, <2>3 DEF ProgramsNext, programVars
<1>3. I => SymposiumInv
  BY DEF SymposiumInv, SympInv
<1> QED BY <1>1, <1>2, <1>3, PTL DEF ProgramsSpec

-----------------------------------------------------------------------------
(* The remote server.                                                      *)

Counts == 0 .. SizeMax - 1
Counting == {"count", "store", "spawn"}
ThreadStates == {"none", "id", "recv", "read", "exec", "wait", "any", "asleep",
                 "finish", "dec", "ended"}
ClientStates == {"idle", "connecting", "connected", "sent", "gone", "done"}

ServerType ==
  /\ lis \in {"start", "listening", "call", "accept", "ended"} \cup Counting
  /\ con \in {"loop", "join", "drain", "asleep", "left", "eof"}
  /\ {active_conn, loaded} \subseteq Counts /\ value \in [Server!Conn -> Counts]
  /\ raced \in BOOLEAN /\ log \in Nat /\ conn_id_counter \in Nat
  /\ thr \in [Server!Conn -> ThreadStates]
  /\ cli \in [Server!Conn -> ClientStates]
  /\ ID \in [Server!Conn -> 0 .. conn_id_counter]

\* A thread serves a client that has been accepted, and the one that the
\* listener is about to start has not been there before.
ServedInv ==
  /\ \A k \in Server!Conn : thr[k] # "none" => cli[k] \notin {"idle", "connecting"}
  /\ lis \in Counting => /\ cur \in Server!Conn
                         /\ thr[cur] = "none" /\ cli[cur] \notin {"idle", "connecting"}

\* Once the console waits for the connections there is no listener.
DrainInv == con \in {"drain", "asleep", "left"} => lis = "ended"

\* What ServerInv says.
ServerPromise ==
  /\ ~ raced => active_conn = Cardinality(Server!Counted)
  /\ con = "left" /\ ~ raced => Server!Busy = {} /\ lis = "ended" /\ log = 0
  /\ \A j, k \in Server!Conn : ID[j] = ID[k] /\ ID[j] # 0 => j = k

ServerIInv == ServerType /\ ServedInv /\ DrainInv /\ ServerPromise

\* The connections whose threads run are finite in number, and fit in size_t.
LEMMA ServerConstants ==
  /\ K \in Nat /\ SizeMax \in Nat /\ K < SizeMax
  /\ IsFiniteSet(Server!Conn) /\ Cardinality(Server!Conn) = K
<1>1. K \in Nat /\ SizeMax \in Nat /\ K < SizeMax
  BY ProgramsAssumption
<1>2. IsFiniteSet(1 .. K) /\ Cardinality(1 .. K) = IF 1 > K THEN 0 ELSE K - 1 + 1
  BY <1>1, FS_Interval
<1> QED BY <1>1, <1>2 DEF Server!Conn

LEMMA CountedFinite ==
  ASSUME ServerType, ServedInv
  PROVE  /\ Server!Counted \subseteq Server!Conn
         /\ IsFiniteSet(Server!Counted) /\ Cardinality(Server!Counted) \in 0 .. K
<1>1. Server!Counted \subseteq Server!Conn
  BY DEF Server!Counted, Server!Busy, ServedInv, Counting
<1> QED BY <1>1, ServerConstants, FS_Subset, FS_CardinalityType

\* A step that neither counts a connection nor starts or ends a thread leaves
\* the count as it was.
LEMMA ServerFrame ==
  ASSUME ServerIInv,
         UNCHANGED <<active_conn, raced>>,
         \A k \in Server!Conn : /\ thr[k] = "none" <=> thr'[k] = "none"
                                /\ thr[k] = "ended" <=> thr'[k] = "ended",
         lis' = "spawn" <=> lis = "spawn", lis = "spawn" => cur' = cur
  PROVE  /\ Server!Counted' = Server!Counted /\ Server!Busy' = Server!Busy
         /\ (~ raced => active_conn = Cardinality(Server!Counted))'
<1>1. Server!Busy' = Server!Busy
  BY DEF Server!Busy, ServerIInv, ServerType
<1>2. Server!Counted' = Server!Counted
  BY <1>1 DEF Server!Counted
<1> QED BY <1>1, <1>2 DEF ServerIInv, ServerPromise

\* The listener, but for its count.
LEMMA ListenerThreadStep ==
  ASSUME ServerIInv,
         \/ Server!Listen \/ Server!Publish \/ Server!EnterAccept \/ Server!AcceptFails
         \/ Server!AcceptExhausted \/ Server!CountLoad
         \/ \E k \in Server!Conn : Server!Accept(k)
  PROVE  ServerIInv'
<1> USE DEF Counting, ClientStates, Counts
<1>1. /\ UNCHANGED <<con, active_conn, raced, thr, value, ID, conn_id_counter>>
      /\ lis \notin {"spawn", "ended"} /\ lis' # "spawn"
      /\ log' \in Nat /\ loaded' \in Counts
      /\ lis' \in {"start", "listening", "call", "accept", "ended"} \cup Counting
  BY DEF Server!Listen, Server!Publish, Server!EnterAccept, Server!AcceptFails, Server!AcceptExhausted,
         Server!CountLoad, Server!Accept, Server!counters, Server!threads,
         ServerIInv, ServerType
<1>2. cli' \in [Server!Conn -> ClientStates] /\ ServedInv'
  <2>1. CASE \E k \in Server!Conn : Server!Accept(k)
    BY <2>1, <1>1 DEF Server!Accept, ServerIInv, ServerType, ServedInv
  <2>2. CASE UNCHANGED cli /\ (lis' \in Counting => lis \in Counting /\ cur' = cur)
    BY <2>2, <1>1 DEF ServerIInv, ServerType, ServedInv
  <2> QED BY <2>1, <2>2 DEF Server!Listen, Server!Publish, Server!EnterAccept,
                            Server!AcceptFails, Server!AcceptExhausted, Server!CountLoad
<1>3. ServerType'
  BY <1>1, <1>2 DEF ServerIInv, ServerType
<1>4. (~ raced => active_conn = Cardinality(Server!Counted))' /\ Server!Busy' = Server!Busy
  BY <1>1, ServerFrame DEF ServerIInv, ServerType
<1>5. con \notin {"drain", "asleep", "left"}
  BY <1>1 DEF ServerIInv, DrainInv
<1>6. DrainInv' /\ ServerPromise'
  BY <1>1, <1>4, <1>5 DEF DrainInv, ServerIInv, ServerPromise
<1> QED BY <1>2, <1>3, <1>6 DEF ServerIInv

\* Modulo the size of size_t nothing is lost on either way.
LEMMA UpAndDown ==
  ASSUME NEW n \in Nat, NEW m \in Nat, n < m
  PROVE  /\ n + 1 < m => (n + 1) % m = n + 1
         /\ n > 0 => (n + m - 1) % m = n - 1
         /\ (n + 1) % m \in 0 .. m - 1 /\ (n + m - 1) % m \in 0 .. m - 1
<1>1. m > 0 /\ n + m - 1 \in Nat
  OBVIOUS
<1>2. /\ n + 1 < m => (n + 1) % m = n + 1
      /\ (n + 1) % m \in 0 .. m - 1 /\ (n + m - 1) % m \in 0 .. m - 1
  BY <1>1
<1>3. ASSUME n > 0
      PROVE  (n + m - 1) % m = n - 1
  <2>1. n + m - 1 = 1 * m + (n - 1) /\ n - 1 \in 0 .. m - 1
    BY <1>3
  <2> QED BY <1>1, <2>1
<1> QED BY <1>2, <1>3

\* The listener counts the connection, and starts its thread.
LEMMA CountStep ==
  ASSUME ServerIInv, Server!CountStore \/ Server!Spawn
  PROVE  ServerIInv'
<1> USE DEF Counting, ClientStates, ThreadStates
<1>1. /\ con \notin {"drain", "asleep", "left"} /\ UNCHANGED con
      /\ cur \in Server!Conn /\ thr[cur] = "none" /\ cur \notin Server!Busy
      /\ UNCHANGED <<cur, value, ID, conn_id_counter, log, cli, loaded>>
  BY DEF Server!CountStore, Server!Spawn, Server!counters, Server!threads, ServerIInv,
         ServedInv, DrainInv, Server!Busy
<1>2. /\ IsFiniteSet(Server!Counted) /\ Server!Counted \subseteq Server!Conn
      /\ Cardinality(Server!Counted) \in 0 .. K
  BY CountedFinite DEF ServerIInv
<1>3. CASE Server!CountStore
  <2>1. /\ lis = "store" /\ lis' = "spawn" /\ UNCHANGED thr
        /\ active_conn' = (loaded + 1) % SizeMax
        /\ raced' = (raced \/ loaded # active_conn)
    BY <1>3 DEF Server!CountStore, Server!threads
  <2>2. loaded \in Nat /\ loaded < SizeMax /\ SizeMax \in Nat
    BY ServerConstants DEF ServerIInv, ServerType, Counts
  <2>3. active_conn' \in Counts
    BY <2>1, <2>2, UpAndDown DEF Counts
  <2>4. Server!Counted' = Server!Counted \cup {cur} /\ cur \notin Server!Counted
    BY <1>1, <2>1 DEF Server!Counted, Server!Busy
  <2>5. /\ IsFiniteSet(Server!Counted')
        /\ Cardinality(Server!Counted') = Cardinality(Server!Counted) + 1
    BY <1>2, <2>4, FS_AddElement
  <2>6. Cardinality(Server!Counted') <= K
    <3>1. Server!Counted' \subseteq Server!Conn
      BY <1>1, <1>2, <2>4
    <3> QED BY <3>1, ServerConstants, FS_Subset
  <2>7. ~ raced' => active_conn' = Cardinality(Server!Counted')
    <3>1. SUFFICES ASSUME ~ raced' PROVE active_conn' = Cardinality(Server!Counted')
      OBVIOUS
    <3>2. loaded = active_conn /\ active_conn = Cardinality(Server!Counted)
      BY <2>1, <3>1 DEF ServerIInv, ServerPromise
    <3>3. loaded + 1 < SizeMax
      BY <1>2, <2>5, <2>6, <3>2, ServerConstants
    <3> QED BY <2>1, <2>2, <2>5, <3>2, <3>3, UpAndDown
  <2>8. ServerType' /\ ServedInv' /\ DrainInv'
    BY <1>1, <2>1, <2>3 DEF ServerIInv, ServerType, ServedInv, DrainInv
  <2> QED BY <1>1, <2>7, <2>8 DEF ServerIInv, ServerPromise
<1>4. CASE Server!Spawn
  <2>1. /\ lis = "spawn" /\ lis' = "call" /\ thr' = [thr EXCEPT ![cur] = "id"]
        /\ UNCHANGED <<active_conn, raced>>
    BY <1>4 DEF Server!Spawn, Server!counters
  <2>2. Server!Counted' = Server!Counted
    BY <1>1, <2>1 DEF Server!Counted, Server!Busy, ServerIInv, ServerType
  <2>3. ServerType' /\ ServedInv' /\ DrainInv'
    BY <1>1, <2>1 DEF ServerIInv, ServerType, ServedInv, DrainInv
  <2> QED BY <1>1, <2>1, <2>2, <2>3 DEF ServerIInv, ServerPromise
<1> QED BY <1>3, <1>4

\* A thread of a connection, before it gives its count back.
LEMMA ClientStep ==
  ASSUME ServerIInv, NEW k \in Server!Conn,
         \/ Server!TakeID(k) \/ Server!ReceiveSleeps(k) \/ Server!Receive(k)
         \/ Server!ReceiveEnds(k) \/ Server!ExecuteCommand(k) \/ Server!WaitKid(k)
         \/ Server!WaitAny(k) \/ Server!FinishLoad(k)
  PROVE  ServerIInv'
<1>1. /\ UNCHANGED <<con, lis, cur, loaded, active_conn, raced, cli>>
      /\ thr[k] \notin {"none", "ended"}
      /\ \E s \in ThreadStates \ {"none", "ended"} : thr' = [thr EXCEPT ![k] = s]
      /\ log' \in Nat
      /\ UNCHANGED value \/ value' = [value EXCEPT ![k] = active_conn]
  BY DEF Server!TakeID, Server!ReceiveSleeps, Server!Receive, Server!ReceiveEnds,
         Server!ExecuteCommand, Server!WaitKid, Server!WaitAny, Server!FinishLoad,
         Server!counters, ServerIInv, ServerType, ThreadStates
<1>2. PICK s \in ThreadStates \ {"none", "ended"} : thr' = [thr EXCEPT ![k] = s]
  BY <1>1
<1>3. /\ thr' \in [Server!Conn -> ThreadStates]
      /\ \A j \in Server!Conn : /\ thr[j] = "none" <=> thr'[j] = "none"
                                /\ thr[j] = "ended" <=> thr'[j] = "ended"
  BY <1>1, <1>2 DEF ServerIInv, ServerType
<1>4. /\ Server!Busy' = Server!Busy
      /\ (~ raced => active_conn = Cardinality(Server!Counted))'
  BY <1>1, <1>3, ServerFrame
<1>5. k \in Server!Busy
  BY <1>1 DEF Server!Busy
<1>6. /\ conn_id_counter' \in Nat /\ ID' \in [Server!Conn -> 0 .. conn_id_counter']
      /\ \A i, j \in Server!Conn : ID'[i] = ID'[j] /\ ID'[i] # 0 => i = j
  <2>1. CASE UNCHANGED <<ID, conn_id_counter>>
    BY <2>1 DEF ServerIInv, ServerType, ServerPromise
  <2>2. CASE /\ conn_id_counter' = conn_id_counter + 1
             /\ ID' = [ID EXCEPT ![k] = conn_id_counter + 1]
    <3>1. conn_id_counter \in Nat /\ \A j \in Server!Conn : ID[j] \in 0 .. conn_id_counter
      BY DEF ServerIInv, ServerType
    <3>2. /\ ID' \in [Server!Conn -> 0 .. conn_id_counter']
          /\ \A j \in Server!Conn : ID'[j] = IF j = k THEN conn_id_counter + 1 ELSE ID[j]
      BY <2>2, <3>1 DEF ServerIInv, ServerType
    <3>3. \A i, j \in Server!Conn : ID[i] = ID[j] /\ ID[i] # 0 => i = j
      BY DEF ServerIInv, ServerPromise
    <3> QED BY <2>2, <3>1, <3>2, <3>3
  <2> QED BY <2>1, <2>2 DEF Server!TakeID, Server!ReceiveSleeps, Server!Receive,
                            Server!ReceiveEnds, Server!ExecuteCommand, Server!WaitKid,
                            Server!WaitAny, Server!FinishLoad
<1>7. ServerType'
  BY <1>1, <1>3, <1>6 DEF ServerIInv, ServerType
<1>8. ServedInv' /\ DrainInv'
  BY <1>1, <1>3 DEF ServerIInv, ServedInv, DrainInv
<1>9. ~ (con = "left" /\ ~ raced)
  BY <1>5 DEF ServerIInv, ServerPromise
<1> QED BY <1>1, <1>4, <1>6, <1>7, <1>8, <1>9 DEF ServerIInv, ServerPromise

\* active_conn-- of a thread that has counted.
LEMMA FinishStep ==
  ASSUME ServerIInv, NEW k \in Server!Conn, Server!FinishStore(k)
  PROVE  ServerIInv'
<1>1. /\ UNCHANGED <<lis, cur, loaded, value, ID, conn_id_counter, log, cli>>
      /\ thr[k] = "dec" /\ thr' = [thr EXCEPT ![k] = "ended"]
      /\ active_conn' = (value[k] + SizeMax - 1) % SizeMax
      /\ raced' = (raced \/ value[k] # active_conn)
      /\ con' = IF con = "asleep" THEN "drain" ELSE con
  BY DEF Server!FinishStore
<1>2. value[k] \in Nat /\ value[k] < SizeMax /\ SizeMax \in Nat
  BY ServerConstants DEF ServerIInv, ServerType, Counts
<1>3. active_conn' \in Counts
  BY <1>1, <1>2, UpAndDown DEF Counts
<1>4. k \in Server!Counted /\ k \in Server!Busy
  BY <1>1 DEF Server!Counted, Server!Busy
<1>5. Server!Counted' = Server!Counted \ {k}
  <2>1. lis = "spawn" => cur # k
    BY <1>1 DEF ServerIInv, ServedInv, Counting
  <2>2. Server!Busy' = Server!Busy \ {k}
    BY <1>1 DEF Server!Busy, ServerIInv, ServerType
  <2> QED BY <1>1, <2>1, <2>2 DEF Server!Counted
<1>6. /\ Cardinality(Server!Counted) \in Nat /\ Cardinality(Server!Counted) > 0
      /\ Cardinality(Server!Counted') = Cardinality(Server!Counted) - 1
  <2>1. IsFiniteSet(Server!Counted) /\ Cardinality(Server!Counted) \in 0 .. K
    BY CountedFinite DEF ServerIInv
  <2> HIDE DEF Server!Counted
  <2>2. Cardinality(Server!Counted \ {k}) = Cardinality(Server!Counted) - 1
    BY <2>1, <1>4, FS_RemoveElement
  <2>3. Cardinality(Server!Counted) # 0
    BY <2>1, <1>4, FS_EmptySet
  <2> QED BY <2>1, <2>2, <2>3, <1>5, ServerConstants
<1>7. ~ raced' => active_conn' = Cardinality(Server!Counted')
  <2>1. SUFFICES ASSUME ~ raced' PROVE active_conn' = Cardinality(Server!Counted')
    OBVIOUS
  <2>2. value[k] = active_conn /\ active_conn = Cardinality(Server!Counted)
    BY <1>1, <2>1 DEF ServerIInv, ServerPromise
  <2> QED BY <1>1, <1>2, <1>6, <2>2, UpAndDown
<1>8. ServerType' /\ ServedInv' /\ DrainInv'
  <2>1. ServerType'
    BY <1>1, <1>3 DEF ServerIInv, ServerType, ThreadStates
  <2>2. ServedInv'
    BY <1>1 DEF ServerIInv, ServerType, ServedInv, Counting
  <2> QED BY <1>1, <2>1, <2>2 DEF ServerIInv, DrainInv
<1>9. ~ (con = "left" /\ ~ raced)
  BY <1>4 DEF ServerIInv, ServerPromise
<1> QED BY <1>1, <1>7, <1>8, <1>9 DEF ServerIInv, ServerPromise

\* The console.
LEMMA ConsoleStep ==
  ASSUME ServerIInv, Server!Quit \/ Server!Join \/ Server!Drain \/ Server!ConsoleEof
  PROVE  ServerIInv'
<1>1. /\ UNCHANGED <<lis, cur, loaded, active_conn, raced, thr, value, ID, conn_id_counter, cli>>
      /\ log' \in Nat /\ con' \in {"loop", "join", "drain", "asleep", "left", "eof"}
      /\ con' \in {"drain", "asleep", "left"} => lis = "ended"
      /\ con # "left"
      /\ con' = "left" => active_conn = 0 /\ log' = 0
  BY DEF Server!Quit, Server!Join, Server!Drain, Server!ConsoleEof, Server!counters,
         Server!threads, ServerIInv, ServerType, DrainInv, Counts
<1>2. /\ Server!Busy' = Server!Busy
      /\ (~ raced => active_conn = Cardinality(Server!Counted))'
  BY <1>1, ServerFrame DEF ServerIInv, ServerType
<1>3. con' = "left" /\ ~ raced => Server!Busy = {}
  <2>1. SUFFICES ASSUME con' = "left", ~ raced PROVE Server!Busy = {}
    OBVIOUS
  <2>2. Cardinality(Server!Counted) = 0 /\ Server!Busy \subseteq Server!Counted
    BY <1>1, <2>1 DEF ServerIInv, ServerPromise, Server!Counted
  <2>3. IsFiniteSet(Server!Counted)
    BY CountedFinite DEF ServerIInv
  <2> HIDE DEF Server!Counted, Server!Busy
  <2> QED BY <2>2, <2>3, FS_EmptySet
<1>4. ServerType' /\ ServedInv' /\ DrainInv'
  BY <1>1 DEF ServerIInv, ServerType, ServedInv, DrainInv
<1> QED BY <1>1, <1>2, <1>3, <1>4 DEF ServerIInv, ServerPromise

\* The clients, and the processes of their commands.
LEMMA RemoteStep ==
  ASSUME ServerIInv, NEW k \in Server!Conn,
         Server!KidEnds(k) \/ Server!Connect(k) \/ Server!ConnectFails(k) \/ Server!Send(k)
  PROVE  ServerIInv'
<1>1. /\ UNCHANGED <<con, lis, cur, loaded, active_conn, raced, thr, value, ID,
                     conn_id_counter, log>>
      /\ \/ UNCHANGED cli
         \/ cli[k] \in {"idle", "connecting"} /\ \E s \in ClientStates :
                                                  cli' = [cli EXCEPT ![k] = s]
         \/ \E s \in ClientStates \ {"idle", "connecting"} : cli' = [cli EXCEPT ![k] = s]
  BY DEF Server!KidEnds, Server!Connect, Server!ConnectFails, Server!Send,
         Server!counters, Server!threads, ClientStates
<1>2. /\ cli' \in [Server!Conn -> ClientStates]
      /\ \A j \in Server!Conn : cli[j] \notin {"idle", "connecting"} =>
                                cli'[j] \notin {"idle", "connecting"}
  BY <1>1 DEF ServerIInv, ServerType
<1>3. /\ Server!Busy' = Server!Busy
      /\ (~ raced => active_conn = Cardinality(Server!Counted))'
  BY <1>1, ServerFrame DEF ServerIInv, ServerType
<1>4. ServerType' /\ ServedInv' /\ DrainInv'
  BY <1>1, <1>2 DEF ServerIInv, ServerType, ServedInv, DrainInv
<1> QED BY <1>1, <1>3, <1>4 DEF ServerIInv, ServerPromise

\* The globals of the server outlive its threads, unless an update of their
\* count is lost, with any number of connections.
THEOREM ServerTheorem == ProgramsSpec => []ServerInv
<1> DEFINE I == task = "rserver" => ServerIInv
<1>1. boot => I
  <2> SUFFICES ASSUME boot PROVE ServerIInv
    OBVIOUS
  <2>1. Server!Init /\ K \in Nat /\ SizeMax \in Nat /\ 0 < SizeMax
    BY ServerConstants DEF boot
  <2>2. ServerType
    <3>1. 0 \in Counts /\ 0 \in 0 .. 0
      BY <2>1 DEF Counts
    <3> QED BY <2>1, <3>1 DEF Server!Init, ServerType, ClientStates, ThreadStates
  <2>3. Server!Counted = {} /\ Cardinality({}) = 0
    BY <2>1, FS_EmptySet DEF Server!Init, Server!Counted, Server!Busy
  <2> QED BY <2>1, <2>2, <2>3
             DEF Server!Init, ServerPromise, ServerIInv, ServedInv, DrainInv, Counting
<1>2. I /\ [ProgramsNext]_programVars => I'
  <2> SUFFICES ASSUME I, [ProgramsNext]_programVars PROVE I'
    OBVIOUS
  <2>1. CASE task = "rserver" /\ Server!Next /\ UNCHANGED task
    <3>1. ServerIInv'
      BY <2>1, ListenerThreadStep, CountStep, ClientStep, FinishStep, ConsoleStep, RemoteStep
         DEF Server!Next, Server!ListenerStep, Server!ClientThread, Server!Remote
    <3> QED BY <3>1
  <2>2. CASE UNCHANGED <<task, serverVars>>
    BY <2>2 DEF serverVars, ServerIInv, ServerType, ServedInv, DrainInv,
                ServerPromise, Server!Counted, Server!Busy
  <2>3. CASE task # "rserver" /\ UNCHANGED task
    BY <2>3
  <2> QED BY <2>1, <2>2, <2>3 DEF ProgramsNext, programVars
<1>3. I => ServerInv
  <2>1. \A S : Server!Cardinality(S) = Cardinality(S)
    BY DEF Server!Cardinality, Cardinality
  <2>2. ServerPromise => Server!ServerInv
    BY <2>1 DEF ServerPromise, Server!ServerInv
  <2> QED BY <2>2 DEF ServerInv, ServerIInv
<1> QED BY <1>1, <1>2, <1>3, PTL DEF ProgramsSpec

-----------------------------------------------------------------------------
(* The test framework.                                                     *)

Joining == {"close con", "join con", "close kbd", "join kbd", "exit"}

ProxyStates == {"none", "get", "proc", "polled", "asleep", "ended"}

HarnessType ==
  /\ par \in {"next", "forked", "sigwait", "cancel", "kill", "waitpid", "died"}
  /\ armed \in BOOLEAN /\ FLAG_FAILURE \in BOOLEAN /\ wrong \in BOOLEAN
  /\ kid \in {"none", "test", "ended"} \cup Joining
  /\ pattern \in [Tests!Dirs -> Nat] /\ complete \in [Tests!Dirs -> BOOLEAN]
  /\ proxy \in [Tests!Dirs -> ProxyStates]

\* A proxy ends when it is complete and has no pattern left, and the subprocess
\* completes and joins them one after the other, after the test.
ProxyInv ==
  /\ \A d \in Tests!Dirs : proxy[d] = "ended" => pattern[d] = 0 /\ complete[d]
  /\ kid = "test" => \A d \in Tests!Dirs : ~ complete[d]
  /\ kid \in {"close kbd", "join kbd", "exit"} => proxy["con"] = "ended"
  /\ kid = "exit" => proxy["kbd"] = "ended"

\* Until the subprocess has ended it knows of each failure; it has a status
\* afterwards; the alarm is set only while the parent waits for a signal.
StatusInv ==
  /\ kid # "ended" => status = "none" /\ (wrong => FLAG_FAILURE)
  /\ armed => par \in {"sigwait", "cancel"}

HarnessIInv == HarnessType /\ ProxyInv /\ StatusInv /\ Tests!HarnessInv

\* What the parent does to itself and to the signals: the subprocess goes on.
LEMMA ParentStep ==
  ASSUME HarnessIInv,
         \/ Tests!Skip \/ Tests!Alarm \/ Tests!AlarmFires \/ Tests!Sigwait \/ Tests!Cancel
         \/ Tests!Waitpid
  PROVE  HarnessIInv'
<1>1. /\ UNCHANGED <<kid, status, FLAG_FAILURE, pattern, complete, proxy, wrong>>
      /\ par' \in {"next", "forked", "sigwait", "cancel", "kill", "waitpid", "died"}
      /\ armed' \in BOOLEAN
  BY DEF Tests!Skip, Tests!Alarm, Tests!AlarmFires, Tests!Sigwait, Tests!Cancel,
         Tests!Waitpid, Tests!kidVars, HarnessIInv, HarnessType
<1>2. armed' => par' \in {"sigwait", "cancel"}
  BY DEF Tests!Skip, Tests!Alarm, Tests!AlarmFires, Tests!Sigwait, Tests!Cancel,
         Tests!Waitpid, HarnessIInv, StatusInv
<1>3. par' = "next" => pending' = {} /\ ~ armed' /\ kid \in {"none", "ended"}
  BY DEF Tests!Skip, Tests!Alarm, Tests!AlarmFires, Tests!Sigwait, Tests!Cancel,
         Tests!Waitpid, HarnessIInv, StatusInv, Tests!HarnessInv
<1> QED BY <1>1, <1>2, <1>3
           DEF HarnessIInv, HarnessType, ProxyInv, StatusInv, Tests!HarnessInv, Joining

\* The parent starts the subprocess, with everything as at its beginning.
LEMMA ForkStep ==
  ASSUME HarnessIInv, Tests!Fork
  PROVE  HarnessIInv'
<1>1. /\ par' = "forked" /\ kid' = "test" /\ status' = "none"
      /\ FLAG_FAILURE' = FALSE /\ wrong' = FALSE /\ ~ armed' /\ armed' \in BOOLEAN
      /\ pattern' = [d \in Tests!Dirs |-> 0] /\ complete' = [d \in Tests!Dirs |-> FALSE]
      /\ proxy' = [d \in Tests!Dirs |-> "get"]
  BY DEF Tests!Fork, Tests!Each, HarnessIInv, HarnessType, Tests!HarnessInv
<1>2. "con" \in Tests!Dirs /\ "kbd" \in Tests!Dirs
  BY DEF Tests!Dirs
<1> QED BY <1>1, <1>2
           DEF HarnessIInv, HarnessType, ProxyInv, StatusInv, Tests!HarnessInv, Joining,
               ProxyStates

\* The subprocess ends: it is killed, crashes, or has joined its proxies.
LEMMA KidEndsStep ==
  ASSUME HarnessIInv, Tests!Kill \/ Tests!KidCrashes \/ Tests!KidEnds
  PROVE  HarnessIInv'
<1>1. /\ UNCHANGED <<FLAG_FAILURE, pattern, complete, proxy>>
      /\ kid' = "ended" /\ par' \in {par, "waitpid"} /\ armed' = armed
      /\ ~ armed' \/ par' \in {"sigwait", "cancel"}
      /\ par' # "next" /\ wrong' \in BOOLEAN
  <2>1. wrong \in BOOLEAN
    BY DEF HarnessIInv, HarnessType
  <2>2. CASE Tests!Kill
    BY <2>1, <2>2 DEF Tests!Kill, HarnessIInv, StatusInv
  <2>3. CASE Tests!KidCrashes
    BY <2>3 DEF Tests!KidCrashes, HarnessIInv, StatusInv, Tests!HarnessInv
  <2>4. CASE Tests!KidEnds
    BY <2>1, <2>4 DEF Tests!KidEnds, HarnessIInv, StatusInv, Tests!HarnessInv
  <2> QED BY <2>2, <2>3, <2>4
<1>2. status' = "129" => ~ wrong' /\ \A d \in Tests!Dirs : pattern[d] = 0 /\ proxy[d] = "ended"
  <2>1. CASE Tests!KidEnds
    BY <2>1 DEF Tests!KidEnds, Tests!Dirs, HarnessIInv, StatusInv, ProxyInv
  <2>2. CASE Tests!Kill \/ Tests!KidCrashes
    BY <2>2 DEF Tests!Kill, Tests!KidCrashes, HarnessIInv, Tests!HarnessInv
  <2> QED BY <2>1, <2>2
<1> QED BY <1>1, <1>2
           DEF HarnessIInv, HarnessType, ProxyInv, StatusInv, Tests!HarnessInv, Joining

\* The test and its machine, up to the return of boot.
LEMMA TestStep ==
  ASSUME HarnessIInv,
         \/ Tests!MachinePrints \/ Tests!MachineReads \/ Tests!AssertFails \/ Tests!BootReturns
         \/ \E d \in Tests!Dirs : Tests!Add(d)
  PROVE  HarnessIInv'
<1>1. /\ UNCHANGED <<par, pending, armed, status, complete>> /\ kid = "test"
      /\ kid' \in {"test", "close con"}
      /\ wrong' \in BOOLEAN /\ FLAG_FAILURE' \in BOOLEAN
      /\ (wrong => FLAG_FAILURE) => (wrong' => FLAG_FAILURE')
  <2>1. wrong \in BOOLEAN /\ FLAG_FAILURE \in BOOLEAN
    BY DEF HarnessIInv, HarnessType
  <2>2. CASE Tests!AssertFails
    BY <2>2 DEF Tests!AssertFails, Tests!parVars
  <2>3. CASE UNCHANGED <<wrong, FLAG_FAILURE>>
    BY <2>1, <2>3 DEF Tests!MachinePrints, Tests!MachineReads, Tests!AssertFails,
                      Tests!BootReturns, Tests!Add, Tests!parVars
  <2> QED BY <2>2, <2>3 DEF Tests!MachinePrints, Tests!MachineReads, Tests!BootReturns, Tests!Add
<1>2. /\ \A d \in Tests!Dirs : proxy[d] # "ended"
      /\ par # "next" /\ status = "none"
  BY <1>1 DEF HarnessIInv, ProxyInv, StatusInv, Tests!HarnessInv
<1>3. /\ pattern' \in [Tests!Dirs -> Nat]
      /\ proxy' \in [Tests!Dirs -> ProxyStates]
      /\ \A d \in Tests!Dirs : /\ proxy'[d] # "ended"
                               /\ proxy'[d] = "asleep" => pattern'[d] = 0 /\ ~ complete[d]
  <2>1. CASE UNCHANGED <<pattern, proxy>>
    BY <2>1, <1>2 DEF HarnessIInv, HarnessType, Tests!HarnessInv
  <2>2. CASE \E d \in Tests!Dirs : Tests!Add(d)
    BY <2>2, <1>2 DEF Tests!Add, HarnessIInv, HarnessType, ProxyStates, Tests!HarnessInv
  <2> QED BY <2>1, <2>2 DEF Tests!MachinePrints, Tests!MachineReads, Tests!AssertFails,
                            Tests!BootReturns
<1> QED BY <1>1, <1>2, <1>3
           DEF HarnessIInv, HarnessType, ProxyInv, StatusInv, Tests!HarnessInv, Joining

\* The ends of the proxies: closing one wakes it, and only one that has nothing
\* left to transfer is joined.
LEMMA ProxyEndStep ==
  ASSUME HarnessIInv, NEW d \in Tests!Dirs, Tests!CloseProxy(d) \/ Tests!JoinProxy(d)
  PROVE  HarnessIInv'
<1>1. /\ UNCHANGED <<par, pending, armed, status, pattern, wrong, FLAG_FAILURE>>
      /\ kid \in Joining /\ kid' \in Joining
  BY DEF Tests!CloseProxy, Tests!JoinProxy, Tests!parVars, Joining
<1>2. par # "next" /\ status = "none"
  BY <1>1 DEF HarnessIInv, StatusInv, Tests!HarnessInv, Joining
<1>3. CASE Tests!CloseProxy(d)
  <2>1. /\ complete' \in [Tests!Dirs -> BOOLEAN]
        /\ proxy' \in [Tests!Dirs -> ProxyStates]
        /\ \A e \in Tests!Dirs : /\ proxy'[e] = IF e = d /\ proxy[e] = "asleep" THEN "get"
                                                ELSE proxy[e]
                                 /\ complete'[e] = (complete[e] \/ e = d)
    BY <1>3 DEF Tests!CloseProxy, Tests!Closed, HarnessIInv, HarnessType, ProxyStates
  <2>2. /\ kid' \in {"join con", "join kbd"}
        /\ kid' = "join kbd" => kid = "close kbd"
    BY <1>3 DEF Tests!CloseProxy, Tests!Dirs
  <2>3. HarnessType' /\ StatusInv'
    BY <1>1, <2>1 DEF HarnessIInv, HarnessType, StatusInv, Joining
  <2>4. ProxyInv'
    BY <1>1, <2>1, <2>2 DEF HarnessIInv, ProxyInv, Tests!Dirs
  <2>5. Tests!HarnessInv'
    BY <1>1, <1>2, <2>1 DEF HarnessIInv, Tests!HarnessInv
  <2> QED BY <2>3, <2>4, <2>5 DEF HarnessIInv
<1>4. CASE Tests!JoinProxy(d)
  <2>1. /\ UNCHANGED <<complete, proxy>> /\ proxy[d] = "ended"
        /\ kid' = IF d = "con" THEN "close kbd" ELSE "exit"
        /\ kid = IF d = "con" THEN "join con" ELSE "join kbd"
    BY <1>4 DEF Tests!JoinProxy
  <2> QED BY <1>1, <1>2, <2>1
             DEF HarnessIInv, HarnessType, ProxyInv, StatusInv, Tests!HarnessInv, Joining,
                 Tests!Dirs
<1> QED BY <1>3, <1>4

\* A proxy takes a pattern, or transfers one.
LEMMA ProxyStep ==
  ASSUME HarnessIInv,
         \/ Tests!con_proc \/ Tests!ConComplete \/ Tests!kbd_proc
         \/ \E d \in Tests!Dirs : Tests!ProxyGet(d)
  PROVE  HarnessIInv'
<1>1. /\ UNCHANGED <<par, pending, armed, status, kid, complete>>
      /\ kid \notin {"none", "ended"}
  BY DEF Tests!con_proc, Tests!ConComplete, Tests!kbd_proc, Tests!ProxyGet, Tests!Alive, Tests!parVars
<1>2. par # "next" /\ status = "none"
  BY <1>1 DEF HarnessIInv, StatusInv, Tests!HarnessInv
<1>3. /\ wrong' \in BOOLEAN /\ FLAG_FAILURE' \in BOOLEAN
      /\ (wrong => FLAG_FAILURE) => (wrong' => FLAG_FAILURE')
  <2>1. wrong \in BOOLEAN /\ FLAG_FAILURE \in BOOLEAN
    BY DEF HarnessIInv, HarnessType
  <2>2. CASE UNCHANGED <<wrong, FLAG_FAILURE>>
    BY <2>1, <2>2
  <2>3. ASSUME NEW ok \in BOOLEAN,
               FLAG_FAILURE' = (FLAG_FAILURE \/ ~ ok) /\ wrong' = (wrong \/ ~ ok)
        PROVE  /\ wrong' \in BOOLEAN /\ FLAG_FAILURE' \in BOOLEAN
               /\ (wrong => FLAG_FAILURE) => (wrong' => FLAG_FAILURE')
    BY <2>1, <2>3
  <2>4. CASE Tests!con_proc /\ fifo["con"] # <<>>
    <3> DEFINE ok == fifo["con"] # <<>> /\ Head(fifo["con"])
    <3>1. ok \in BOOLEAN
      OBVIOUS
    <3>2. FLAG_FAILURE' = (FLAG_FAILURE \/ ~ ok) /\ wrong' = (wrong \/ ~ ok)
      BY <2>4 DEF Tests!con_proc
    <3> HIDE DEF ok
    <3> QED BY <2>3, <3>1, <3>2
  <2>5. CASE Tests!kbd_proc
    <3> DEFINE ok == Len(fifo["kbd"]) < FifoSize
    <3>1. ok \in BOOLEAN
      OBVIOUS
    <3>2. FLAG_FAILURE' = (FLAG_FAILURE \/ ~ ok) /\ wrong' = (wrong \/ ~ ok)
      BY <2>5 DEF Tests!kbd_proc
    <3> HIDE DEF ok
    <3> QED BY <2>3, <3>1, <3>2
  <2>6. CASE Tests!con_proc /\ fifo["con"] = <<>>
    BY <2>2, <2>6 DEF Tests!con_proc
  <2>7. CASE Tests!ConComplete
    BY <2>1, <2>2, <2>7 DEF Tests!ConComplete
  <2> QED BY <2>2, <2>4, <2>5, <2>6, <2>7 DEF Tests!ProxyGet
<1>4. PICK d \in Tests!Dirs : /\ proxy[d] \in {"get", "proc", "polled"}
                              /\ \A e \in Tests!Dirs \ {d} : /\ proxy'[e] = proxy[e]
                                                             /\ pattern'[e] = pattern[e]
                              /\ proxy'[d] = "ended" => pattern'[d] = 0 /\ complete[d]
                              /\ proxy'[d] = "asleep" => pattern'[d] = 0 /\ ~ complete[d]
                              /\ proxy' \in [Tests!Dirs -> ProxyStates]
                              /\ pattern' \in [Tests!Dirs -> Nat]
  <2>1. CASE Tests!con_proc
    BY <2>1 DEF Tests!con_proc, Tests!Dirs, HarnessIInv, HarnessType, ProxyStates
  <2>2. CASE Tests!kbd_proc
    BY <2>2 DEF Tests!kbd_proc, Tests!Dirs, HarnessIInv, HarnessType, ProxyStates
  <2>4. CASE Tests!ConComplete
    BY <2>4 DEF Tests!ConComplete, Tests!Dirs, HarnessIInv, HarnessType, ProxyStates
  <2>3. ASSUME NEW d \in Tests!Dirs, Tests!ProxyGet(d)
        PROVE  /\ proxy[d] = "get"
               /\ \A e \in Tests!Dirs \ {d} : proxy'[e] = proxy[e] /\ pattern'[e] = pattern[e]
               /\ proxy'[d] = "ended" => pattern'[d] = 0 /\ complete[d]
               /\ proxy'[d] = "asleep" => pattern'[d] = 0 /\ ~ complete[d]
               /\ proxy' \in [Tests!Dirs -> ProxyStates]
               /\ pattern' \in [Tests!Dirs -> Nat]
    BY <2>3 DEF Tests!ProxyGet, Tests!Get, HarnessIInv, HarnessType, ProxyStates
  <2> QED BY <2>1, <2>2, <2>3, <2>4
<1>5. HarnessType' /\ StatusInv'
  BY <1>1, <1>3, <1>4 DEF HarnessIInv, HarnessType, StatusInv
<1>6. ProxyInv'
  BY <1>1, <1>4 DEF HarnessIInv, ProxyInv, Tests!Dirs
<1>7. Tests!HarnessInv'
  BY <1>1, <1>2, <1>4 DEF HarnessIInv, Tests!HarnessInv
<1> QED BY <1>5, <1>6, <1>7 DEF HarnessIInv

\* A test that passed has had every pattern transferred and every failure
\* counted, whatever its length.
THEOREM HarnessTheorem == ProgramsSpec => []HarnessInv
<1> DEFINE I == task = "tests" => HarnessIInv
<1>1. boot => I
  <2> SUFFICES ASSUME boot PROVE HarnessIInv
    OBVIOUS
  <2>1. Tests!Init /\ "con" \in Tests!Dirs
    BY DEF boot, Tests!Dirs
  <2> QED BY <2>1 DEF Tests!Init, Tests!Each, HarnessIInv, HarnessType, ProxyInv, StatusInv,
                      Tests!HarnessInv, Joining, ProxyStates
<1>2. I /\ [ProgramsNext]_programVars => I'
  <2> SUFFICES ASSUME I, [ProgramsNext]_programVars PROVE I'
    OBVIOUS
  <2>1. CASE task = "tests" /\ Tests!Next /\ UNCHANGED task
    <3>1. HarnessIInv'
      BY <2>1, ParentStep, ForkStep, KidEndsStep, TestStep, ProxyEndStep, ProxyStep
         DEF Tests!Next, Tests!Parent, Tests!Subprocess
    <3> QED BY <3>1
  <2>2. CASE UNCHANGED <<task, testVars>>
    BY <2>2 DEF testVars, HarnessIInv, HarnessType, ProxyInv, StatusInv, Tests!HarnessInv
  <2>3. CASE task # "tests" /\ UNCHANGED task
    BY <2>3
  <2> QED BY <2>1, <2>2, <2>3 DEF ProgramsNext, programVars
<1>3. I => HarnessInv
  BY DEF HarnessInv, HarnessIInv
<1> QED BY <1>1, <1>2, <1>3, PTL DEF ProgramsSpec

-----------------------------------------------------------------------------
(* Exceptions.                                                             *)

\* The handlers 1 .. n of a kind, the last installed first.
Down(n) == [i \in 1 .. n |-> n - i + 1]

Downs == {Down(n) : n \in Nat}

Kinds == {"catchers", "finalizers"}
Frames == [catchers : Downs, finalizers : Downs,
           installed : [catchers : Nat, finalizers : Nat], ended : BOOLEAN]

\* A frame whose handlers have all been kept, and whose body goes on.
Full(f) == /\ f.catchers = Down(f.installed.catchers)
           /\ f.finalizers = Down(f.installed.finalizers)
           /\ ~ f.ended

\* What has run of f when a catchers and b finalizers have.
Ran(f, a, b) ==
  [i \in 1 .. a + b |->
     IF i <= a THEN <<"catchers", f.installed.catchers - i + 1>>
     ELSE <<"finalizers", f.installed.finalizers - (i - a) + 1>>]

\* The frame at the top is being unwound: c and d of its handlers are left, and
\* a and b have run, as r tells.
Progress(f, a, b, c, d, r) ==
  /\ f.catchers = Down(c) /\ f.finalizers = Down(d) /\ b + d = f.installed.finalizers
  /\ a + c = IF f.ended THEN 0 ELSE f.installed.catchers
  /\ b > 0 => c = 0
  /\ r = Ran(f, a, b)

UnwindIInv ==
  /\ context \in Seq(Frames)
  /\ \A i \in 2 .. Len(context) : Full(context[i])
  /\ \/ unwind = Exc!Idle /\ ran = <<>> /\ (context # <<>> => Full(context[1]))
     \/ /\ context # <<>>
        /\ unwind \in [at : {"loop", "handler"}, errcode : {0, 1}, captured : BOOLEAN]
        /\ \E a, b, c, d \in Nat : Progress(context[1], a, b, c, d, ran)

\* The first of the handlers is the last installed.
LEMMA DownProperties ==
  ASSUME NEW n \in Nat
  PROVE  /\ Down(n) \in Seq(Nat) /\ Len(Down(n)) = n
         /\ Down(n) = <<>> <=> n = 0
         /\ <<n + 1>> \o Down(n) = Down(n + 1)
         /\ n > 0 => Head(Down(n)) = n /\ Tail(Down(n)) = Down(n - 1)
<1>1. Down(n) \in Seq(Nat) /\ Len(Down(n)) = n /\ \A i \in 1 .. n : Down(n)[i] = n - i + 1
  BY DEF Down
<1>2. Down(n) = <<>> <=> n = 0
  BY <1>1
<1>3. <<n + 1>> \o Down(n) = Down(n + 1)
  <2> DEFINE s == <<n + 1>> \o Down(n)
  <2>1. s \in Seq(Nat) /\ Len(s) = n + 1 /\ s[1] = n + 1
        /\ \A j \in 1 .. n : s[j + 1] = Down(n)[j]
    BY <1>1, PrependElement
  <2>2. ASSUME NEW i \in 1 .. n + 1
        PROVE  s[i] = n + 1 - i + 1
    <3>1. CASE i = 1
      BY <2>1, <3>1
    <3>2. CASE i # 1
      <4>1. i - 1 \in 1 .. n /\ (i - 1) + 1 = i
        BY <3>2
      <4>2. s[(i - 1) + 1] = Down(n)[i - 1]
        BY <2>1, <4>1
      <4> QED BY <1>1, <4>1, <4>2
    <3> QED BY <3>1, <3>2
  <2>3. DOMAIN s = 1 .. n + 1
    BY <2>1
  <2> HIDE DEF s
  <2>4. s = [i \in 1 .. n + 1 |-> n + 1 - i + 1]
    <3>1. s = [i \in 1 .. n + 1 |-> s[i]]
      BY <2>1, <2>3
    <3> QED BY <2>2, <3>1
  <2> QED BY <2>4 DEF Down, s
<1>4. ASSUME n > 0
      PROVE  Head(Down(n)) = n /\ Tail(Down(n)) = Down(n - 1)
  <2>1. Head(Down(n)) = n
    BY <1>1, <1>4
  <2>2. /\ Tail(Down(n)) \in Seq(Nat) /\ Len(Tail(Down(n))) = n - 1
        /\ \A i \in 1 .. n - 1 : Tail(Down(n))[i] = Down(n)[i + 1]
    BY <1>1, <1>4
  <2>3. \A i \in 1 .. n - 1 : Tail(Down(n))[i] = (n - 1) - i + 1
    BY <1>1, <2>2
  <2>4. Tail(Down(n)) = [i \in 1 .. n - 1 |-> (n - 1) - i + 1]
    <3>1. PICK t : t = Tail(Down(n))
      OBVIOUS
    <3>2. t \in Seq(Nat) /\ DOMAIN t = 1 .. n - 1 /\ \A i \in 1 .. n - 1 : t[i] = (n - 1) - i + 1
      BY <2>2, <2>3, <3>1
    <3>3. t = [i \in 1 .. n - 1 |-> (n - 1) - i + 1]
      BY <3>2
    <3> QED BY <3>1, <3>3
  <2> QED BY <2>1, <2>4 DEF Down
<1> QED BY <1>1, <1>2, <1>3, <1>4

LEMMA DownSame ==
  ASSUME NEW m \in Nat, NEW n \in Nat, Down(m) = Down(n)
  PROVE  m = n
<1>1. Len(Down(m)) = m /\ Len(Down(n)) = n
  BY DownProperties
<1> QED BY <1>1

\* One more has run.
LEMMA RanGrows ==
  ASSUME NEW f \in Frames, NEW a \in Nat, NEW b \in Nat
  PROVE  /\ Ran(f, 0, 0) = <<>>
         /\ Append(Ran(f, a, 0), <<"catchers", f.installed.catchers - a>>) = Ran(f, a + 1, 0)
         /\ Append(Ran(f, a, b), <<"finalizers", f.installed.finalizers - b>>)
              = Ran(f, a, b + 1)
<1> DEFINE C == f.installed.catchers
           F == f.installed.finalizers
           S == {"catchers", "finalizers"} \X Int
           c(i) == <<"catchers", C - i + 1>>
           d(i, x) == <<"finalizers", F - (i - x) + 1>>
<1>1. C \in Nat /\ F \in Nat
  BY DEF Frames
<1>2. \A i \in Nat, x \in Nat : c(i) \in S /\ d(i, x) \in S
  BY <1>1
<1>3. c(a + 1) = <<"catchers", C - a>> /\ d(a + b + 1, a) = <<"finalizers", F - b>>
  BY <1>1
<1>4. \A x, y : Ran(f, x, y) = [i \in 1 .. x + y |-> IF i <= x THEN c(i) ELSE d(i, x)]
  BY Zenon DEF Ran
<1> HIDE DEF C, F, S, c, d
<1>5. ASSUME NEW x \in Nat, NEW y \in Nat
      PROVE  /\ Ran(f, x, y) \in Seq(S) /\ Len(Ran(f, x, y)) = x + y
             /\ \A i \in 1 .. x : Ran(f, x, y)[i] = c(i)
             /\ \A i \in x + 1 .. x + y : Ran(f, x, y)[i] = d(i, x)
  BY <1>2, <1>4
<1>6. Ran(f, 0, 0) = <<>>
  BY <1>5
<1>7. Append(Ran(f, a, 0), c(a + 1)) = Ran(f, a + 1, 0)
  <2>1. PICK r, s, t : r = Ran(f, a, 0) /\ s = Append(r, c(a + 1)) /\ t = Ran(f, a + 1, 0)
    OBVIOUS
  <2>2. /\ r \in Seq(S) /\ Len(r) = a /\ \A i \in 1 .. a : r[i] = c(i)
        /\ t \in Seq(S) /\ Len(t) = a + 1 /\ \A i \in 1 .. a + 1 : t[i] = c(i)
        /\ c(a + 1) \in S
    <3>1. r \in Seq(S) /\ Len(r) = a + 0 /\ \A i \in 1 .. a : r[i] = c(i)
      <4>1. 0 \in Nat
        OBVIOUS
      <4> QED BY <1>5, <2>1, <4>1
    <3>2. t \in Seq(S) /\ Len(t) = a + 1 + 0 /\ \A i \in 1 .. a + 1 : t[i] = c(i)
      <4>1. 0 \in Nat /\ a + 1 \in Nat
        OBVIOUS
      <4> QED BY <1>5, <2>1, <4>1
    <3>3. c(a + 1) \in S
      BY <1>2
    <3> QED BY <3>1, <3>2, <3>3
  <2>3. s \in Seq(S) /\ Len(s) = a + 1 /\ \A i \in 1 .. a + 1 : s[i] = c(i)
    BY <2>1, <2>2
  <2>4. s = t
    BY <2>2, <2>3, SeqEqual
  <2> QED BY <2>1, <2>4
<1>8. Append(Ran(f, a, b), d(a + b + 1, a)) = Ran(f, a, b + 1)
  <2>1. PICK r, s, t : /\ r = Ran(f, a, b) /\ s = Append(r, d(a + b + 1, a))
                       /\ t = Ran(f, a, b + 1)
    OBVIOUS
  <2>2. /\ r \in Seq(S) /\ Len(r) = a + b /\ t \in Seq(S) /\ Len(t) = a + b + 1
        /\ \A i \in 1 .. a : r[i] = c(i) /\ t[i] = c(i)
        /\ \A i \in a + 1 .. a + b : r[i] = d(i, a)
        /\ \A i \in a + 1 .. a + b + 1 : t[i] = d(i, a)
        /\ d(a + b + 1, a) \in S
    <3>1. /\ r \in Seq(S) /\ Len(r) = a + b /\ \A i \in 1 .. a : r[i] = c(i)
          /\ \A i \in a + 1 .. a + b : r[i] = d(i, a)
      BY <1>5, <2>1
    <3>2. /\ t \in Seq(S) /\ Len(t) = a + (b + 1) /\ \A i \in 1 .. a : t[i] = c(i)
          /\ \A i \in a + 1 .. a + (b + 1) : t[i] = d(i, a)
      <4>1. b + 1 \in Nat
        OBVIOUS
      <4> QED BY <1>5, <2>1, <4>1
    <3>3. d(a + b + 1, a) \in S
      BY <1>2
    <3> QED BY <3>1, <3>2, <3>3
  <2>3. /\ s \in Seq(S) /\ Len(s) = a + b + 1
        /\ \A i \in 1 .. a + b : s[i] = r[i]
        /\ s[a + b + 1] = d(a + b + 1, a)
    BY <2>1, <2>2
  <2>4. \A i \in 1 .. a + b + 1 : s[i] = t[i]
    BY <2>2, <2>3
  <2>5. s = t
    BY <2>2, <2>3, <2>4, SeqEqual
  <2> QED BY <2>1, <2>5
<1> QED BY <1>3, <1>6, <1>7, <1>8 DEF C, F

\* Only the top of the stack changes.
LEMMA TopChanges ==
  ASSUME NEW s \in Seq(Frames), s # <<>>, NEW g \in Frames,
         \A i \in 2 .. Len(s) : Full(s[i])
  PROVE  /\ [s EXCEPT ![1] = g] \in Seq(Frames)
         /\ [s EXCEPT ![1] = g] # <<>> /\ [s EXCEPT ![1] = g][1] = g
         /\ \A i \in 2 .. Len([s EXCEPT ![1] = g]) : Full([s EXCEPT ![1] = g][i])
<1>1. Len(s) \in Nat /\ Len(s) >= 1
  OBVIOUS
<1>2. /\ [s EXCEPT ![1] = g] \in Seq(Frames) /\ Len([s EXCEPT ![1] = g]) = Len(s)
      /\ [s EXCEPT ![1] = g][1] = g
      /\ \A i \in 2 .. Len(s) : [s EXCEPT ![1] = g][i] = s[i]
  BY <1>1
<1> QED BY <1>1, <1>2

\* Handlers are only ever added to a block whose body runs.
LEMMA BodyStep ==
  ASSUME UnwindIInv,
         \/ Exc!Try \/ Exc!Raise \/ Exc!__exc_exit_try
         \/ \E h \in Kinds : Exc!Install(h)
  PROVE  UnwindIInv'
<1>1. /\ context \in Seq(Frames) /\ \A i \in 2 .. Len(context) : Full(context[i])
      /\ unwind = Exc!Idle /\ ran = <<>> /\ (context # <<>> => Full(context[1]))
  <2>1. unwind = Exc!Idle
    BY DEF Exc!Try, Exc!Raise, Exc!__exc_exit_try, Exc!Install
  <2>2. unwind.at = "none"
    BY <2>1 DEF Exc!Idle
  <2> QED BY <2>1, <2>2 DEF UnwindIInv
<1>2. context # <<>> => context[1] \in Frames
  BY <1>1
<1>3. CASE Exc!Try
  <2>1. /\ context' = <<Exc!Frame>> \o context /\ ran' = <<>> /\ UNCHANGED unwind
    BY <1>3 DEF Exc!Try
  <2>2. Exc!Frame \in Frames /\ Full(Exc!Frame)
    <3>1. Down(0) = <<>> /\ Down(0) \in Downs
      BY DownProperties DEF Downs
    <3> QED BY <3>1 DEF Exc!Frame, Frames, Full
  <2>3. /\ context' \in Seq(Frames) /\ Len(context') = Len(context) + 1
        /\ context' # <<>> /\ context'[1] = Exc!Frame
        /\ \A i \in 1 .. Len(context) : context'[i + 1] = context[i]
    BY <1>1, <2>1, <2>2, PrependElement
  <2>4. ASSUME NEW i \in 2 .. Len(context')
        PROVE  Full(context'[i])
    <3>1. i - 1 \in 1 .. Len(context) /\ context'[(i - 1) + 1] = context[i - 1]
      BY <1>1, <2>3
    <3>2. Full(context[i - 1])
      <4>1. i - 1 = 1 \/ i - 1 \in 2 .. Len(context)
        BY <3>1
      <4> QED BY <1>1, <3>1, <4>1
    <3>3. (i - 1) + 1 = i
      OBVIOUS
    <3> QED BY <3>1, <3>2, <3>3
  <2> QED BY <1>1, <2>1, <2>2, <2>3, <2>4 DEF UnwindIInv
<1>4. ASSUME NEW h \in Kinds, Exc!Install(h)
      PROVE  UnwindIInv'
  <2> DEFINE f == context[1]
             n == f.installed[h]
             g == [f EXCEPT !.installed[h] = @ + 1, ![h] = <<n + 1>> \o @]
  <2>1. /\ context # <<>> /\ UNCHANGED <<unwind, ran>>
        /\ context' = [context EXCEPT ![1] = g]
    BY <1>1, <1>4 DEF Exc!Install, Exc!Top, Kinds
  <2>2. g \in Frames /\ Full(g)
    <3>1. /\ f \in Frames /\ Full(f) /\ n \in Nat
      BY <1>1, <1>2, <2>1 DEF Frames, Kinds
    <3>2. <<n + 1>> \o Down(n) = Down(n + 1)
      BY <3>1, DownProperties
    <3>3. f[h] = Down(n)
      BY <3>1 DEF Full, Kinds
    <3>4. g = [f EXCEPT !.installed[h] = n + 1, ![h] = Down(n + 1)]
      BY <3>1, <3>2, <3>3 DEF Frames, Kinds
    <3>5. n = f.installed[h]
      OBVIOUS
    <3> HIDE DEF f, n, g
    <3>6. Down(n + 1) \in Downs /\ n + 1 \in Nat
      BY <3>1 DEF Downs
    <3>7. CASE h = "catchers"
      <4>1. g = [f EXCEPT !.installed["catchers"] = n + 1, !["catchers"] = Down(n + 1)]
        BY <3>4, <3>7, Zenon
      <4>2. /\ g \in Frames /\ g.catchers = Down(n + 1) /\ g.finalizers = f.finalizers
            /\ g.installed.catchers = n + 1
            /\ g.installed.finalizers = f.installed.finalizers /\ g.ended = f.ended
        BY <3>1, <3>6, <4>1 DEF Frames
      <4> QED BY <3>1, <4>2 DEF Full
    <3>8. CASE h = "finalizers"
      <4>1. g = [f EXCEPT !.installed["finalizers"] = n + 1, !["finalizers"] = Down(n + 1)]
        BY <3>4, <3>8, Zenon
      <4>2. /\ g \in Frames /\ g.finalizers = Down(n + 1) /\ g.catchers = f.catchers
            /\ g.installed.finalizers = n + 1
            /\ g.installed.catchers = f.installed.catchers /\ g.ended = f.ended
        BY <3>1, <3>6, <4>1 DEF Frames
      <4> QED BY <3>1, <4>2 DEF Full
    <3> QED BY <3>7, <3>8 DEF Kinds
  <2> HIDE DEF f, g
  <2>3. /\ context' \in Seq(Frames) /\ context' # <<>> /\ context'[1] = g
        /\ \A i \in 2 .. Len(context') : Full(context'[i])
    BY <1>1, <2>1, <2>2, TopChanges
  <2> QED BY <1>1, <2>1, <2>2, <2>3 DEF UnwindIInv
<1>5. CASE Exc!Raise
  <2> DEFINE f == context[1]
             C == f.installed.catchers
             F == f.installed.finalizers
  <2>1. /\ context # <<>> /\ UNCHANGED <<ran, context>>
        /\ unwind' = [at |-> "loop", errcode |-> 1, captured |-> FALSE]
    BY <1>5 DEF Exc!Raise, Exc!raise_exception
  <2>2. /\ f \in Frames /\ Full(f) /\ C \in Nat /\ F \in Nat
    BY <1>1, <1>2, <2>1 DEF Frames
  <2>3. Progress(f, 0, 0, C, F, ran')
    <3>1. ran' = Ran(f, 0, 0)
      BY <1>1, <2>1, <2>2, RanGrows
    <3> QED BY <2>2, <3>1 DEF Progress, Full
  <2> QED BY <1>1, <2>1, <2>2, <2>3 DEF UnwindIInv
<1>6. CASE Exc!__exc_exit_try
  <2> DEFINE f == context[1]
             g == [f EXCEPT !.catchers = <<>>, !.ended = TRUE]
             F == f.installed.finalizers
  <2>1. /\ context # <<>> /\ UNCHANGED ran /\ context' = [context EXCEPT ![1] = g]
        /\ unwind' = [at |-> "loop", errcode |-> 0, captured |-> FALSE]
    BY <1>6 DEF Exc!__exc_exit_try
  <2>2. f \in Frames /\ Full(f) /\ F \in Nat
    BY <1>1, <1>2, <2>1 DEF Frames
  <2>3. g \in Frames /\ Progress(g, 0, 0, 0, F, ran')
    <3>1. Down(0) = <<>> /\ Down(0) \in Downs
      BY DownProperties DEF Downs
    <3>2. /\ g \in Frames /\ g.catchers = Down(0) /\ g.finalizers = Down(F) /\ g.ended
          /\ g.installed.finalizers = F
      BY <2>2, <3>1 DEF Frames, Full
    <3> HIDE DEF f, g, F
    <3>3. ran' = Ran(g, 0, 0)
      BY <1>1, <2>1, <3>2, RanGrows
    <3> QED BY <2>2, <3>2, <3>3 DEF Progress
  <2> HIDE DEF f, g, F
  <2>4. /\ context' \in Seq(Frames) /\ context' # <<>> /\ context'[1] = g
        /\ \A i \in 2 .. Len(context') : Full(context'[i])
    BY <1>1, <2>1, <2>3, TopChanges
  <2> QED BY <2>1, <2>2, <2>3, <2>4 DEF UnwindIInv
<1> QED BY <1>3, <1>4, <1>5, <1>6

\* The handlers that are left to a block only get fewer while it is unwound.
LEMMA CallStep ==
  ASSUME UnwindIInv, Exc!Catch \/ Exc!Finalize
  PROVE  UnwindIInv'
<1> DEFINE f == context[1]
           C == f.installed.catchers
           F == f.installed.finalizers
<1>1. /\ unwind.at = "loop" /\ unwind # Exc!Idle
      /\ (Exc!CallHandler("catchers") \/ (f.catchers = <<>> /\ Exc!CallHandler("finalizers")))
  BY DEF Exc!Catch, Exc!Finalize, Exc!Top, Exc!Idle
<1>2. /\ context \in Seq(Frames) /\ context # <<>> /\ f \in Frames
      /\ \A i \in 2 .. Len(context) : Full(context[i])
      /\ unwind \in [at : {"loop", "handler"}, errcode : {0, 1}, captured : BOOLEAN]
      /\ \E a, b, c, d \in Nat : Progress(f, a, b, c, d, ran)
  BY <1>1 DEF UnwindIInv
<1>3. PICK a \in Nat : \E b, c, d \in Nat : Progress(f, a, b, c, d, ran)
  BY <1>2
<1>4. PICK b \in Nat : \E c, d \in Nat : Progress(f, a, b, c, d, ran)
  BY <1>3
<1>5. PICK c \in Nat : \E d \in Nat : Progress(f, a, b, c, d, ran)
  BY <1>4
<1>6. PICK d \in Nat : Progress(f, a, b, c, d, ran)
  BY <1>5
<1>7. C \in Nat /\ F \in Nat
  BY <1>2 DEF Frames
\* The rest follows from what has run now.
<1>8. ASSUME NEW g \in Frames, NEW x \in Nat, NEW y \in Nat, NEW z \in Nat, NEW w \in Nat,
             context' = [context EXCEPT ![1] = g],
             unwind' \in [at : {"loop", "handler"}, errcode : {0, 1}, captured : BOOLEAN],
             Progress(g, x, y, z, w, ran')
      PROVE  UnwindIInv'
  <2>1. /\ context' \in Seq(Frames) /\ context' # <<>> /\ context'[1] = g
        /\ \A i \in 2 .. Len(context') : Full(context'[i])
    BY <1>2, <1>8, TopChanges
  <2> QED BY <1>8, <2>1 DEF UnwindIInv
<1>9. CASE Exc!CallHandler("catchers")
  <2> DEFINE g == [f EXCEPT !.catchers = Tail(f.catchers)]
  <2>1. /\ f.catchers # <<>> /\ context' = [context EXCEPT ![1] = g]
        /\ unwind' = [unwind EXCEPT !.at = "handler", !.captured = TRUE]
        /\ ran' = Append(ran, <<"catchers", Head(f.catchers)>>)
    <3>1. /\ f.catchers # <<>>
          /\ ran' = Append(ran, <<"catchers", Head(f.catchers)>>)
          /\ context' = [context EXCEPT ![1].catchers = Tail(f.catchers)]
      BY <1>9 DEF Exc!CallHandler, Exc!Unlink, Exc!Top
    <3>2. unwind' = [unwind EXCEPT !.at = "handler", !.captured = TRUE]
      <4>1. unwind' = [unwind EXCEPT !.at = "handler",
                                     !.captured = @ \/ "catchers" = "catchers"]
        BY <1>9 DEF Exc!CallHandler
      <4>2. (unwind.captured \/ "catchers" = "catchers") = TRUE
        OBVIOUS
      <4> QED BY <1>2, <4>1, <4>2
    <3> QED BY <3>1, <3>2
  <2>2. /\ f.catchers = Down(c) /\ c > 0 /\ a + c = C /\ b = 0 /\ ~ f.ended
        /\ d = F /\ f.finalizers = Down(d) /\ ran = Ran(f, a, 0)
    <3>1. f.catchers = Down(c) /\ c # 0
      BY <1>6, <2>1, DownProperties DEF Progress
    <3> QED BY <1>6, <1>7, <3>1 DEF Progress
  <2>3. Head(f.catchers) = C - a /\ Tail(f.catchers) = Down(c - 1)
    <3>1. Head(Down(c)) = c /\ Tail(Down(c)) = Down(c - 1)
      BY <2>2, DownProperties
    <3> QED BY <1>7, <2>2, <3>1
  <2>4. /\ g \in Frames /\ g.catchers = Down(c - 1) /\ g.finalizers = Down(d) /\ ~ g.ended
        /\ g.installed = f.installed /\ c - 1 \in Nat /\ 0 \in Nat
    <3>1. c - 1 \in Nat /\ Down(c - 1) \in Downs
      BY <2>2 DEF Downs
    <3> QED BY <1>2, <2>2, <2>3, <3>1 DEF Frames
  <2>5. ran' = Ran(g, a + 1, 0)
    <3>1. Append(Ran(f, a, 0), <<"catchers", C - a>>) = Ran(f, a + 1, 0)
      BY <1>2, <2>4, RanGrows
    <3>2. Ran(g, a + 1, 0) = Ran(f, a + 1, 0)
      <4>1. g.installed.catchers = C /\ g.installed.finalizers = F
        BY <2>4
      <4> HIDE DEF g
      <4> QED BY <4>1 DEF Ran
    <3> QED BY <2>1, <2>2, <2>3, <3>1, <3>2
  <2> HIDE DEF g
  <2>6. Progress(g, a + 1, 0, c - 1, d, ran')
    BY <1>7, <2>2, <2>4, <2>5 DEF Progress
  <2>7. unwind' \in [at : {"loop", "handler"}, errcode : {0, 1}, captured : BOOLEAN]
    BY <1>2, <2>1
  <2>8. a + 1 \in Nat
    OBVIOUS
  <2> QED BY <1>8, <2>1, <2>4, <2>6, <2>7, <2>8
<1>10. CASE f.catchers = <<>> /\ Exc!CallHandler("finalizers")
  <2> DEFINE g == [f EXCEPT !.finalizers = Tail(f.finalizers)]
  <2>1. /\ f.finalizers # <<>> /\ context' = [context EXCEPT ![1] = g]
        /\ unwind' = [unwind EXCEPT !.at = "handler"]
        /\ ran' = Append(ran, <<"finalizers", Head(f.finalizers)>>)
    <3>1. /\ f.finalizers # <<>>
          /\ ran' = Append(ran, <<"finalizers", Head(f.finalizers)>>)
          /\ context' = [context EXCEPT ![1].finalizers = Tail(f.finalizers)]
      BY <1>10 DEF Exc!CallHandler, Exc!Unlink, Exc!Top
    <3>2. unwind' = [unwind EXCEPT !.at = "handler"]
      <4>1. unwind' = [unwind EXCEPT !.at = "handler",
                                     !.captured = @ \/ "finalizers" = "catchers"]
        BY <1>10 DEF Exc!CallHandler
      <4>2. (unwind.captured \/ "finalizers" = "catchers") = unwind.captured
        BY <1>2
      <4> QED BY <1>2, <4>1, <4>2
    <3> QED BY <3>1, <3>2
  <2>2. /\ c = 0 /\ f.catchers = Down(0) /\ f.finalizers = Down(d) /\ d > 0 /\ b + d = F
        /\ a = IF f.ended THEN 0 ELSE C
        /\ ran = Ran(f, a, b)
    <3>1. c = 0 /\ d # 0
      BY <1>6, <1>10, <2>1, DownProperties DEF Progress
    <3> QED BY <1>6, <1>7, <3>1 DEF Progress
  <2>3. Head(f.finalizers) = F - b /\ Tail(f.finalizers) = Down(d - 1)
    <3>1. Head(Down(d)) = d /\ Tail(Down(d)) = Down(d - 1)
      BY <2>2, DownProperties
    <3> QED BY <1>7, <2>2, <3>1
  <2>4. /\ g \in Frames /\ g.finalizers = Down(d - 1) /\ g.catchers = Down(0)
        /\ g.ended = f.ended /\ g.installed = f.installed /\ d - 1 \in Nat /\ 0 \in Nat
    <3>1. d - 1 \in Nat /\ Down(d - 1) \in Downs
      BY <2>2 DEF Downs
    <3> QED BY <1>2, <2>2, <2>3, <3>1 DEF Frames
  <2>5. ran' = Ran(g, a, b + 1)
    <3>1. Append(Ran(f, a, b), <<"finalizers", F - b>>) = Ran(f, a, b + 1)
      BY <1>2, RanGrows
    <3>2. Ran(g, a, b + 1) = Ran(f, a, b + 1)
      <4>1. g.installed.catchers = C /\ g.installed.finalizers = F
        BY <2>4
      <4> HIDE DEF g
      <4> QED BY <4>1 DEF Ran
    <3> QED BY <2>1, <2>2, <2>3, <3>1, <3>2
  <2> HIDE DEF g
  <2>6. Progress(g, a, b + 1, 0, d - 1, ran')
    BY <1>7, <2>2, <2>4, <2>5 DEF Progress
  <2>7. unwind' \in [at : {"loop", "handler"}, errcode : {0, 1}, captured : BOOLEAN]
    BY <1>2, <2>1
  <2>8. b + 1 \in Nat
    OBVIOUS
  <2> QED BY <1>8, <2>1, <2>4, <2>6, <2>7, <2>8
<1> QED BY <1>1, <1>9, <1>10

\* A handler returns, or raises: the block is unwound further.
LEMMA HandlerStep ==
  ASSUME UnwindIInv, Exc!HandlerReturns \/ Exc!HandlerRaises
  PROVE  UnwindIInv'
<1> DEFINE f == context[1]
           U == [at : {"loop", "handler"}, errcode : {0, 1}, captured : BOOLEAN]
<1>1. unwind.at = "handler" /\ unwind # Exc!Idle /\ UNCHANGED ran
  BY DEF Exc!HandlerReturns, Exc!HandlerRaises, Exc!Idle
<1>2. /\ context \in Seq(Frames) /\ context # <<>> /\ f \in Frames
      /\ \A i \in 2 .. Len(context) : Full(context[i])
      /\ unwind \in U /\ \E a, b, c, d \in Nat : Progress(f, a, b, c, d, ran)
  BY <1>1 DEF UnwindIInv
<1>3. CASE Exc!HandlerReturns
  <2>1. UNCHANGED <<context, ran>> /\ unwind' = [unwind EXCEPT !.at = "loop"]
    BY <1>3 DEF Exc!HandlerReturns
  <2>2. unwind' \in U
    BY <1>2, <2>1
  <2> QED BY <1>2, <2>1, <2>2 DEF UnwindIInv
<1>4. CASE Exc!HandlerRaises
  <2>1. /\ UNCHANGED context
        /\ unwind' = [at |-> "loop", errcode |-> 1, captured |-> FALSE]
    BY <1>2, <1>4 DEF Exc!HandlerRaises, Exc!raise_exception
  <2>2. unwind' \in U
    BY <2>1
  <2> QED BY <1>1, <1>2, <2>1, <2>2 DEF UnwindIInv
<1> QED BY <1>3, <1>4

\* The block is popped; the one below it has all its handlers yet.
LEMMA PopStep ==
  ASSUME UnwindIInv, Exc!PopFrame
  PROVE  UnwindIInv'
<1> DEFINE s == Tail(context)
<1>1. unwind.at = "loop" /\ unwind # Exc!Idle /\ ran' = <<>>
  BY DEF Exc!PopFrame, Exc!Idle
<1>2. /\ context \in Seq(Frames) /\ context # <<>>
      /\ \A i \in 2 .. Len(context) : Full(context[i])
  BY <1>1 DEF UnwindIInv
<1>3. /\ s \in Seq(Frames) /\ Len(s) = Len(context) - 1
      /\ \A i \in 1 .. Len(s) : s[i] = context[i + 1]
  BY <1>2
<1>4. \A i \in 1 .. Len(s) : Full(s[i])
  <2>1. SUFFICES ASSUME NEW i \in 1 .. Len(s) PROVE Full(s[i])
    OBVIOUS
  <2>2. i + 1 \in 2 .. Len(context)
    BY <1>2, <1>3
  <2> QED BY <1>2, <1>3, <2>2
<1>5. CASE context' = s /\ unwind' = Exc!Idle
  <2> HIDE DEF s
  <2>1. \A i \in 2 .. Len(s) : i \in 1 .. Len(s)
    BY <1>3
  <2>2. s # <<>> => 1 \in 1 .. Len(s)
    BY <1>3
  <2> QED BY <1>1, <1>3, <1>4, <1>5, <2>1, <2>2 DEF UnwindIInv
<1>6. CASE s # <<>> /\ Exc!raise_exception(s)
  <2> DEFINE f == s[1]
             C == f.installed.catchers
             F == f.installed.finalizers
  <2>1. context' = s /\ unwind' = [at |-> "loop", errcode |-> 1, captured |-> FALSE]
    BY <1>6 DEF Exc!raise_exception
  <2>2. /\ f \in Frames /\ Full(f) /\ C \in Nat /\ F \in Nat
    <3>1. 1 \in 1 .. Len(s)
      BY <1>3, <1>6
    <3>2. s[1] \in Frames /\ Full(s[1])
      BY <1>3, <1>4, <3>1, ElementOfSeq
    <3> HIDE DEF s
    <3> QED BY <3>2 DEF Frames
  <2>3. Progress(f, 0, 0, C, F, ran')
    <3> HIDE DEF s
    <3>1. ran' = Ran(f, 0, 0)
      BY <1>1, <2>2, RanGrows
    <3> QED BY <2>2, <3>1 DEF Progress, Full
  <2>4. \A i \in 2 .. Len(s) : Full(s[i])
    <3>1. \A i \in 2 .. Len(s) : i \in 1 .. Len(s)
      BY <1>3
    <3> QED BY <1>4, <3>1
  <2> HIDE DEF C, F, s
  <2> QED BY <1>3, <1>6, <2>1, <2>2, <2>3, <2>4 DEF UnwindIInv
<1>7. CASE s = <<>> /\ Exc!raise_exception(s)
  <2>1. context' = s /\ unwind' = Exc!Idle
    BY <1>7 DEF Exc!raise_exception
  <2> QED BY <1>5, <2>1
<1> QED BY <1>5, <1>6, <1>7 DEF Exc!PopFrame

\* What the invariant says of the order, and of a block that is about to be
\* popped.
LEMMA UnwindOrder ==
  ASSUME UnwindIInv
  PROVE  Exc!UnwindInv
<1>1. CASE unwind = Exc!Idle /\ ran = <<>>
  <2>1. unwind.at = "none" /\ Len(ran) = 0
    BY <1>1 DEF Exc!Idle
  <2> QED BY <2>1 DEF Exc!UnwindInv
<1>2. ASSUME NEW a \in Nat, NEW b \in Nat, NEW c \in Nat, NEW d \in Nat,
             context # <<>>, Progress(context[1], a, b, c, d, ran)
      PROVE  Exc!UnwindInv
  <2> DEFINE f == context[1]
             C == f.installed.catchers
             F == f.installed.finalizers
  <2>1. f \in Frames /\ C \in Nat /\ F \in Nat
    <3>1. context \in Seq(Frames) /\ 1 \in 1 .. Len(context)
      BY <1>2 DEF UnwindIInv
    <3>2. f \in Frames
      BY <3>1, ElementOfSeq
    <3> HIDE DEF f
    <3> QED BY <3>2 DEF Frames
  <2>2. /\ ran = Ran(f, a, b) /\ b + d = F /\ a + c = (IF f.ended THEN 0 ELSE C)
        /\ f.catchers = Down(c) /\ f.finalizers = Down(d)
    BY <1>2 DEF Progress
  <2>3. /\ Len(ran) = a + b
        /\ \A i \in 1 .. a : ran[i] = <<"catchers", C - i + 1>>
        /\ \A i \in a + 1 .. a + b : ran[i] = <<"finalizers", F - (i - a) + 1>>
    <3>1. ran = [i \in 1 .. a + b |-> IF i <= a THEN <<"catchers", C - i + 1>>
                                      ELSE <<"finalizers", F - (i - a) + 1>>]
      BY <2>2, Zenon DEF Ran
    <3> HIDE DEF C, F
    <3> QED BY <3>1
  <2>4. Exc!Top = f
    BY DEF Exc!Top
  <2> HIDE DEF f, C, F
  <2>5. /\ \A i \in 1 .. a : ran[i][1] = "catchers" /\ ran[i][2] = C - i + 1
        /\ \A i \in a + 1 .. a + b : ran[i][1] = "finalizers" /\ ran[i][2] = F - (i - a) + 1
    <3>1. \A x, y : <<x, y>>[1] = x /\ <<x, y>>[2] = y
      OBVIOUS
    <3>2. ASSUME NEW i \in 1 .. a
          PROVE  ran[i][1] = "catchers" /\ ran[i][2] = C - i + 1
      <4>1. ran[i] = <<"catchers", C - i + 1>>
        BY <2>3
      <4> QED BY <3>1, <4>1
    <3>3. ASSUME NEW i \in a + 1 .. a + b
          PROVE  ran[i][1] = "finalizers" /\ ran[i][2] = F - (i - a) + 1
      <4>1. ran[i] = <<"finalizers", F - (i - a) + 1>>
        BY <2>3
      <4> QED BY <3>1, <4>1
    <3> QED BY <3>2, <3>3
  <2>6. ASSUME NEW i \in 1 .. Len(ran), NEW j \in 1 .. Len(ran), i < j
        PROVE  \/ ran[i][1] = ran[j][1] /\ ran[i][2] > ran[j][2]
               \/ ran[i][1] = "catchers" /\ ran[j][1] = "finalizers"
    <3>1. CASE j <= a
      BY <2>1, <2>3, <2>5, <2>6, <3>1
    <3>2. CASE i <= a /\ ~ j <= a
      BY <2>3, <2>5, <3>2
    <3>3. CASE ~ i <= a
      <4>1. i \in a + 1 .. a + b /\ j \in a + 1 .. a + b
        BY <2>3, <2>6, <3>3
      <4>2. /\ ran[i][1] = "finalizers" /\ ran[i][2] = F - (i - a) + 1
            /\ ran[j][1] = "finalizers" /\ ran[j][2] = F - (j - a) + 1
        BY <2>5, <4>1
      <4>3. F - (i - a) + 1 > F - (j - a) + 1
        BY <2>1, <2>6, <4>1
      <4> QED BY <4>2, <4>3
    <3> QED BY <2>6, <3>1, <3>2, <3>3
  <2>7. Exc!Before("catchers") = 1 .. a /\ Exc!Before("finalizers") = a + 1 .. a + b
    BY <2>3, <2>5 DEF Exc!Before
  <2>8. /\ Exc!Cardinality(1 .. a) = a /\ Exc!Cardinality(a + 1 .. a + b) = b
    <3>1. \A S : Exc!Cardinality(S) = Cardinality(S)
      BY DEF Exc!Cardinality, Cardinality
    <3>2. Cardinality(1 .. a) = a /\ Cardinality(a + 1 .. a + b) = b
      BY FS_Interval
    <3> QED BY <3>1, <3>2
  <2>9. ASSUME f.catchers = <<>>, f.finalizers = <<>>
        PROVE  b = F /\ a = IF f.ended THEN 0 ELSE C
    <3>1. c = 0 /\ d = 0
      BY <2>2, <2>9, DownProperties
    <3> QED BY <2>1, <2>2, <3>1
  <2>10. C = f.installed.catchers /\ F = f.installed.finalizers
    BY DEF C, F
  <2> QED BY <2>4, <2>6, <2>7, <2>8, <2>9, <2>10 DEF Exc!UnwindInv
<1> QED BY <1>1, <1>2 DEF UnwindIInv

\* Every handler of a block runs once and in order, whatever handlers raise,
\* with any number of handlers and blocks.
THEOREM UnwindTheorem == ProgramsSpec => []UnwindInv
<1> DEFINE I == task = "exceptions" => UnwindIInv
<1>1. boot => I
  <2> SUFFICES ASSUME boot PROVE UnwindIInv
    OBVIOUS
  <2>1. Exc!Init
    BY DEF boot
  <2>2. context \in Seq(Frames) /\ Len(context) = 0
    BY <2>1, EmptyElements DEF Exc!Init
  <2> QED BY <2>1, <2>2 DEF Exc!Init, UnwindIInv
<1>2. I /\ [ProgramsNext]_programVars => I'
  <2> SUFFICES ASSUME I, [ProgramsNext]_programVars PROVE I'
    OBVIOUS
  <2>1. CASE task = "exceptions" /\ Exc!Next /\ UNCHANGED task
    <3>1. UnwindIInv'
      BY <2>1, BodyStep, CallStep, HandlerStep, PopStep
         DEF Exc!Next, Exc!Unwinding, Kinds
    <3> QED BY <3>1
  <2>2. CASE UNCHANGED <<task, excVars>>
    BY <2>2 DEF excVars, UnwindIInv
  <2>3. CASE task # "exceptions" /\ UNCHANGED task
    BY <2>3
  <2> QED BY <2>1, <2>2, <2>3 DEF ProgramsNext, programVars
<1>3. I => UnwindInv
  BY UnwindOrder DEF UnwindInv
<1> QED BY <1>1, <1>2, <1>3, PTL DEF ProgramsSpec

-----------------------------------------------------------------------------
(* The information stream.                                                 *)

Used == {p \in Info!Pids : pstate[p] # "FREE"}
Row == [pid : Info!Pids, alive : BOOLEAN]

\* Of a table with n entries the reader has read n - index rows, the last entry
\* first, and before it what lies behind the table.
RowsInv ==
  LET n == Len(info_table)
  IN  /\ index \in -1 .. n
      /\ Len(rows) = n - index
      /\ \A j \in 2 .. Len(rows) : rows[j] = info_table[n - j + 2]
      /\ reader = "start" => rows = <<>>
      /\ reader = "done" => rows = <<>> \/ index = -1

InfoIInv ==
  /\ pstate \in [Info!Pids -> {"FREE", "ALIVE", "ZOMBIE"}]
  /\ {0, 1} \subseteq Used /\ process_count = Cardinality(Used)
  /\ info_table \in Seq(Row) /\ rows \in Seq(Row \cup {Info!Garbage})
  /\ \A i \in DOMAIN info_table : info_table[i].pid = 0 <=> i = 1
  /\ RowsInv

LEMMA PidsFinite ==
  /\ IsFiniteSet(Info!Pids) /\ {0, 1} \subseteq Info!Pids
  /\ \A S \in SUBSET Info!Pids : IsFiniteSet(S) /\ Cardinality(S) \in Nat
<1>1. IsFiniteSet(Info!Pids) /\ {0, 1} \subseteq Info!Pids
  BY ProgramsAssumption, FS_Interval DEF Info!Pids
<1> QED BY <1>1, FS_Subset, FS_CardinalityType

\* OpenInfo finds the processes in use, the scheduler's first.
LEMMA FillRows ==
  ASSUME InfoIInv
  PROVE  /\ Info!Fill \in Seq(Row)
         /\ \A i \in DOMAIN Info!Fill : Info!Fill[i].pid = 0 <=> i = 1
<1> DEFINE used == Kept(Info!PT, Used)
<1>1. MAX_PROC \in Nat /\ MAX_PROC >= 2
  BY ProgramsAssumption
<1>2. /\ Info!PT \in Seq(Info!Pids) /\ Info!PT # <<>> /\ Info!PT[1] = 0
      /\ ToSet(Info!PT) = Info!Pids /\ IsInjective(Info!PT)
  <2>1. PICK t : t = Info!PT
    OBVIOUS
  <2>2. t = [i \in 1 .. MAX_PROC |-> i - 1]
    BY <2>1 DEF Info!PT
  <2>3. \A i \in 1 .. MAX_PROC : i - 1 \in Info!Pids
    BY <1>1 DEF Info!Pids
  <2>4. /\ t \in Seq(Info!Pids) /\ Len(t) = MAX_PROC /\ DOMAIN t = 1 .. MAX_PROC
        /\ t # <<>> /\ t[1] = 0
    BY <1>1, <2>2, <2>3
  <2>5. \A p \in Info!Pids : p + 1 \in 1 .. MAX_PROC /\ t[p + 1] = p
    BY <1>1, <2>2 DEF Info!Pids
  <2>6. ToSet(t) = Info!Pids
    BY <2>2, <2>3, <2>4, <2>5 DEF ToSet
  <2>7. IsInjective(t)
    BY <1>1, <2>2 DEF IsInjective
  <2> QED BY <2>1, <2>4, <2>6, <2>7
<1>3. 0 \in Used /\ Used \subseteq Info!Pids
  BY DEF InfoIInv, Used
<1>4. /\ used \in Seq(Info!Pids) /\ ToSet(used) = Used /\ IsInjective(used)
      /\ used # <<>> /\ used[1] = 0
  <2>1. /\ used \in Seq(Info!Pids) /\ ToSet(used) = ToSet(Info!PT) \cap Used
        /\ (IsInjective(Info!PT) => IsInjective(used))
        /\ (Info!PT # <<>> /\ Info!PT[1] \in Used => used # <<>> /\ used[1] = Info!PT[1])
    BY <1>2, KeptElements
  <2> QED BY <1>2, <1>3, <2>1
<1>5. Len(used) = process_count
  BY <1>4, CountElements DEF InfoIInv
<1>6. Info!Kept(Info!PT, Used) = used
  BY DEF Info!Kept, Kept
<1> HIDE DEF used
<1>7. SubSeq(used, 1, process_count) = used
  BY <1>4, <1>5
<1>8. Info!Fill = [i \in DOMAIN used |-> [pid |-> used[i], alive |-> pstate[used[i]] = "ALIVE"]]
  BY <1>6, <1>7 DEF Info!Fill, Used
<1>9. /\ DOMAIN used = 1 .. Len(used) /\ Len(used) \in Nat
      /\ \A i \in 1 .. Len(used) : used[i] \in Info!Pids /\ (used[i] = 0 <=> i = 1)
  BY <1>4 DEF IsInjective
<1>10. PICK s : s = Info!Fill
  OBVIOUS
<1>11. \A i \in 1 .. Len(used) : [pid |-> used[i], alive |-> pstate[used[i]] = "ALIVE"] \in Row
  BY <1>9 DEF Row
<1>12. s \in Seq(Row) /\ DOMAIN s = 1 .. Len(used)
  BY <1>8, <1>9, <1>10, <1>11
<1>13. \A i \in 1 .. Len(used) : s[i].pid = used[i]
  BY <1>8, <1>9, <1>10
<1> QED BY <1>9, <1>10, <1>12, <1>13

\* The stream is made.
LEMMA OpenInfoStep ==
  ASSUME InfoIInv, Info!sys_OpenInfo
  PROVE  InfoIInv'
<1>1. /\ reader = "start" /\ UNCHANGED <<pstate, process_count, rows>>
      /\ reader' \in {"read", "done", "fault"}
      /\ \/ info_table' = Info!Fill /\ index' = Len(Info!Fill)
         \/ UNCHANGED <<info_table, index>>
  BY DEF Info!sys_OpenInfo
<1>2. rows = <<>> /\ Len(rows) = 0
  BY <1>1 DEF InfoIInv, RowsInv
<1>3. CASE UNCHANGED <<info_table, index>>
  BY <1>1, <1>2, <1>3 DEF InfoIInv, RowsInv, Used
<1>4. CASE info_table' = Info!Fill /\ index' = Len(Info!Fill)
  <2>1. /\ info_table' \in Seq(Row)
        /\ \A i \in DOMAIN info_table' : info_table'[i].pid = 0 <=> i = 1
    BY <1>4, FillRows
  <2>2. Len(info_table') \in Nat
    BY <2>1
  <2>3. RowsInv'
    BY <1>1, <1>2, <1>4, <2>2 DEF RowsInv
  <2> QED BY <1>1, <2>1, <2>3 DEF InfoIInv, Used
<1> QED BY <1>1, <1>3, <1>4

\* The next row is read, or the end.
LEMMA InfoReadStep ==
  ASSUME InfoIInv, Info!info_read
  PROVE  InfoIInv'
<1> DEFINE n == Len(info_table)
<1>1. /\ reader = "read" /\ UNCHANGED <<pstate, process_count, info_table>>
      /\ n \in Nat /\ index \in -1 .. n /\ Len(rows) = n - index
      /\ \A j \in 2 .. Len(rows) : rows[j] = info_table[n - j + 2]
      /\ info_table \in Seq(Row) /\ rows \in Seq(Row \cup {Info!Garbage})
  BY DEF Info!info_read, InfoIInv, RowsInv
<1>2. CASE index = -1
  <2>1. reader' = "done" /\ UNCHANGED <<index, rows>>
    BY <1>2 DEF Info!info_read, Info!AtEnd
  <2> QED BY <1>1, <1>2, <2>1 DEF InfoIInv, RowsInv, Used
<1>3. CASE index # -1
  <2> DEFINE row == IF index < n THEN info_table[index + 1] ELSE Info!Garbage
  <2>1. rows' = Append(rows, row) /\ index' = index - 1 /\ reader' = "read"
    BY <1>1, <1>3 DEF Info!info_read, Info!AtEnd
  <2>2. row \in Row \cup {Info!Garbage}
    <3>1. index < n => index + 1 \in 1 .. n
      BY <1>1, <1>3
    <3> QED BY <1>1, <3>1
  <2>3. row = IF index < n THEN info_table[index + 1] ELSE Info!Garbage
    OBVIOUS
  <2> HIDE DEF row, n
  <2>4. /\ rows' \in Seq(Row \cup {Info!Garbage}) /\ Len(rows') = Len(rows) + 1
        /\ \A j \in 1 .. Len(rows) : rows'[j] = rows[j]
        /\ rows'[Len(rows) + 1] = row
    BY <1>1, <2>1, <2>2, AppendProperties
  <2>5. index' \in -1 .. n /\ Len(rows') = n - index'
    BY <1>1, <1>3, <2>1, <2>4
  <2>6. ASSUME NEW j \in 2 .. Len(rows')
        PROVE  rows'[j] = info_table[n - j + 2]
    <3>1. CASE j \in 2 .. Len(rows)
      BY <1>1, <2>4, <3>1
    <3>2. CASE j = Len(rows) + 1
      <4>1. index < n /\ n - j + 2 = index + 1
        BY <1>1, <2>6, <3>2
      <4> QED BY <2>3, <2>4, <3>2, <4>1
    <3> QED BY <1>1, <2>4, <2>6, <3>1, <3>2
  <2>7. n = Len(info_table)
    BY DEF n
  <2>8. RowsInv'
    BY <1>1, <2>1, <2>5, <2>6, <2>7 DEF RowsInv
  <2> QED BY <1>1, <2>4, <2>8 DEF InfoIInv, Used
<1> QED BY <1>2, <1>3

\* A process starts, exits or is collected; the stream does not notice.
LEMMA ChangeStep ==
  ASSUME InfoIInv, NEW p \in Info!Pids \ {0, 1}, Info!Change(p)
  PROVE  InfoIInv'
<1>1. UNCHANGED <<reader, info_table, index, rows>>
  BY DEF Info!Change
<1>2. /\ pstate \in [Info!Pids -> {"FREE", "ALIVE", "ZOMBIE"}] /\ {0, 1} \subseteq Used
      /\ process_count = Cardinality(Used) /\ Used \subseteq Info!Pids
  BY DEF InfoIInv, Used
<1>3. IsFiniteSet(Used) /\ Cardinality(Used) \in Nat
  BY <1>2, PidsFinite
<1>4. /\ pstate' \in [Info!Pids -> {"FREE", "ALIVE", "ZOMBIE"}] /\ {0, 1} \subseteq Used'
      /\ process_count' = Cardinality(Used')
  <2>1. CASE /\ pstate[p] = "FREE" /\ pstate' = [pstate EXCEPT ![p] = "ALIVE"]
             /\ process_count' = process_count + 1
    <3>1. Used' = Used \cup {p} /\ p \notin Used
      BY <1>2, <2>1 DEF Used
    <3>2. Cardinality(Used \cup {p}) = Cardinality(Used) + 1
      BY <1>3, <3>1, FS_AddElement
    <3> QED BY <1>2, <2>1, <3>1, <3>2
  <2>2. CASE /\ pstate[p] = "ALIVE" /\ pstate' = [pstate EXCEPT ![p] = "ZOMBIE"]
             /\ UNCHANGED process_count
    <3>1. Used' = Used
      BY <1>2, <2>2 DEF Used
    <3> QED BY <1>2, <2>2, <3>1
  <2>3. CASE /\ pstate[p] = "ZOMBIE" /\ pstate' = [pstate EXCEPT ![p] = "FREE"]
             /\ process_count' = process_count - 1
    <3>1. Used' = Used \ {p} /\ p \in Used
      BY <1>2, <2>3 DEF Used
    <3>2. Cardinality(Used \ {p}) = Cardinality(Used) - 1
      BY <1>3, <3>1, FS_RemoveElement
    <3> QED BY <1>2, <2>3, <3>1, <3>2
  <2> QED BY <2>1, <2>2, <2>3 DEF Info!Change
<1> QED BY <1>1, <1>4 DEF InfoIInv, RowsInv

\* The last rows are the table from its end.
LEMMA RowsReversed ==
  ASSUME InfoIInv
  PROVE  Info!InfoInv
<1> DEFINE n == Len(info_table)
<1>1. /\ n \in Nat /\ index \in -1 .. n /\ Len(rows) = n - index
      /\ \A j \in 2 .. Len(rows) : rows[j] = info_table[n - j + 2]
      /\ info_table \in Seq(Row) /\ rows \in Seq(Row \cup {Info!Garbage})
  <2>1. info_table \in Seq(Row) /\ rows \in Seq(Row \cup {Info!Garbage}) /\ RowsInv
    BY DEF InfoIInv
  <2>2. n \in Nat
    BY <2>1
  <2> QED BY <2>1, <2>2 DEF RowsInv
<1>2. ASSUME reader = "done", rows # <<>>, NEW i \in 1 .. n
      PROVE  rows[Len(rows) + 1 - i] = info_table[i]
  <2>1. index = -1 /\ Len(rows) = n + 1
    BY <1>1, <1>2 DEF InfoIInv, RowsInv
  <2> HIDE DEF n
  <2>2. /\ Len(rows) + 1 - i \in 2 .. Len(rows)
        /\ n - (Len(rows) + 1 - i) + 2 = i
    BY <1>1, <1>2, <2>1
  <2> QED BY <1>1, <2>2
<1>3. reader = "done" /\ rows # <<>> => Len(rows) >= n
  BY <1>1 DEF InfoIInv, RowsInv
<1>4. DOMAIN info_table = 1 .. n
  BY <1>1
<1> QED BY <1>2, <1>3, <1>4 DEF Info!InfoInv, InfoIInv

\* An information stream that is read to its end is a snapshot of the process
\* table, of any size.
THEOREM InfoTheorem == ProgramsSpec => []InfoInv
<1> DEFINE I == task = "sysinfo" => InfoIInv
<1>1. boot => I
  <2> SUFFICES ASSUME boot PROVE InfoIInv
    OBVIOUS
  <2>1. Info!Init
    BY DEF boot
  <2>2. Used = {0, 1} /\ pstate \in [Info!Pids -> {"FREE", "ALIVE", "ZOMBIE"}]
    BY <2>1, PidsFinite DEF Info!Init, Used
  <2>3. Cardinality({0, 1}) = 2
    <3>1. Cardinality({0}) = 1 /\ IsFiniteSet({0})
      BY FS_Singleton
    <3>2. Cardinality({0} \cup {1}) = Cardinality({0}) + 1
      BY <3>1, FS_AddElement
    <3>3. {0} \cup {1} = {0, 1}
      OBVIOUS
    <3> QED BY <3>1, <3>2, <3>3
  <2>4. info_table = <<>> /\ rows = <<>> /\ index = 0 /\ reader = "start" /\ process_count = 2
    BY <2>1 DEF Info!Init
  <2>5. info_table \in Seq(Row) /\ rows \in Seq(Row \cup {Info!Garbage})
    BY <2>4, EmptyElements
  <2>6. Len(<<>>) = 0 /\ DOMAIN <<>> = {}
    OBVIOUS
  <2>7. RowsInv
    BY <2>4, <2>6 DEF RowsInv
  <2> QED BY <2>2, <2>3, <2>4, <2>5, <2>6, <2>7 DEF InfoIInv
<1>2. I /\ [ProgramsNext]_programVars => I'
  <2> SUFFICES ASSUME I, [ProgramsNext]_programVars PROVE I'
    OBVIOUS
  <2>1. CASE task = "sysinfo" /\ Info!Next /\ UNCHANGED task
    <3>1. InfoIInv'
      BY <2>1, OpenInfoStep, InfoReadStep, ChangeStep DEF Info!Next
    <3> QED BY <3>1
  <2>2. CASE UNCHANGED <<task, infoVars>>
    BY <2>2 DEF infoVars, InfoIInv, RowsInv, Used
  <2>3. CASE task # "sysinfo" /\ UNCHANGED task
    BY <2>3
  <2> QED BY <2>1, <2>2, <2>3 DEF ProgramsNext, programVars
<1>3. I => InfoInv
  BY RowsReversed DEF InfoInv
<1> QED BY <1>1, <1>2, <1>3, PTL DEF ProgramsSpec

-----------------------------------------------------------------------------
(* The shell.                                                              *)

NoFile == Sh!Closed
Term(t) == <<"term", t>>

\* A table of descriptors of which at most six are open.
Files(a, b, c, d, e, g) ==
  [f \in Sh!Fids |-> IF f = 0 THEN a ELSE IF f = 1 THEN b ELSE IF f = 2 THEN c
                     ELSE IF f = 3 THEN d ELSE IF f = 4 THEN e ELSE IF f = 5 THEN g
                     ELSE NoFile]

OwnFiles(t) == Files(Term(t), Term(t), NoFile, NoFile, NoFile, NoFile)
Owned == {OwnFiles(t) : t \in Nat}

\* Where fragment i of the line of terminal t has its input from.
InputOf(i, t) == IF i = 1 THEN Term(t) ELSE <<"r", i - 1>>

Pipelining == {"before", "execute", "after"}

\* The terminals that have been booted; the parent goes on with the output of
\* the last.
BootInv ==
  /\ booted \in Seq(Owned)
  /\ \A t \in DOMAIN booted : booted[t] = OwnFiles(t - 1)
  /\ at = "boot" => shellFIDT = Files(NoFile, IF booted = <<>> THEN NoFile ELSE Term(Len(booted) - 1),
                                      NoFile, NoFile, NoFile, NoFile)

\* The descriptors of the shell at each point of process_line.
FilesInv ==
  /\ at \in {"boot", "prompt", "wait", "finished"} \cup Pipelining
  /\ at \in {"prompt", "wait"} => \E t \in 0 .. Terms - 1 : shellFIDT = OwnFiles(t)
  /\ at \in Pipelining =>
       /\ save = <<2, 3>>
       /\ \E t \in 0 .. Terms - 1 :
            \/ /\ at = "before"
               /\ \E out : /\ out # NoFile
                           /\ shellFIDT = Files(InputOf(frag, t), out, Term(t), Term(t), NoFile, NoFile)
            \/ /\ at # "before" /\ frag < Len(line) /\ rd = 4
               /\ shellFIDT = Files(InputOf(frag, t), <<"w", frag>>, Term(t), Term(t),
                                    <<"r", frag>>, NoFile)
            \/ /\ at # "before" /\ frag = Len(line)
               /\ shellFIDT = Files(InputOf(frag, t), Term(t), Term(t), NoFile, NoFile, NoFile)

LineInv ==
  at \in {"wait"} \cup Pipelining => Len(line) \in Sh!Frags /\ frag \in 1 .. Len(line)

\* What a program of a line of n fragments has.
WiredTo(i, ft, n) ==
  /\ IF i = 1 THEN ft[0][1] = "term" ELSE ft[0] = <<"r", i - 1>>
  /\ IF i = n THEN ft[1][1] = "term" ELSE ft[1] = <<"w", i>>
  /\ \A f \in Sh!Fids \ {1} : ft[f][1] # "w"

IsProcess(c) ==
  \E s \in {"read", "write", "exit", "exited"} : \E ft, left :
     c = [at |-> s, FIDT |-> ft, left |-> left]

\* The children of the shell: those of the fragments up to the one at hand, and
\* while it waits those it has not come to.
ChildInv ==
  /\ DOMAIN child = Sh!Frags /\ DOMAIN got = Sh!Frags
  /\ \A i \in Sh!Frags : child[i] # Sh!NoChild =>
       /\ IsProcess(child[i]) /\ got[i]
       /\ child[i].at # "exited" => WiredTo(i, child[i].FIDT, Len(line))
       /\ \/ at \in {"before", "execute"} /\ i < frag
          \/ at = "after" /\ i <= frag
          \/ at = "wait" /\ i \in frag .. Len(line)

ShellIInv ==
  /\ BootInv /\ FilesInv /\ LineInv /\ ChildInv
  /\ data \in [Sh!Frags -> 0 .. PipeSize]

LEMMA ShellConstants ==
  /\ {0, 1, 2, 3, 4, 5} \subseteq Sh!Fids /\ Sh!Fids \subseteq Nat
  /\ Sh!Frags \subseteq Nat \ {0} /\ MaxFrag \in Nat /\ PipeSize \in Nat
<1>1. MAX_FILEID \in Nat /\ MAX_FILEID >= 6 /\ MaxFrag \in Nat /\ PipeSize \in Nat
  BY ProgramsAssumption
<1> QED BY <1>1 DEF Sh!Fids, Sh!Frags

LEMMA Slots ==
  /\ \A t : Term(t) # NoFile /\ Term(t)[1] = "term"
  /\ \A i : <<"r", i>> # NoFile /\ <<"w", i>> # NoFile
  /\ NoFile[1] = "closed" /\ <<"null", 0>> # NoFile
  /\ \A i, t : InputOf(i, t) # NoFile
<1>1. /\ \A t : Term(t)[1] = "term"
      /\ \A i : <<"r", i>>[1] = "r" /\ <<"w", i>>[1] = "w"
      /\ NoFile[1] = "closed" /\ <<"null", 0>>[1] = "null"
  BY DEF Term, NoFile, Sh!Closed
<1>2. /\ \A t : Term(t) # NoFile
      /\ \A i : <<"r", i>> # NoFile /\ <<"w", i>> # NoFile
      /\ <<"null", 0>> # NoFile
  BY <1>1
<1> QED BY <1>1, <1>2 DEF InputOf

\* The tables of six, and what is assigned to one of their descriptors.
LEMMA FilesChange ==
  ASSUME NEW a, NEW b, NEW c, NEW d, NEW e, NEW g, NEW x
  PROVE  /\ [Files(a, b, c, d, e, g) EXCEPT ![0] = x] = Files(x, b, c, d, e, g)
         /\ [Files(a, b, c, d, e, g) EXCEPT ![1] = x] = Files(a, x, c, d, e, g)
         /\ [Files(a, b, c, d, e, g) EXCEPT ![2] = x] = Files(a, b, x, d, e, g)
         /\ [Files(a, b, c, d, e, g) EXCEPT ![3] = x] = Files(a, b, c, x, e, g)
         /\ [Files(a, b, c, d, e, g) EXCEPT ![4] = x] = Files(a, b, c, d, x, g)
         /\ [Files(a, b, c, d, e, g) EXCEPT ![5] = x] = Files(a, b, c, d, e, x)
         /\ Files(a, b, c, d, e, g)[0] = a /\ Files(a, b, c, d, e, g)[1] = b
         /\ Files(a, b, c, d, e, g)[2] = c /\ Files(a, b, c, d, e, g)[3] = d
         /\ Files(a, b, c, d, e, g)[4] = e /\ Files(a, b, c, d, e, g)[5] = g
<1>1. /\ {0, 1, 2, 3, 4, 5} \subseteq Sh!Fids
      /\ \A f \in Sh!Fids : Files(a, b, c, d, e, g)[f] =
             IF f = 0 THEN a ELSE IF f = 1 THEN b ELSE IF f = 2 THEN c
             ELSE IF f = 3 THEN d ELSE IF f = 4 THEN e ELSE IF f = 5 THEN g ELSE NoFile
  BY ShellConstants DEF Files
<1>2. \A p, q, r, s, t, u : Files(p, q, r, s, t, u) =
        [f \in Sh!Fids |-> IF f = 0 THEN p ELSE IF f = 1 THEN q ELSE IF f = 2 THEN r
                           ELSE IF f = 3 THEN s ELSE IF f = 4 THEN t ELSE IF f = 5 THEN u
                           ELSE NoFile]
  BY Zenon DEF Files
<1>3. ASSUME NEW F, NEW G, NEW k \in Sh!Fids, DOMAIN F = Sh!Fids, DOMAIN G = Sh!Fids,
             F = [f \in Sh!Fids |-> F[f]], G = [f \in Sh!Fids |-> G[f]],
             G[k] = x, \A f \in Sh!Fids \ {k} : F[f] = G[f]
      PROVE  [F EXCEPT ![k] = x] = G
  BY <1>3
<1>4. [Files(a, b, c, d, e, g) EXCEPT ![0] = x] = Files(x, b, c, d, e, g)
  <2>1. PICK F, G : F = Files(a, b, c, d, e, g) /\ G = Files(x, b, c, d, e, g)
    OBVIOUS
  <2>2. /\ 0 \in Sh!Fids /\ DOMAIN F = Sh!Fids /\ DOMAIN G = Sh!Fids
        /\ F = [f \in Sh!Fids |-> F[f]] /\ G = [f \in Sh!Fids |-> G[f]]
        /\ G[0] = x /\ \A f \in Sh!Fids \ {0} : F[f] = G[f]
    BY <1>1, <1>2, <2>1
  <2>3. [F EXCEPT ![0] = x] = G
    BY <1>3, <2>2
  <2> QED BY <2>1, <2>3
<1>5. [Files(a, b, c, d, e, g) EXCEPT ![1] = x] = Files(a, x, c, d, e, g)
  <2>1. PICK F, G : F = Files(a, b, c, d, e, g) /\ G = Files(a, x, c, d, e, g)
    OBVIOUS
  <2>2. /\ 1 \in Sh!Fids /\ DOMAIN F = Sh!Fids /\ DOMAIN G = Sh!Fids
        /\ F = [f \in Sh!Fids |-> F[f]] /\ G = [f \in Sh!Fids |-> G[f]]
        /\ G[1] = x /\ \A f \in Sh!Fids \ {1} : F[f] = G[f]
    BY <1>1, <1>2, <2>1
  <2>3. [F EXCEPT ![1] = x] = G
    BY <1>3, <2>2
  <2> QED BY <2>1, <2>3
<1>6. [Files(a, b, c, d, e, g) EXCEPT ![2] = x] = Files(a, b, x, d, e, g)
  <2>1. PICK F, G : F = Files(a, b, c, d, e, g) /\ G = Files(a, b, x, d, e, g)
    OBVIOUS
  <2>2. /\ 2 \in Sh!Fids /\ DOMAIN F = Sh!Fids /\ DOMAIN G = Sh!Fids
        /\ F = [f \in Sh!Fids |-> F[f]] /\ G = [f \in Sh!Fids |-> G[f]]
        /\ G[2] = x /\ \A f \in Sh!Fids \ {2} : F[f] = G[f]
    BY <1>1, <1>2, <2>1
  <2>3. [F EXCEPT ![2] = x] = G
    BY <1>3, <2>2
  <2> QED BY <2>1, <2>3
<1>7. [Files(a, b, c, d, e, g) EXCEPT ![3] = x] = Files(a, b, c, x, e, g)
  <2>1. PICK F, G : F = Files(a, b, c, d, e, g) /\ G = Files(a, b, c, x, e, g)
    OBVIOUS
  <2>2. /\ 3 \in Sh!Fids /\ DOMAIN F = Sh!Fids /\ DOMAIN G = Sh!Fids
        /\ F = [f \in Sh!Fids |-> F[f]] /\ G = [f \in Sh!Fids |-> G[f]]
        /\ G[3] = x /\ \A f \in Sh!Fids \ {3} : F[f] = G[f]
    BY <1>1, <1>2, <2>1
  <2>3. [F EXCEPT ![3] = x] = G
    BY <1>3, <2>2
  <2> QED BY <2>1, <2>3
<1>8. [Files(a, b, c, d, e, g) EXCEPT ![4] = x] = Files(a, b, c, d, x, g)
  <2>1. PICK F, G : F = Files(a, b, c, d, e, g) /\ G = Files(a, b, c, d, x, g)
    OBVIOUS
  <2>2. /\ 4 \in Sh!Fids /\ DOMAIN F = Sh!Fids /\ DOMAIN G = Sh!Fids
        /\ F = [f \in Sh!Fids |-> F[f]] /\ G = [f \in Sh!Fids |-> G[f]]
        /\ G[4] = x /\ \A f \in Sh!Fids \ {4} : F[f] = G[f]
    BY <1>1, <1>2, <2>1
  <2>3. [F EXCEPT ![4] = x] = G
    BY <1>3, <2>2
  <2> QED BY <2>1, <2>3
<1>9. [Files(a, b, c, d, e, g) EXCEPT ![5] = x] = Files(a, b, c, d, e, x)
  <2>1. PICK F, G : F = Files(a, b, c, d, e, g) /\ G = Files(a, b, c, d, e, x)
    OBVIOUS
  <2>2. /\ 5 \in Sh!Fids /\ DOMAIN F = Sh!Fids /\ DOMAIN G = Sh!Fids
        /\ F = [f \in Sh!Fids |-> F[f]] /\ G = [f \in Sh!Fids |-> G[f]]
        /\ G[5] = x /\ \A f \in Sh!Fids \ {5} : F[f] = G[f]
    BY <1>1, <1>2, <2>1
  <2>3. [F EXCEPT ![5] = x] = G
    BY <1>3, <2>2
  <2> QED BY <2>1, <2>3
<1> QED BY <1>1, <1>4, <1>5, <1>6, <1>7, <1>8, <1>9

\* The descriptor a new file gets.
LEMMA FirstClosed ==
  ASSUME NEW ft, NEW n \in Sh!Fids, ft[n] = NoFile,
         \A f \in Sh!Fids : f < n => ft[f] # NoFile
  PROVE  Sh!Lowest(ft) = n
<1> DEFINE S == {f \in Sh!Fids : ft[f] = Sh!Closed}
<1>1. S \subseteq Nat /\ n \in S /\ \A f \in S : n <= f
  <2>1. Sh!Fids \subseteq Nat /\ n \in Nat
    BY ShellConstants
  <2>2. \A f \in Sh!Fids : f < n \/ n <= f
    BY <2>1
  <2> QED BY <2>1, <2>2 DEF NoFile
<1>2. \A m \in S : (\A f \in S : m <= f) => m = n
  BY <1>1
<1>3. (CHOOSE m \in S : \A f \in S : m <= f) = n
  <2> HIDE DEF S
  <2> QED BY <1>1, <1>2
<1> QED BY <1>3 DEF Sh!Lowest, Sh!Min

LEMMA FilesLowest ==
  ASSUME NEW a, NEW b, NEW c, NEW d, NEW e, NEW g
  PROVE  /\ a = NoFile => Sh!Lowest(Files(a, b, c, d, e, g)) = 0
         /\ a # NoFile /\ b = NoFile => Sh!Lowest(Files(a, b, c, d, e, g)) = 1
         /\ NoFile \notin {a, b} /\ c = NoFile => Sh!Lowest(Files(a, b, c, d, e, g)) = 2
         /\ NoFile \notin {a, b, c} /\ d = NoFile => Sh!Lowest(Files(a, b, c, d, e, g)) = 3
         /\ NoFile \notin {a, b, c, d} /\ e = NoFile => Sh!Lowest(Files(a, b, c, d, e, g)) = 4
         /\ NoFile \notin {a, b, c, d, e} /\ g = NoFile => Sh!Lowest(Files(a, b, c, d, e, g)) = 5
<1>1. PICK ft : ft = Files(a, b, c, d, e, g)
  OBVIOUS
<1>2. /\ ft[0] = a /\ ft[1] = b /\ ft[2] = c /\ ft[3] = d /\ ft[4] = e /\ ft[5] = g
  BY <1>1, FilesChange
<1>3. {0, 1, 2, 3, 4, 5} \subseteq Sh!Fids /\ Sh!Fids \subseteq Nat
  BY ShellConstants
<1>4. /\ a = NoFile => Sh!Lowest(ft) = 0
      /\ a # NoFile /\ b = NoFile => Sh!Lowest(ft) = 1
      /\ NoFile \notin {a, b} /\ c = NoFile => Sh!Lowest(ft) = 2
      /\ NoFile \notin {a, b, c} /\ d = NoFile => Sh!Lowest(ft) = 3
      /\ NoFile \notin {a, b, c, d} /\ e = NoFile => Sh!Lowest(ft) = 4
      /\ NoFile \notin {a, b, c, d, e} /\ g = NoFile => Sh!Lowest(ft) = 5
  <2>1. \A f \in Sh!Fids : /\ ~ f < 0
                           /\ f < 1 => f = 0
                           /\ f < 2 => f \in {0, 1}
                           /\ f < 3 => f \in {0, 1, 2}
                           /\ f < 4 => f \in {0, 1, 2, 3}
                           /\ f < 5 => f \in {0, 1, 2, 3, 4}
    BY <1>3
  <2>2. a = NoFile => Sh!Lowest(ft) = 0
    BY <1>2, <1>3, <2>1, FirstClosed
  <2>3. a # NoFile /\ b = NoFile => Sh!Lowest(ft) = 1
    BY <1>2, <1>3, <2>1, FirstClosed
  <2>4. NoFile \notin {a, b} /\ c = NoFile => Sh!Lowest(ft) = 2
    BY <1>2, <1>3, <2>1, FirstClosed
  <2>5. NoFile \notin {a, b, c} /\ d = NoFile => Sh!Lowest(ft) = 3
    BY <1>2, <1>3, <2>1, FirstClosed
  <2>6. NoFile \notin {a, b, c, d} /\ e = NoFile => Sh!Lowest(ft) = 4
    BY <1>2, <1>3, <2>1, FirstClosed
  <2>7. NoFile \notin {a, b, c, d, e} /\ g = NoFile => Sh!Lowest(ft) = 5
    BY <1>2, <1>3, <2>1, FirstClosed
  <2> QED BY <2>2, <2>3, <2>4, <2>5, <2>6, <2>7
<1> QED BY <1>1, <1>4

LEMMA FileMoves ==
  ASSUME NEW ft, NEW old, NEW new, ft[old] # NoFile
  PROVE  /\ Sh!Dup2(ft, old, new) = [ft EXCEPT ![new] = ft[old]]
         /\ Sh!Move(ft, old, new) = [[ft EXCEPT ![new] = ft[old]] EXCEPT ![old] = NoFile]
  BY DEF Sh!Move, Sh!Close, Sh!Dup2, NoFile

\* Each terminal is opened as 0 and 1, over what was left of the one before.
LEMMA OpenTerminals ==
  ASSUME NEW b, NEW t
  PROVE  Sh!OpenAs(Sh!OpenAs(Files(NoFile, b, NoFile, NoFile, NoFile, NoFile), t, 0), t, 1)
           = OwnFiles(t)
<1> DEFINE ft == Files(NoFile, b, NoFile, NoFile, NoFile, NoFile)
           one == Files(Term(t), b, NoFile, NoFile, NoFile, NoFile)
           two == Files(Term(t), b, Term(t), NoFile, NoFile, NoFile)
<1>1. Sh!OpenAs(ft, t, 0) = one
  <2>1. Sh!Lowest(ft) = 0 /\ [ft EXCEPT ![0] = Term(t)] = one
    BY FilesLowest, FilesChange
  <2> HIDE DEF ft, one
  <2> QED BY <2>1 DEF Sh!OpenAs, Sh!Open, Term
<1>2. CASE b = NoFile
  <2>1. Sh!Lowest(one) = 1 /\ [one EXCEPT ![1] = Term(t)] = OwnFiles(t)
    BY <1>2, FilesLowest, FilesChange, Slots DEF OwnFiles
  <2> HIDE DEF ft, one
  <2>2. Sh!OpenAs(one, t, 1) = OwnFiles(t)
    BY <2>1 DEF Sh!OpenAs, Sh!Open, Term
  <2> QED BY <1>1, <2>2 DEF ft
<1>3. CASE b # NoFile
  <2>1. /\ Sh!Lowest(one) = 2 /\ [one EXCEPT ![2] = Term(t)] = two /\ two[2] = Term(t)
        /\ [two EXCEPT ![1] = Term(t)] = Files(Term(t), Term(t), Term(t), NoFile, NoFile, NoFile)
        /\ [Files(Term(t), Term(t), Term(t), NoFile, NoFile, NoFile) EXCEPT ![2] = NoFile]
             = OwnFiles(t)
    <3>1. Term(t) # NoFile
      BY Slots
    <3>2. Sh!Lowest(one) = 2
      BY <1>3, <3>1, FilesLowest
    <3>3. /\ [one EXCEPT ![2] = Term(t)] = two /\ two[2] = Term(t)
          /\ [two EXCEPT ![1] = Term(t)] = Files(Term(t), Term(t), Term(t), NoFile, NoFile, NoFile)
      BY FilesChange
    <3>4. [Files(Term(t), Term(t), Term(t), NoFile, NoFile, NoFile) EXCEPT ![2] = NoFile]
            = Files(Term(t), Term(t), NoFile, NoFile, NoFile, NoFile)
      BY FilesChange
    <3> QED BY <3>2, <3>3, <3>4, Zenon DEF OwnFiles
  <2> HIDE DEF ft, one, two
  <2>2. Sh!Move(two, 2, 1) = OwnFiles(t)
    BY <2>1, FileMoves, Slots
  <2>3. Sh!OpenAs(one, t, 1) = OwnFiles(t)
    <3>1. Sh!Open(one, Term(t)) = two
      BY <2>1 DEF Sh!Open
    <3>2. Sh!OpenAs(one, t, 1) = IF Sh!Lowest(one) = 1 THEN Sh!Open(one, Term(t))
                                 ELSE Sh!Move(Sh!Open(one, Term(t)), Sh!Lowest(one), 1)
      BY Zenon DEF Sh!OpenAs, Term
    <3> QED BY <2>1, <2>2, <3>1, <3>2
  <2> QED BY <1>1, <2>3 DEF ft
<1> QED BY <1>2, <1>3

\* boot_shell.
LEMMA BootShellStep ==
  ASSUME ShellIInv, Sh!BootShell
  PROVE  ShellIInv'
<1> DEFINE n == Len(booted)
           out == IF booted = <<>> THEN NoFile ELSE Term(n - 1)
<1>1. /\ at = "boot" /\ UNCHANGED <<at, line, frag, save, rd, child, got, data>>
      /\ shellFIDT = Files(NoFile, out, NoFile, NoFile, NoFile, NoFile)
      /\ booted \in Seq(Owned) /\ n \in Nat
      /\ \A t \in DOMAIN booted : booted[t] = OwnFiles(t - 1)
  BY DEF Sh!BootShell, ShellIInv, BootInv
<1> HIDE DEF out
<1>2. /\ booted' = Append(booted, OwnFiles(n))
      /\ shellFIDT' = Files(NoFile, Term(n), NoFile, NoFile, NoFile, NoFile)
  <2>1. Sh!OpenAs(Sh!OpenAs(shellFIDT, n, 0), n, 1) = OwnFiles(n)
    BY <1>1, OpenTerminals
  <2>2. Sh!Close(OwnFiles(n), 0) = Files(NoFile, Term(n), NoFile, NoFile, NoFile, NoFile)
    BY FilesChange DEF Sh!Close, NoFile, OwnFiles
  <2> QED BY <2>1, <2>2 DEF Sh!BootShell
<1>3. BootInv'
  <2>1. OwnFiles(n) \in Owned
    BY <1>1 DEF Owned
  <2> HIDE DEF n
  <2>2. /\ booted' \in Seq(Owned) /\ Len(booted') = n + 1 /\ booted' # <<>>
        /\ booted'[n + 1] = OwnFiles(n) /\ DOMAIN booted = 1 .. n
        /\ \A t \in 1 .. n : booted'[t] = booted[t]
    BY <1>1, <1>2, <2>1, AppendProperties DEF n
  <2>3. \A t \in 1 .. n + 1 : booted'[t] = OwnFiles(t - 1)
    BY <1>1, <2>2
  <2>4. Len(booted') - 1 = n
    BY <1>1, <2>2
  <2> QED BY <1>1, <1>2, <2>2, <2>3, <2>4 DEF BootInv
<1>4. FilesInv' /\ LineInv' /\ ChildInv'
  BY <1>1 DEF ShellIInv, FilesInv, LineInv, ChildInv, Pipelining
<1> QED BY <1>1, <1>3, <1>4 DEF ShellIInv

\* One of the shells starts, or ends.
LEMMA RunShellStep ==
  ASSUME ShellIInv, Sh!RunShell \/ Sh!ShellExits
  PROVE  ShellIInv'
<1>1. /\ UNCHANGED <<booted, line, frag, save, rd, child, got, data>>
      /\ at \in {"boot", "prompt"} /\ at' \in {"prompt", "finished"}
      /\ at' = "prompt" => \E t \in 1 .. Terms : shellFIDT' = booted[t] /\ Len(booted) = Terms
  BY DEF Sh!RunShell, Sh!ShellExits
<1>2. at' = "prompt" => \E t \in 0 .. Terms - 1 : shellFIDT' = OwnFiles(t)
  <2>1. SUFFICES ASSUME at' = "prompt" PROVE \E t \in 0 .. Terms - 1 : shellFIDT' = OwnFiles(t)
    OBVIOUS
  <2>2. PICK t \in 1 .. Terms : shellFIDT' = booted[t] /\ Len(booted) = Terms
    BY <1>1, <2>1
  <2>3. booted \in Seq(Owned) /\ \A u \in DOMAIN booted : booted[u] = OwnFiles(u - 1)
    BY DEF ShellIInv, BootInv
  <2>4. t \in DOMAIN booted /\ Terms \in Nat
    BY <2>2, <2>3
  <2>5. shellFIDT' = OwnFiles(t - 1) /\ t - 1 \in 0 .. Terms - 1
    BY <2>2, <2>3, <2>4
  <2> QED BY <2>5
<1>3. BootInv'
  BY <1>1 DEF ShellIInv, BootInv
<1>4. FilesInv' /\ LineInv'
  BY <1>1, <1>2 DEF FilesInv, LineInv, Pipelining
<1>5. ChildInv'
  BY <1>1 DEF ShellIInv, ChildInv
<1> QED BY <1>1, <1>3, <1>4, <1>5 DEF ShellIInv

\* savefid of both.
LEMMA Saved ==
  ASSUME NEW t
  PROVE  /\ Sh!Lowest(OwnFiles(t)) = 2
         /\ Sh!Lowest(Sh!savefid(OwnFiles(t), 0)) = 3
         /\ Sh!savefid(Sh!savefid(OwnFiles(t), 0), 1)
              = Files(Term(t), Term(t), Term(t), Term(t), NoFile, NoFile)
<1> DEFINE T == Term(t)
           n == <<"null", 0>>
           one == Files(T, T, T, NoFile, NoFile, NoFile)
           two == Files(T, T, T, T, NoFile, NoFile)
<1>1. T # NoFile /\ n # NoFile
  BY Slots
<1> HIDE DEF T, n
<1>2. Sh!Lowest(OwnFiles(t)) = 2
  BY <1>1, FilesLowest DEF OwnFiles, T
<1>3. Sh!savefid(OwnFiles(t), 0) = one
  <2>1. PICK m : m = Files(T, T, n, NoFile, NoFile, NoFile)
    OBVIOUS
  <2>2. Sh!Open(OwnFiles(t), n) = m
    BY <1>2, <2>1, FilesChange DEF Sh!Open, OwnFiles, T
  <2>3. m[0] = T /\ [m EXCEPT ![2] = T] = one
    BY <2>1, FilesChange
  <2>4. Sh!Dup2(m, 0, 2) = one
    BY <1>1, <2>3, FileMoves
  <2> QED BY <1>2, <2>2, <2>4 DEF Sh!savefid, n
<1>4. Sh!Lowest(one) = 3
  BY <1>1, FilesLowest
<1>5. Sh!savefid(one, 1) = two
  <2>1. PICK m : m = Files(T, T, T, n, NoFile, NoFile)
    OBVIOUS
  <2>2. Sh!Open(one, n) = m
    BY <1>4, <2>1, FilesChange DEF Sh!Open
  <2>3. m[1] = T /\ [m EXCEPT ![3] = T] = two
    BY <2>1, FilesChange
  <2>4. Sh!Dup2(m, 1, 3) = two
    BY <1>1, <2>3, FileMoves
  <2> QED BY <1>4, <2>2, <2>4 DEF Sh!savefid, n
<1> QED BY <1>2, <1>3, <1>4, <1>5 DEF T

\* A line is read.
LEMMA ReadLineStep ==
  ASSUME ShellIInv, NEW l \in Sh!Lines, Sh!ReadLine(l)
  PROVE  ShellIInv'
<1>1. /\ at = "prompt" /\ UNCHANGED <<booted, rd, child, got, data>>
  BY DEF Sh!ReadLine
<1>2. CASE UNCHANGED <<at, line, frag, shellFIDT, save>>
  BY <1>1, <1>2 DEF ShellIInv, BootInv, FilesInv, LineInv, ChildInv, Pipelining
<1>3. CASE /\ l # <<>> /\ \A i \in DOMAIN l : l[i] # "none"
           /\ at' = "before" /\ line' = l /\ frag' = 1
           /\ shellFIDT' = Sh!savefid(Sh!savefid(shellFIDT, 0), 1)
           /\ save' = <<Sh!Lowest(shellFIDT), Sh!Lowest(Sh!savefid(shellFIDT, 0))>>
  <2>1. PICK t \in 0 .. Terms - 1 : shellFIDT = OwnFiles(t)
    BY <1>1 DEF ShellIInv, FilesInv
  <2>2. /\ shellFIDT' = Files(Term(t), Term(t), Term(t), Term(t), NoFile, NoFile)
        /\ save' = <<2, 3>>
    BY <1>3, <2>1, Saved
  <2>3. Len(l) \in Sh!Frags /\ 1 \in 1 .. Len(l)
    <3>1. PICK n \in Sh!Frags : l \in [1 .. n -> Sh!Kinds]
      <4>1. l # <<"none">>
        <5>1. Len(<<"none">>) = 1 /\ <<"none">>[1] = "none" /\ 1 \in DOMAIN <<"none">>
          OBVIOUS
        <5> QED BY <1>3, <5>1
      <4> QED BY <4>1 DEF Sh!Lines
    <3>2. n \in Nat \ {0}
      BY ShellConstants
    <3>3. Len(l) = n
      BY <3>1, <3>2
    <3> QED BY <3>2, <3>3
  <2>4. FilesInv'
    <3>1. Term(t) = InputOf(1, t) /\ Term(t) # NoFile
      BY Slots DEF InputOf
    <3> QED BY <1>3, <2>2, <3>1 DEF FilesInv, Pipelining
  <2>5. LineInv' /\ BootInv'
    BY <1>1, <1>3, <2>3 DEF LineInv, ShellIInv, BootInv
  <2>6. ChildInv'
    BY <1>1 DEF ShellIInv, ChildInv
  <2> QED BY <1>1, <2>4, <2>5, <2>6 DEF ShellIInv
<1> QED BY <1>2, <1>3 DEF Sh!ReadLine

\* What process_line does to the descriptors.
LEMMA LineFiles ==
  ASSUME NEW i, NEW t, NEW in, in # NoFile, NEW out, out # NoFile
  PROVE  /\ shellFIDT = Files(in, out, Term(t), Term(t), NoFile, NoFile) =>
              /\ Sh!Lowest(shellFIDT) = 4
              /\ Sh!ToPipe(i) = Files(in, <<"w", i>>, Term(t), Term(t), <<"r", i>>, NoFile)
              /\ Sh!Move(shellFIDT, 3, 1) = Files(in, Term(t), Term(t), NoFile, NoFile, NoFile)
         /\ shellFIDT = Files(in, out, Term(t), Term(t), <<"r", i>>, NoFile) =>
              Sh!Move(shellFIDT, 4, 0) = Files(<<"r", i>>, out, Term(t), Term(t), NoFile, NoFile)
         /\ shellFIDT = Files(in, out, Term(t), NoFile, NoFile, NoFile) =>
              Sh!Move(shellFIDT, 2, 0) = Files(Term(t), out, NoFile, NoFile, NoFile, NoFile)
<1> DEFINE T == Term(t)
           r == <<"r", i>>
           w == <<"w", i>>
<1>1. T # NoFile /\ r # NoFile /\ w # NoFile
  BY Slots
<1> HIDE DEF T, r, w
<1>2. ASSUME shellFIDT = Files(in, out, T, T, NoFile, NoFile)
      PROVE  /\ Sh!Lowest(shellFIDT) = 4
             /\ Sh!ToPipe(i) = Files(in, w, T, T, r, NoFile)
             /\ Sh!Move(shellFIDT, 3, 1) = Files(in, T, T, NoFile, NoFile, NoFile)
  <2>1. Sh!Lowest(shellFIDT) = 4
    BY <1>1, <1>2, FilesLowest
  <2>2. Sh!Open(shellFIDT, r) = Files(in, out, T, T, r, NoFile)
    BY <1>2, <2>1, FilesChange DEF Sh!Open
  <2>3. Sh!Lowest(Files(in, out, T, T, r, NoFile)) = 5
    BY <1>1, FilesLowest
  <2>4. PICK two : two = Files(in, out, T, T, r, w)
    OBVIOUS
  <2>5. Sh!Open(Sh!Open(shellFIDT, r), w) = two
    <3>1. PICK one : one = Files(in, out, T, T, r, NoFile)
      OBVIOUS
    <3>2. Sh!Lowest(one) = 5 /\ [one EXCEPT ![5] = w] = two
      BY <2>3, <2>4, <3>1, FilesChange
    <3>3. Sh!Open(one, w) = two
      BY <3>2 DEF Sh!Open
    <3> QED BY <2>2, <3>1, <3>3
  <2>6. two[5] = w /\ [two EXCEPT ![1] = w] = Files(in, w, T, T, r, w)
    BY <2>4, FilesChange
  <2>7. [Files(in, w, T, T, r, w) EXCEPT ![5] = NoFile] = Files(in, w, T, T, r, NoFile)
    BY FilesChange
  <2>8. Sh!Move(two, 5, 1) = Files(in, w, T, T, r, NoFile)
    BY <1>1, <2>6, <2>7, FileMoves
  <2>9. Sh!ToPipe(i) = Sh!Move(Sh!Open(Sh!Open(shellFIDT, r), w), Sh!Lowest(Sh!Open(shellFIDT, r)), 1)
    BY Zenon DEF Sh!ToPipe, r, w
  <2>10. /\ shellFIDT[3] = T
         /\ [shellFIDT EXCEPT ![1] = T] = Files(in, T, T, T, NoFile, NoFile)
    BY <1>2, FilesChange
  <2>11. [Files(in, T, T, T, NoFile, NoFile) EXCEPT ![3] = NoFile]
           = Files(in, T, T, NoFile, NoFile, NoFile)
    BY FilesChange
  <2>12. Sh!Move(shellFIDT, 3, 1) = Files(in, T, T, NoFile, NoFile, NoFile)
    BY <1>1, <2>10, <2>11, FileMoves
  <2> QED BY <2>1, <2>2, <2>3, <2>5, <2>8, <2>9, <2>12
<1>3. ASSUME shellFIDT = Files(in, out, T, T, r, NoFile)
      PROVE  Sh!Move(shellFIDT, 4, 0) = Files(r, out, T, T, NoFile, NoFile)
  <2>1. shellFIDT[4] = r /\ [shellFIDT EXCEPT ![0] = r] = Files(r, out, T, T, r, NoFile)
    BY <1>3, FilesChange
  <2>2. [Files(r, out, T, T, r, NoFile) EXCEPT ![4] = NoFile] = Files(r, out, T, T, NoFile, NoFile)
    BY FilesChange
  <2> QED BY <1>1, <2>1, <2>2, FileMoves
<1>4. ASSUME shellFIDT = Files(in, out, T, NoFile, NoFile, NoFile)
      PROVE  Sh!Move(shellFIDT, 2, 0) = Files(T, out, NoFile, NoFile, NoFile, NoFile)
  <2>1. /\ shellFIDT[2] = T
        /\ [shellFIDT EXCEPT ![0] = T] = Files(T, out, T, NoFile, NoFile, NoFile)
    BY <1>4, FilesChange
  <2>2. [Files(T, out, T, NoFile, NoFile, NoFile) EXCEPT ![2] = NoFile]
          = Files(T, out, NoFile, NoFile, NoFile, NoFile)
    BY FilesChange
  <2> QED BY <1>1, <2>1, <2>2, FileMoves
<1> QED BY <1>2, <1>3, <1>4 DEF T, r, w

LEMMA BeforeStep ==
  ASSUME ShellIInv, Sh!Before
  PROVE  ShellIInv'
<1>1. /\ at = "before" /\ at' = "execute"
      /\ UNCHANGED <<booted, line, frag, save, child, got>>
      /\ frag < Len(line) => /\ shellFIDT' = Sh!ToPipe(frag) /\ rd' = Sh!Lowest(shellFIDT)
                             /\ data' = [data EXCEPT ![frag] = 0]
      /\ ~ frag < Len(line) => shellFIDT' = Sh!Move(shellFIDT, save[2], 1) /\ UNCHANGED data
  BY DEF Sh!Before
<1>2. /\ frag \in 1 .. Len(line) /\ Len(line) \in Sh!Frags /\ Len(line) \in Nat /\ save = <<2, 3>>
  BY <1>1, ShellConstants DEF ShellIInv, LineInv, FilesInv, Pipelining
<1>3. PICK t \in 0 .. Terms - 1 : \E out : /\ out # NoFile
        /\ shellFIDT = Files(InputOf(frag, t), out, Term(t), Term(t), NoFile, NoFile)
  BY <1>1 DEF ShellIInv, FilesInv, Pipelining
<1>4. PICK out : /\ out # NoFile
                 /\ shellFIDT = Files(InputOf(frag, t), out, Term(t), Term(t), NoFile, NoFile)
  BY <1>3
<1>5. /\ Sh!Lowest(shellFIDT) = 4
      /\ Sh!ToPipe(frag) = Files(InputOf(frag, t), <<"w", frag>>, Term(t), Term(t), <<"r", frag>>, NoFile)
      /\ Sh!Move(shellFIDT, 3, 1) = Files(InputOf(frag, t), Term(t), Term(t), NoFile, NoFile, NoFile)
  BY <1>4, Slots, LineFiles
<1>6. FilesInv'
  <2>1. CASE frag < Len(line)
    BY <1>1, <1>2, <1>5, <2>1 DEF FilesInv, Pipelining
  <2>2. CASE ~ frag < Len(line)
    <3>1. frag = Len(line)
      BY <1>2, <2>2
    <3> QED BY <1>1, <1>2, <1>5, <2>2, <3>1 DEF FilesInv, Pipelining
  <2> QED BY <2>1, <2>2
<1>7. data' \in [Sh!Frags -> 0 .. PipeSize]
  BY <1>1, ShellConstants DEF ShellIInv
<1>8. BootInv' /\ LineInv' /\ ChildInv'
  BY <1>1, <1>2 DEF ShellIInv, BootInv, LineInv, ChildInv
<1> QED BY <1>6, <1>7, <1>8 DEF ShellIInv

LEMMA ExecuteStep ==
  ASSUME ShellIInv, Sh!Execute
  PROVE  ShellIInv'
<1>1. /\ at = "execute" /\ at' = "after"
      /\ UNCHANGED <<booted, shellFIDT, line, frag, save, rd, data>>
  BY DEF Sh!Execute
<1>2. /\ frag \in 1 .. Len(line) /\ Len(line) \in Sh!Frags /\ frag \in Sh!Frags
      /\ DOMAIN child = Sh!Frags /\ DOMAIN got = Sh!Frags
  <2>1. frag \in 1 .. Len(line) /\ Len(line) \in Sh!Frags
    BY <1>1 DEF ShellIInv, LineInv, Pipelining
  <2> QED BY <2>1, ShellConstants DEF ShellIInv, ChildInv, Sh!Frags
<1>3. FilesInv'
  BY <1>1 DEF ShellIInv, FilesInv, Pipelining
<1>4. BootInv' /\ LineInv'
  BY <1>1, <1>2 DEF ShellIInv, BootInv, LineInv
<1>5. ASSUME NEW i \in Sh!Frags, child[i] # Sh!NoChild
      PROVE  /\ i < frag /\ i # frag /\ IsProcess(child[i]) /\ got[i]
             /\ child[i].at # "exited" => WiredTo(i, child[i].FIDT, Len(line))
  <2>1. /\ i < frag /\ IsProcess(child[i]) /\ got[i]
        /\ child[i].at # "exited" => WiredTo(i, child[i].FIDT, Len(line))
    BY <1>1, <1>5 DEF ShellIInv, ChildInv
  <2>2. i \in Nat /\ frag \in Nat
    BY <1>2, ShellConstants
  <2>3. i # frag
    BY <2>1, <2>2
  <2> QED BY <2>1, <2>3
<1>6. CASE /\ child' = [child EXCEPT ![frag] =
                 [at |-> IF line[frag] = "source" THEN "write" ELSE "read",
                  FIDT |-> shellFIDT, left |-> Output]]
           /\ got' = [got EXCEPT ![frag] = TRUE]
  <2>1. WiredTo(frag, shellFIDT, Len(line))
    <3>1. PICK t \in 0 .. Terms - 1 :
            \/ /\ frag < Len(line)
               /\ shellFIDT = Files(InputOf(frag, t), <<"w", frag>>, Term(t), Term(t),
                                    <<"r", frag>>, NoFile)
            \/ /\ frag = Len(line)
               /\ shellFIDT = Files(InputOf(frag, t), Term(t), Term(t), NoFile, NoFile, NoFile)
      BY <1>1 DEF ShellIInv, FilesInv, Pipelining
    <3>2. /\ shellFIDT[0] = InputOf(frag, t) /\ InputOf(frag, 0) # NoFile
          /\ shellFIDT[1] = IF frag = Len(line) THEN Term(t) ELSE <<"w", frag>>
      BY <1>2, <3>1, FilesChange, Slots, ShellConstants
    <3>3. \A f \in Sh!Fids \ {1} : shellFIDT[f] \in {InputOf(frag, t), Term(t), <<"r", frag>>, NoFile}
      BY <3>1, ShellConstants DEF Files
    <3>4. \A x \in {InputOf(frag, t), Term(t), <<"r", frag>>, NoFile} : x[1] # "w"
      BY Slots DEF InputOf
    <3>5. Term(t)[1] = "term"
      BY Slots
    <3> QED BY <3>2, <3>3, <3>4, <3>5 DEF WiredTo, InputOf
  <2>2. PICK c : c = [at |-> IF line[frag] = "source" THEN "write" ELSE "read",
                      FIDT |-> shellFIDT, left |-> Output]
    OBVIOUS
  <2>3. IsProcess(c) /\ c.FIDT = shellFIDT
    BY <2>2 DEF IsProcess
  <2>4. /\ DOMAIN child' = Sh!Frags /\ DOMAIN got' = Sh!Frags
        /\ \A i \in Sh!Frags : /\ child'[i] = IF i = frag THEN c ELSE child[i]
                               /\ got'[i] = IF i = frag THEN TRUE ELSE got[i]
    BY <1>2, <1>6, <2>2
  <2>5. ChildInv'
    <3>1. SUFFICES ASSUME NEW i \in Sh!Frags, child'[i] # Sh!NoChild
                   PROVE  /\ IsProcess(child'[i]) /\ got'[i] /\ i <= frag
                          /\ child'[i].at # "exited" => WiredTo(i, child'[i].FIDT, Len(line))
      BY <1>1, <2>4 DEF ChildInv
    <3>2. CASE i = frag
      <4>1. frag <= frag
        BY <1>2, ShellConstants
      <4>2. child'[i] = c /\ got'[i]
        BY <2>4, <3>2
      <4> QED BY <2>1, <2>3, <3>2, <4>1, <4>2
    <3>3. CASE i # frag
      <4>1. child'[i] = child[i] /\ got'[i] = got[i] /\ child[i] # Sh!NoChild
        BY <2>4, <3>1, <3>3
      <4>2. i <= frag
        <5>1. i < frag /\ i \in Nat /\ frag \in Nat
          BY <1>2, <1>5, <4>1, ShellConstants
        <5> QED BY <5>1
      <4> QED BY <1>5, <4>1, <4>2
    <3> QED BY <3>2, <3>3
  <2> QED BY <1>1, <1>3, <1>4, <2>5 DEF ShellIInv
<1>7. CASE got' = [got EXCEPT ![frag] = FALSE] /\ UNCHANGED child
  <2>1. ChildInv'
    <3>1. DOMAIN child' = Sh!Frags /\ DOMAIN got' = Sh!Frags
      BY <1>2, <1>7
    <3>2. ASSUME NEW i \in Sh!Frags, child[i] # Sh!NoChild
          PROVE  /\ IsProcess(child[i]) /\ got'[i] /\ i <= frag
                 /\ child[i].at # "exited" => WiredTo(i, child[i].FIDT, Len(line))
      <4>1. i # frag /\ i < frag
        BY <1>5, <3>2
      <4>2. got'[i] = got[i]
        BY <1>2, <1>7, <4>1
      <4>3. i <= frag
        <5>1. i \in Nat /\ frag \in Nat
          BY <1>2, ShellConstants
        <5> QED BY <4>1, <5>1
      <4> QED BY <1>5, <3>2, <4>2, <4>3
    <3> QED BY <1>1, <1>7, <3>1, <3>2 DEF ChildInv
  <2> QED BY <1>1, <1>3, <1>4, <2>1 DEF ShellIInv
<1> QED BY <1>6, <1>7 DEF Sh!Execute

\* After: the next fragment reads the pipe, or the shell has its input again.
LEMMA AfterStep ==
  ASSUME ShellIInv, Sh!After
  PROVE  ShellIInv'
<1>1. /\ at = "after" /\ UNCHANGED <<booted, line, save, rd, child, got, data>>
      /\ frag < Len(line) => /\ shellFIDT' = Sh!Move(shellFIDT, rd, 0)
                             /\ at' = "before" /\ frag' = frag + 1
      /\ ~ frag < Len(line) => /\ shellFIDT' = Sh!RestoreIn(shellFIDT)
                               /\ at' = "wait" /\ frag' = 1
  BY DEF Sh!After
<1>2. /\ frag \in 1 .. Len(line) /\ Len(line) \in Sh!Frags /\ save = <<2, 3>>
      /\ Len(line) \in Nat /\ frag \in Nat \ {0} /\ Sh!Frags \subseteq Nat \ {0}
  <2>1. frag \in 1 .. Len(line) /\ Len(line) \in Sh!Frags /\ save = <<2, 3>>
    BY <1>1 DEF ShellIInv, LineInv, FilesInv, Pipelining
  <2> QED BY <2>1, ShellConstants
<1>3. PICK t \in 0 .. Terms - 1 :
        \/ /\ frag < Len(line) /\ rd = 4
           /\ shellFIDT = Files(InputOf(frag, t), <<"w", frag>>, Term(t), Term(t), <<"r", frag>>, NoFile)
        \/ /\ frag = Len(line)
           /\ shellFIDT = Files(InputOf(frag, t), Term(t), Term(t), NoFile, NoFile, NoFile)
  BY <1>1 DEF ShellIInv, FilesInv, Pipelining
<1>4. BootInv'
  BY <1>1 DEF ShellIInv, BootInv
<1>5. ASSUME NEW i \in Sh!Frags, child[i] # Sh!NoChild
      PROVE  /\ i <= frag /\ i \in Nat \ {0} /\ IsProcess(child[i]) /\ got[i]
             /\ child[i].at # "exited" => WiredTo(i, child[i].FIDT, Len(line))
  BY <1>1, <1>2, <1>5 DEF ShellIInv, ChildInv
<1>6. CASE frag < Len(line)
  <2>1. /\ rd = 4
        /\ shellFIDT = Files(InputOf(frag, t), <<"w", frag>>, Term(t), Term(t), <<"r", frag>>, NoFile)
    BY <1>2, <1>3, <1>6
  <2>2. shellFIDT' = Files(<<"r", frag>>, <<"w", frag>>, Term(t), Term(t), NoFile, NoFile)
    BY <1>1, <1>6, <2>1, LineFiles, Slots
  <2>3. frag + 1 # 1 /\ frag + 1 - 1 = frag /\ frag + 1 \in 1 .. Len(line)
    BY <1>2, <1>6
  <2>4. InputOf(frag + 1, t) = <<"r", frag>>
    <3>1. PICK n : n = frag + 1
      OBVIOUS
    <3>2. n # 1 /\ n - 1 = frag
      BY <1>2, <3>1
    <3>3. InputOf(n, t) = <<"r", frag>>
      BY <3>2, Zenon DEF InputOf
    <3> QED BY <3>1, <3>3
  <2>5. FilesInv'
    <3>1. /\ at' = "before" /\ save' = <<2, 3>> /\ frag' = frag + 1
          /\ <<"w", frag>> # NoFile
          /\ shellFIDT' = Files(InputOf(frag', t), <<"w", frag>>, Term(t), Term(t), NoFile, NoFile)
      BY <1>1, <1>2, <1>6, <2>2, <2>4, Slots
    <3> QED BY <3>1 DEF FilesInv, Pipelining
  <2>6. LineInv'
    BY <1>1, <1>2, <1>6, <2>3 DEF LineInv
  <2>7. ChildInv'
    <3>1. \A i \in Sh!Frags : child[i] # Sh!NoChild => i < frag + 1
      BY <1>2, <1>5
    <3>2. at' = "before" /\ frag' = frag + 1 /\ UNCHANGED <<child, got, line>>
      BY <1>1, <1>6
    <3> QED BY <1>5, <3>1, <3>2 DEF ShellIInv, ChildInv
  <2> QED BY <1>1, <1>4, <2>5, <2>6, <2>7 DEF ShellIInv
<1>7. CASE ~ frag < Len(line)
  <2>1. shellFIDT = Files(InputOf(frag, t), Term(t), Term(t), NoFile, NoFile, NoFile)
    BY <1>2, <1>3, <1>7
  <2>2. shellFIDT' = OwnFiles(t)
    <3>1. Sh!Move(shellFIDT, 2, 0) = OwnFiles(t)
      BY <2>1, LineFiles, Slots DEF OwnFiles
    <3> QED BY <1>1, <1>2, <1>7, <3>1 DEF Sh!RestoreIn
  <2>3. at' = "wait" /\ frag' = 1 /\ UNCHANGED <<child, got, line>>
    BY <1>1, <1>7
  <2>4. FilesInv'
    BY <2>2, <2>3 DEF FilesInv, Pipelining
  <2>5. LineInv'
    BY <1>2, <2>3 DEF LineInv
  <2>6. ChildInv'
    <3>1. \A i \in Sh!Frags : i <= frag => i \in 1 .. Len(line)
      BY <1>2, <1>7
    <3> QED BY <1>5, <2>3, <3>1 DEF ShellIInv, ChildInv
  <2> QED BY <1>1, <1>4, <2>4, <2>5, <2>6 DEF ShellIInv
<1> QED BY <1>6, <1>7

\* WaitChild collects the child of the fragment at hand: those of the fragments
\* before it are collected, and without one there is nothing left to wait for
\* or another one goes.
LEMMA WaitStep ==
  ASSUME ShellIInv, Sh!WaitChild
  PROVE  ShellIInv'
<1> DEFINE alive == {i \in Sh!Waited(frag) : child[i].at # "none"}
<1>1. /\ at = "wait" /\ UNCHANGED <<booted, shellFIDT, line, save, rd, got, data>>
      /\ \/ alive = {} /\ UNCHANGED child
         \/ \E i \in alive : child[i].at = "exited" /\ child' = [child EXCEPT ![i] = Sh!NoChild]
      /\ frag < Len(line) => frag' = frag + 1 /\ UNCHANGED at
      /\ ~ frag < Len(line) => at' = "prompt" /\ UNCHANGED frag
  BY DEF Sh!WaitChild
<1>2. /\ frag \in 1 .. Len(line) /\ Len(line) \in Sh!Frags
      /\ DOMAIN child = Sh!Frags /\ DOMAIN got = Sh!Frags
      /\ frag \in Sh!Frags /\ Sh!Frags \subseteq Nat \ {0}
  <2>1. /\ frag \in 1 .. Len(line) /\ Len(line) \in Sh!Frags
        /\ DOMAIN child = Sh!Frags /\ DOMAIN got = Sh!Frags
    BY <1>1 DEF ShellIInv, LineInv, ChildInv
  <2> QED BY <2>1, ShellConstants DEF Sh!Frags
<1>3. ASSUME NEW i \in Sh!Frags, child[i] # Sh!NoChild
      PROVE  /\ i \in frag .. Len(line) /\ IsProcess(child[i]) /\ got[i]
             /\ child[i].at # "exited" => WiredTo(i, child[i].FIDT, Len(line))
  BY <1>1, <1>3 DEF ShellIInv, ChildInv
<1>4. \A i \in Sh!Frags : child[i] # Sh!NoChild => child[i].at # "none"
  <2>1. SUFFICES ASSUME NEW i \in Sh!Frags, child[i] # Sh!NoChild PROVE child[i].at # "none"
    OBVIOUS
  <2>2. PICK s \in {"read", "write", "exit", "exited"} :
          \E ft, left : child[i] = [at |-> s, FIDT |-> ft, left |-> left]
    BY <1>3, <2>1 DEF IsProcess
  <2> QED BY <2>2
<1>5. /\ DOMAIN child' = Sh!Frags
      /\ \A i \in Sh!Frags : child'[i] # Sh!NoChild => child'[i] = child[i] /\ i # frag
  <2>1. CASE alive = {} /\ UNCHANGED child
    <3>1. frag \in Sh!Waited(frag)
      BY <1>2 DEF Sh!Waited
    <3>2. child[frag] = Sh!NoChild
      BY <1>2, <1>4, <2>1, <3>1
    <3> QED BY <1>2, <2>1, <3>2
  <2>2. CASE \E i \in alive : child[i].at = "exited" /\ child' = [child EXCEPT ![i] = Sh!NoChild]
    <3>1. PICK k \in alive : child[k].at = "exited" /\ child' = [child EXCEPT ![k] = Sh!NoChild]
      BY <2>2
    <3>2. k \in Sh!Frags /\ (got[frag] => k = frag)
      BY <1>2 DEF Sh!Waited
    <3>3. \A i \in Sh!Frags : child'[i] # Sh!NoChild => child'[i] = child[i] /\ i # k
      BY <1>2, <3>1, <3>2
    <3>4. child[frag] # Sh!NoChild => k = frag
      BY <1>2, <1>3, <3>2
    <3>5. DOMAIN child' = Sh!Frags
      BY <1>2, <3>1
    <3> QED BY <3>3, <3>4, <3>5
  <2> QED BY <1>1, <2>1, <2>2
<1>6. ASSUME NEW i \in Sh!Frags, child'[i] # Sh!NoChild
      PROVE  /\ i > frag /\ i <= Len(line) /\ IsProcess(child'[i]) /\ got'[i]
             /\ child'[i].at # "exited" => WiredTo(i, child'[i].FIDT, Len(line'))
  <2>1. child'[i] = child[i] /\ i # frag /\ child[i] # Sh!NoChild
    BY <1>5, <1>6
  <2>2. i >= frag /\ i <= Len(line) /\ i \in Nat /\ frag \in Nat
    BY <1>2, <1>3, <2>1
  <2>3. i > frag /\ i <= Len(line)
    BY <2>1, <2>2
  <2> QED BY <1>1, <1>3, <2>1, <2>3
<1>7. BootInv'
  BY <1>1 DEF ShellIInv, BootInv
<1>8. \E t \in 0 .. Terms - 1 : shellFIDT' = OwnFiles(t)
  BY <1>1 DEF ShellIInv, FilesInv
<1>9. CASE frag < Len(line)
  <2>1. at' = "wait" /\ frag' = frag + 1
    BY <1>1, <1>9
  <2>2. FilesInv'
    BY <1>8, <2>1 DEF FilesInv, Pipelining
  <2>3. LineInv'
    <3>1. Len(line) \in Nat /\ frag + 1 \in 1 .. Len(line)
      BY <1>2, <1>9
    <3> QED BY <1>1, <1>2, <2>1, <3>1 DEF LineInv
  <2>4. ChildInv'
    <3>1. \A i \in Sh!Frags : i > frag /\ i <= Len(line) => i \in frag + 1 .. Len(line)
      BY <1>2
    <3> QED BY <1>1, <1>2, <1>5, <1>6, <2>1, <3>1 DEF ChildInv
  <2> QED BY <1>1, <1>7, <2>2, <2>3, <2>4 DEF ShellIInv
<1>10. CASE ~ frag < Len(line)
  <2>1. at' = "prompt" /\ frag' = frag
    BY <1>1, <1>10
  <2>2. FilesInv' /\ LineInv'
    BY <1>8, <2>1 DEF FilesInv, LineInv, Pipelining
  <2>3. \A i \in Sh!Frags : child'[i] = Sh!NoChild
    <3>1. SUFFICES ASSUME NEW i \in Sh!Frags, child'[i] # Sh!NoChild PROVE FALSE
      OBVIOUS
    <3>2. i > frag /\ i <= Len(line) /\ frag \in Nat /\ i \in Nat /\ Len(line) \in Nat
      BY <1>2, <1>6, <3>1
    <3> QED BY <1>10, <3>2
  <2>4. ChildInv'
    BY <1>1, <1>2, <1>5, <2>3 DEF ChildInv
  <2> QED BY <1>1, <1>7, <2>2, <2>4 DEF ShellIInv
<1> QED BY <1>9, <1>10

\* A program goes on, or ends and gives up what it had open.
LEMMA ChildGoesOn ==
  ASSUME ShellIInv, NEW i \in Sh!Frags, child[i].at \in {"read", "write", "exit"},
         NEW s \in {"read", "write", "exit", "exited"}, NEW ft, NEW left,
         s # "exited" => ft = child[i].FIDT,
         child' = [child EXCEPT ![i] = [at |-> s, FIDT |-> ft, left |-> left]],
         UNCHANGED <<at, booted, shellFIDT, line, frag, save, rd, got>>,
         data' \in [Sh!Frags -> 0 .. PipeSize]
  PROVE  ShellIInv'
<1>1. BootInv' /\ FilesInv' /\ LineInv'
  BY DEF ShellIInv, BootInv, FilesInv, LineInv
<1>2. child[i] # Sh!NoChild /\ child[i].at # "exited"
  BY DEF Sh!NoChild
<1>3. PICK c : c = [at |-> s, FIDT |-> ft, left |-> left]
  OBVIOUS
<1>4. IsProcess(c) /\ c.at = s /\ c.FIDT = ft
  BY <1>3 DEF IsProcess
<1>5. /\ DOMAIN child' = Sh!Frags /\ DOMAIN got = Sh!Frags
      /\ \A k \in Sh!Frags : child'[k] = IF k = i THEN c ELSE child[k]
  BY <1>3 DEF ShellIInv, ChildInv
<1>6. ASSUME NEW k \in Sh!Frags, child[k] # Sh!NoChild
      PROVE  /\ IsProcess(child[k]) /\ got[k]
             /\ child[k].at # "exited" => WiredTo(k, child[k].FIDT, Len(line))
             /\ \/ at \in {"before", "execute"} /\ k < frag
                \/ at = "after" /\ k <= frag
                \/ at = "wait" /\ k \in frag .. Len(line)
  BY <1>6 DEF ShellIInv, ChildInv
<1>7. ASSUME NEW k \in Sh!Frags, child'[k] # Sh!NoChild
      PROVE  /\ IsProcess(child'[k]) /\ got[k]
             /\ child'[k].at # "exited" => WiredTo(k, child'[k].FIDT, Len(line))
             /\ \/ at \in {"before", "execute"} /\ k < frag
                \/ at = "after" /\ k <= frag
                \/ at = "wait" /\ k \in frag .. Len(line)
  <2>1. CASE k = i
    <3>1. child'[k] = c
      BY <1>5, <2>1
    <3>2. c.at # "exited" => WiredTo(k, c.FIDT, Len(line))
      BY <1>2, <1>4, <1>6, <2>1
    <3> QED BY <1>2, <1>4, <1>6, <2>1, <3>1, <3>2
  <2>2. CASE k # i
    BY <1>5, <1>6, <1>7, <2>2
  <2> QED BY <2>1, <2>2
<1>8. ChildInv'
  BY <1>5, <1>7 DEF ChildInv
<1> QED BY <1>1, <1>8 DEF ShellIInv

\* What an update of some fields of a process makes of it.
LEMMA ProcessFields ==
  ASSUME ShellIInv, NEW i \in Sh!Frags, child[i].at \in {"read", "write", "exit"},
         NEW s, NEW left
  PROVE  [child EXCEPT ![i].at = s, ![i].left = left]
           = [child EXCEPT ![i] = [at |-> s, FIDT |-> child[i].FIDT, left |-> left]]
<1>1. IsProcess(child[i]) /\ DOMAIN child = Sh!Frags
  <2>1. child[i] # Sh!NoChild
    BY DEF Sh!NoChild
  <2> QED BY <2>1 DEF ShellIInv, ChildInv
<1>2. PICK u, f, n : child[i] = [at |-> u, FIDT |-> f, left |-> n]
  BY <1>1 DEF IsProcess
<1>3. PICK p : p = [at |-> u, FIDT |-> f, left |-> n]
  OBVIOUS
<1>4. PICK q : q = [at |-> s, FIDT |-> f, left |-> n]
  OBVIOUS
<1>5. [p EXCEPT !.at = s] = q
  BY <1>3, <1>4
<1>6. [q EXCEPT !.left = left] = [at |-> s, FIDT |-> f, left |-> left]
  BY <1>4
<1>7. child[i] = p /\ child[i].FIDT = f
  BY <1>2, <1>3
<1>8. [[child[i] EXCEPT !.at = s] EXCEPT !.left = left]
        = [at |-> s, FIDT |-> child[i].FIDT, left |-> left]
  BY <1>5, <1>6, <1>7
<1> QED BY <1>1, <1>8

\* What stays when a program makes a step, and that a pipe holds no more than
\* its size.
LEMMA ProgramStep ==
  ASSUME ShellIInv, NEW i \in Sh!Frags, Sh!Program(i) \/ Sh!ProgramQuits(i)
  PROVE  ShellIInv'
<1> DEFINE Steps == {"read", "write", "exit"}
           D == [Sh!Frags -> 0 .. PipeSize]
<1>1. /\ UNCHANGED <<at, booted, shellFIDT, line, frag, save, rd, got>>
      /\ child[i].at \in Steps
  BY DEF Sh!Program, Sh!ProgramReads, Sh!ProgramWrites, Sh!ProgramExits, Sh!ProgramQuits
<1>2. data \in D /\ PipeSize \in Nat
  BY ShellConstants DEF ShellIInv
<1>3. ASSUME NEW s \in Steps, NEW left, Sh!Goto(i, s, left), data' \in D
      PROVE  ShellIInv'
  <2>1. child' = [child EXCEPT ![i] = [at |-> s, FIDT |-> child[i].FIDT, left |-> left]]
    <3>1. [child EXCEPT ![i].at = s, ![i].left = left]
            = [child EXCEPT ![i] = [at |-> s, FIDT |-> child[i].FIDT, left |-> left]]
      BY <1>1, ProcessFields
    <3> QED BY <1>3, <3>1 DEF Sh!Goto
  <2>2. s \in {"read", "write", "exit", "exited"} /\ s # "exited"
    OBVIOUS
  <2> QED BY <1>1, <1>3, <2>1, <2>2, ChildGoesOn
<1>4. CASE Sh!ProgramReads(i)
  <2> DEFINE x == child[i].FIDT[0]
  <2>1. data' \in D
    <3>1. UNCHANGED data \/ (data[x[2]] > 0 /\ data' = [data EXCEPT ![x[2]] = @ - 1])
      BY <1>4 DEF Sh!ProgramReads
    <3> HIDE DEF x
    <3>2. CASE UNCHANGED data
      BY <1>2, <3>2
    <3>3. CASE data[x[2]] > 0 /\ data' = [data EXCEPT ![x[2]] = @ - 1]
      <4>1. \A k \in Sh!Frags : data[k] \in 0 .. PipeSize /\ (data[k] > 0 => data[k] - 1 \in 0 .. PipeSize)
        BY <1>2
      <4> QED BY <1>2, <3>3, <4>1
    <3> QED BY <3>1, <3>2, <3>3
  <2>2. \E s \in Steps : \E left : Sh!Goto(i, s, left)
    BY <1>4 DEF Sh!ProgramReads
  <2> QED BY <1>3, <2>1, <2>2
<1>5. CASE Sh!ProgramWrites(i)
  <2> DEFINE x == child[i].FIDT[1]
  <2>1. data' \in D
    <3>1. UNCHANGED data \/ (data[x[2]] < PipeSize /\ data' = [data EXCEPT ![x[2]] = @ + 1])
      BY <1>5 DEF Sh!ProgramWrites
    <3> HIDE DEF x
    <3>2. CASE UNCHANGED data
      BY <1>2, <3>2
    <3>3. CASE data[x[2]] < PipeSize /\ data' = [data EXCEPT ![x[2]] = @ + 1]
      <4>1. \A k \in Sh!Frags : data[k] \in 0 .. PipeSize
                                /\ (data[k] < PipeSize => data[k] + 1 \in 0 .. PipeSize)
        BY <1>2
      <4> QED BY <1>2, <3>3, <4>1
    <3> QED BY <3>1, <3>2, <3>3
  <2>2. \E s \in Steps : \E left : Sh!Goto(i, s, left)
    <3>1. PICK s, left : Sh!Goto(i, s, left) /\ s = IF ~ (line[i] = "source") THEN "read"
                           ELSE IF child[i].left > 1 THEN "write" ELSE "exit"
      BY <1>5 DEF Sh!ProgramWrites
    <3> QED BY <3>1
  <2> QED BY <1>3, <2>1, <2>2
<1>6. CASE Sh!ProgramQuits(i)
  <2>1. Sh!Goto(i, "exit", 0) /\ data' \in D
    BY <1>2, <1>6 DEF Sh!ProgramQuits
  <2> QED BY <1>3, <2>1
<1>7. CASE Sh!ProgramExits(i)
  <2>1. child' = [child EXCEPT ![i].at = "exited", ![i].FIDT = Sh!NoFiles] /\ data' \in D
    BY <1>2, <1>7 DEF Sh!ProgramExits
  <2>2. child' = [child EXCEPT ![i] = [at |-> "exited", FIDT |-> Sh!NoFiles, left |-> child[i].left]]
    <3>1. IsProcess(child[i]) /\ DOMAIN child = Sh!Frags
      <4>1. child[i] # Sh!NoChild
        BY <1>1 DEF Sh!NoChild
      <4> QED BY <4>1 DEF ShellIInv, ChildInv
    <3>2. PICK u, f, n : child[i] = [at |-> u, FIDT |-> f, left |-> n]
      BY <3>1 DEF IsProcess
    <3>3. PICK p : p = [at |-> u, FIDT |-> f, left |-> n]
      OBVIOUS
    <3>4. PICK q : q = [at |-> "exited", FIDT |-> f, left |-> n]
      OBVIOUS
    <3>5. [p EXCEPT !.at = "exited"] = q
      BY <3>3, <3>4
    <3>6. [q EXCEPT !.FIDT = Sh!NoFiles] = [at |-> "exited", FIDT |-> Sh!NoFiles, left |-> n]
      BY <3>4
    <3>7. child[i] = p /\ child[i].left = n
      BY <3>2, <3>3
    <3>8. [[child[i] EXCEPT !.at = "exited"] EXCEPT !.FIDT = Sh!NoFiles]
            = [at |-> "exited", FIDT |-> Sh!NoFiles, left |-> child[i].left]
      BY <3>5, <3>6, <3>7
    <3> QED BY <2>1, <3>1, <3>8
  <2> QED BY <1>1, <2>1, <2>2, ChildGoesOn
<1> QED BY <1>4, <1>5, <1>6, <1>7 DEF Sh!Program

\* What ShellInv says of the descriptors.
LEMMA OwnFilesAreOwn ==
  ASSUME NEW t
  PROVE  Sh!Own(t, OwnFiles(t))
<1>1. PICK z : z = Files(NoFile, NoFile, NoFile, NoFile, NoFile, NoFile)
  OBVIOUS
<1>2. Sh!NoFiles = z
  BY <1>1 DEF Sh!NoFiles, Files, NoFile
<1>3. PICK one : one = Files(Term(t), NoFile, NoFile, NoFile, NoFile, NoFile)
  OBVIOUS
<1>4. [z EXCEPT ![0] = Term(t)] = one /\ [one EXCEPT ![1] = Term(t)] = OwnFiles(t)
  BY <1>1, <1>3, FilesChange DEF OwnFiles
<1>5. [[z EXCEPT ![0] = Term(t)] EXCEPT ![1] = Term(t)] = OwnFiles(t)
  BY <1>4
<1> QED BY <1>2, <1>5 DEF Sh!Own, Term

LEMMA ShellSafe ==
  ASSUME ShellIInv
  PROVE  ShellInv
<1>1. \A t \in DOMAIN booted : Sh!Own(t - 1, booted[t])
  BY OwnFilesAreOwn DEF ShellIInv, BootInv
<1>2. at \in {"prompt", "wait"} => \E t \in 0 .. Terms - 1 : Sh!Own(t, shellFIDT)
  BY OwnFilesAreOwn DEF ShellIInv, FilesInv
<1>3. at = "prompt" => \A i \in Sh!Frags : child[i] = Sh!NoChild
  BY DEF ShellIInv, ChildInv
<1>4. \A i \in Sh!Frags : data[i] \in 0 .. PipeSize
  BY DEF ShellIInv
<1>5. Sh!Wired
  <2>1. SUFFICES ASSUME NEW i \in Sh!Frags, Sh!Running(i)
                 PROVE  WiredTo(i, child[i].FIDT, Len(line))
    BY DEF Sh!Wired, WiredTo
  <2>2. child[i] # Sh!NoChild /\ child[i].at # "exited"
    BY <2>1 DEF Sh!Running, Sh!NoChild
  <2> QED BY <2>2 DEF ShellIInv, ChildInv
<1> QED BY <1>1, <1>2, <1>3, <1>4, <1>5 DEF ShellInv, Sh!ShellInv

LEMMA ShellStarts ==
  ASSUME Sh!Init
  PROVE  ShellIInv
<1>1. /\ at = "boot" /\ booted = <<>> /\ shellFIDT = Sh!NoFiles
      /\ child = [i \in Sh!Frags |-> Sh!NoChild] /\ got = [i \in Sh!Frags |-> FALSE]
      /\ data = [i \in Sh!Frags |-> 0]
  BY DEF Sh!Init
<1>2. shellFIDT = Files(NoFile, NoFile, NoFile, NoFile, NoFile, NoFile)
  BY <1>1 DEF Sh!NoFiles, Files, NoFile
<1>3. BootInv
  <2>1. booted \in Seq(Owned) /\ DOMAIN booted = {}
    BY <1>1
  <2> QED BY <1>1, <1>2, <2>1 DEF BootInv
<1>4. FilesInv /\ LineInv
  BY <1>1 DEF FilesInv, LineInv, Pipelining
<1>5. ChildInv
  BY <1>1 DEF ChildInv
<1>6. data \in [Sh!Frags -> 0 .. PipeSize]
  BY <1>1, ShellConstants
<1> QED BY <1>3, <1>4, <1>5, <1>6 DEF ShellIInv

\* A shell starts with its terminal and gets exactly its descriptors back, its
\* programs have the pipes of their neighbours and no other write end, and it
\* leaves no child: whatever the line and whatever failed.
THEOREM ShellTheorem == ProgramsSpec => []ShellInv
<1> DEFINE I == task = "shell" => ShellIInv
<1>1. boot => I
  BY ShellStarts DEF boot
<1>2. I /\ [ProgramsNext]_programVars => I'
  <2> SUFFICES ASSUME I, [ProgramsNext]_programVars PROVE I'
    OBVIOUS
  <2>1. CASE task = "shell" /\ Sh!Next /\ UNCHANGED task
    <3>1. ShellIInv'
      BY <2>1, BootShellStep, RunShellStep, ReadLineStep, BeforeStep, ExecuteStep, AfterStep,
         WaitStep, ProgramStep DEF Sh!Next, Sh!process_line
    <3> QED BY <3>1
  <2>2. CASE UNCHANGED <<task, shellVars>>
    BY <2>2 DEF shellVars, ShellIInv, BootInv, FilesInv, LineInv, ChildInv
  <2>3. CASE task # "shell" /\ UNCHANGED task
    BY <2>3
  <2> QED BY <2>1, <2>2, <2>3 DEF ProgramsNext, programVars
<1>3. I => ShellInv
  BY ShellSafe DEF ShellInv
<1> QED BY <1>1, <1>2, <1>3, PTL DEF ProgramsSpec

-----------------------------------------------------------------------------
(* Lists: the inductive invariant.                                         *)

\* The pointers make rings of what the lists should hold, and no other.
ListsIInv ==
  /\ ptr = [next |-> ptr.next, prev |-> ptr.prev]
  /\ Linked(ptr.next, ptr.prev, holds, Heads, Items)

\* The operations of util.h as the lemmas on rings have them.
LEMMA ListOperations ==
  /\ \A p, a, b : List!rl_splice(p, a, b) = Splice(p, a, b)
  /\ \A p, n : List!rlist_remove(p, n) = Unlinked(p, n)
  /\ \A p, d, n : List!rlist_push_back(p, d, n) = Pushed(p, d, n)
  /\ \A p, d, n : List!rlist_push_front(p, d, n) = Splice(p, d, n)
  /\ \A p, d : List!rlist_pop_front(p, d) = Splice(p, d, p.next[d])
<1>1. \A p, a, b : List!rl_splice(p, a, b) = Splice(p, a, b)
  BY DEF List!rl_splice, List!Swap, Splice, Swapped
<1> QED BY <1>1 DEF List!rlist_remove, List!rlist_push_back, List!rlist_push_front,
                    List!rlist_pop_front, Unlinked, Pushed

LEMMA ListSequences ==
  /\ \A s : List!ToSet(s) = ToSet(s)
  /\ \A s : List!Reverse(s) = Reverse(s)
  /\ \A s, S : List!Kept(s, S) = Kept(s, S)
  /\ \A s, u : List!Without(s, u) = Without(s, u)
<1>1. \A s : List!ToSet(s) = ToSet(s)
  BY DEF List!ToSet, ToSet
<1>2. \A s : List!Reverse(s) = Reverse(s)
  BY DEF List!Reverse, Reverse
<1>3. \A s, S : List!Kept(s, S) = Kept(s, S)
  BY Zenon DEF List!Kept, Kept
<1>4. \A s, u : List!Without(s, u) = Without(s, u)
  BY Zenon DEF List!Without, List!RemoveAt, Without, RemoveAt
<1> QED BY <1>1, <1>2, <1>3, <1>4

\* A walk meets the nodes of the ring.
LEMMA WalkRing ==
  ASSUME NEW f, NEW l \in List!Nodes, NEW w \in Seq(List!Nodes), Chain(f, l, w),
         IsInjective(w), l \notin ToSet(w)
  PROVE  List!Walk(f, l) = w
<1>1. PICK U, c : U = List!Nodes /\ c = Cardinality(U)
  OBVIOUS
<1>2. c \in Nat /\ Len(w) <= c /\ l \in U /\ w \in Seq(U)
  <2>1. IsFiniteSet(U)
    BY <1>1, ProgramsAssumption DEF List!Nodes
  <2>2. IsFiniteSet(ToSet(w)) /\ Cardinality(ToSet(w)) = Len(w) /\ ToSet(w) \subseteq U
    BY <1>1, CountElements, ElementsType
  <2>3. Cardinality(ToSet(w)) <= Cardinality(U)
    BY <2>1, <2>2, FS_Subset
  <2> QED BY <1>1, <2>1, <2>2, <2>3, FS_CardinalityType
<1>3. /\ \E g : IsWalk(g, f, l, c)
      /\ \A g : IsWalk(g, f, l, c) =>
           [i \in 1 .. Cardinality({n \in DOMAIN g : g[n] # l}) |-> g[i - 1]] = w
  BY ONLY <1>2, Chain(f, l, w), l \notin ToSet(w), WalkAlong
<1>0. \A S : List!Cardinality(S) = Cardinality(S)
  BY Zenon DEF List!Cardinality, Cardinality
<1> DEFINE along == CHOOSE g : g = [n \in 0 .. List!Cardinality(List!Nodes) |->
                   IF n = 0 THEN f[l] ELSE IF g[n - 1] = l THEN l ELSE f[g[n - 1]]]
<1>4. IsWalk(along, f, l, c)
  <2>0. c = List!Cardinality(List!Nodes)
    BY <1>0, <1>1, Zenon
  <2>1. \E g : g = [n \in 0 .. List!Cardinality(List!Nodes) |->
                   IF n = 0 THEN f[l] ELSE IF g[n - 1] = l THEN l ELSE f[g[n - 1]]]
    BY <2>0, <1>3, Zenon DEF IsWalk
  <2>2. along = [n \in 0 .. List!Cardinality(List!Nodes) |->
                   IF n = 0 THEN f[l] ELSE IF along[n - 1] = l THEN l ELSE f[along[n - 1]]]
    BY <2>1, Zenon
  <2> HIDE DEF along
  <2> QED BY <2>0, <2>2, Zenon DEF IsWalk
<1>5. List!Walk(f, l) =
        [i \in 1 .. List!Cardinality({n \in DOMAIN along : along[n] # l}) |-> along[i - 1]]
  BY Zenon DEF List!Walk
<1> HIDE DEF along
<1>6. List!Walk(f, l) =
        [i \in 1 .. Cardinality({n \in DOMAIN along : along[n] # l}) |-> along[i - 1]]
  BY <1>0, <1>5, Zenon
<1> QED BY <1>3, <1>4, <1>6, Zenon

\* In both directions a walk from a head meets what the list should hold.
LEMMA WalkHolds ==
  ASSUME ListsIInv, NEW l \in Heads
  PROVE  /\ List!Walk(ptr.next, l) = holds[l] /\ List!Walk(ptr.prev, l) = Reverse(holds[l])
         /\ holds[l] \in Seq(Items) /\ IsInjective(holds[l])
<1>1. PICK f, g, h, w : f = ptr.next /\ g = ptr.prev /\ h = holds /\ w = holds[l]
  OBVIOUS
<1>2. Linked(f, g, h, Heads, Items) /\ Heads \cap Items = {}
  BY <1>1, ProgramsAssumption DEF ListsIInv
<1>3. /\ l \in List!Nodes /\ w \in Seq(List!Nodes) /\ w \in Seq(Items) /\ l \notin ToSet(w)
  <2>1. /\ l \in Heads \cup Items /\ h[l] \in Seq(Items) /\ h[l] \in Seq(Heads \cup Items)
        /\ l \notin ToSet(h[l])
    BY ONLY <1>2, Rings, l \in Heads
  <2> QED BY <1>1, <2>1 DEF List!Nodes
<1>4. Chain(f, l, w) /\ IsInjective(w) /\ BothWays(f, g, List!Nodes)
  BY <1>1, <1>2 DEF Linked, List!Nodes
<1>5. Chain(g, l, Reverse(w))
  BY <1>3, <1>4, ReverseChain
<1>6. Reverse(w) \in Seq(List!Nodes) /\ IsInjective(Reverse(w)) /\ l \notin ToSet(Reverse(w))
  <2>1. /\ Reverse(w) \in Seq(List!Nodes) /\ ToSet(Reverse(w)) = ToSet(w)
        /\ IsInjective(Reverse(w))
    BY <1>3, <1>4, ReverseElements
  <2> QED BY <1>3, <2>1
<1>7. List!Walk(f, l) = w
  BY <1>3, <1>4, WalkRing
<1>8. List!Walk(g, l) = Reverse(w)
  BY <1>3, <1>5, <1>6, WalkRing
<1> QED BY <1>1, <1>3, <1>4, <1>7, <1>8

\* That is what was promised, and length and search agree with it.
LEMMA ListsSafe ==
  ASSUME ListsIInv
  PROVE  List!ListsInv
<1>1. ASSUME NEW l \in Heads
      PROVE  /\ List!Walk(ptr.next, l) = holds[l]
             /\ List!Walk(ptr.prev, l) = List!Reverse(holds[l])
             /\ List!rlist_len(ptr, l) = Len(holds[l])
             /\ \A n \in Items : List!rlist_find(ptr, l, n, l) =
                                   IF n \in List!ToSet(holds[l]) THEN n ELSE l
  <2>1. PICK w : w = holds[l] /\ w \in Seq(Items) /\ List!Walk(ptr.next, l) = w
    BY WalkHolds
  <2>2. ASSUME NEW n \in Items
        PROVE  List!rlist_find(ptr, l, n, l) = IF n \in ToSet(w) THEN n ELSE l
    <3>1. PICK k : k = Kept(w, {n})
      OBVIOUS
    <3>2. k \in Seq(Items) /\ ToSet(k) = ToSet(w) \cap {n}
      BY <2>1, <3>1, KeptElements
    <3>3. List!rlist_find(ptr, l, n, l) = IF k = <<>> THEN l ELSE Head(k)
      <4>1. List!Kept(List!Walk(ptr.next, l), {n}) = k
        BY <2>1, <3>1, ListSequences
      <4> QED BY <4>1 DEF List!rlist_find
    <3>4. k = <<>> <=> ToSet(k) = {}
      BY <3>2, NoElements
    <3>5. k # <<>> => Head(k) \in ToSet(k)
      BY <3>2 DEF ToSet
    <3> QED BY <3>2, <3>3, <3>4, <3>5
  <2>3. List!rlist_len(ptr, l) = Len(w)
    BY <2>1 DEF List!rlist_len
  <2> QED BY <2>1, <2>2, <2>3, WalkHolds, ListSequences
<1>2. ASSUME NEW n \in Items, List!Loose(n)
      PROVE  ptr.next[n] = n /\ ptr.prev[n] = n
  <2>1. \A l \in Heads : n \notin ToSet(holds[l])
    BY <1>2, ListSequences DEF List!Loose
  <2>2. ptr.next[n] = n /\ BothWays(ptr.next, ptr.prev, Heads \cup Items)
    BY <2>1 DEF ListsIInv, Linked
  <2> QED BY <2>2 DEF BothWays
<1> QED BY <1>1, <1>2 DEF List!ListsInv

LEMMA ListsStart ==
  ASSUME List!Init
  PROVE  ListsIInv
<1>1. PICK U, f : U = Heads \cup Items /\ f = [n \in U |-> n]
  OBVIOUS
<1>2. ptr = [next |-> f, prev |-> f] /\ holds = [l \in Heads |-> <<>>]
  BY <1>1 DEF List!Init, List!Nodes
<1>3. BothWays(f, f, U)
  BY <1>1 DEF BothWays
<1>4. ASSUME NEW l \in Heads
      PROVE  IsInjective(holds[l]) /\ Chain(f, l, holds[l]) /\ ToSet(holds[l]) = {}
  <2>1. PICK e : e = <<>> /\ e = holds[l]
    BY <1>2
  <2>2. IsInjective(e) /\ ToSet(e) = {} /\ Len(e) = 0
    BY <2>1, EmptyElements
  <2>3. Nth(l, e, 0) = l /\ Nth(l, e, 1) = l /\ f[l] = l
    BY <1>1, <2>2 DEF Nth
  <2>4. \A i \in 0 .. Len(e) : i = 0 /\ i + 1 = 1
    BY <2>2
  <2> QED BY <2>1, <2>2, <2>3, <2>4 DEF Chain
<1>5. Linked(f, f, holds, Heads, Items)
  <2>1. holds \in [Heads -> Seq(Items)]
    BY <1>2, EmptyElements
  <2>2. \A n \in Items : f[n] = n
    BY <1>1
  <2> QED BY <1>1, <1>3, <1>4, <2>1, <2>2 DEF Linked
<1> QED BY <1>2, <1>5 DEF ListsIInv

\* What an operation leaves is a record again.
LEMMA Spliced ==
  ASSUME NEW f, NEW g, NEW h, Linked(f, g, h, Heads, Items), ptr' = [next |-> f, prev |-> g],
         holds' = h
  PROVE  ListsIInv'
BY DEF ListsIInv

LEMMA InsertStep ==
  ASSUME ListsIInv, NEW l \in Heads, NEW n \in Items, List!Insert(l, n)
  PROVE  ListsIInv'
<1>1. PICK f, g, h, w : f = ptr.next /\ g = ptr.prev /\ h = holds /\ w = h[l]
  OBVIOUS
<1>2. /\ Linked(f, g, h, Heads, Items) /\ Heads \cap Items = {} /\ l \in Heads /\ n \in Items
      /\ \A d \in Heads : n \notin ToSet(h[d])
  BY <1>1, ProgramsAssumption, ListSequences DEF ListsIInv, List!Insert, List!Loose
<1>3. w \in Seq(Items) /\ h \in [Heads -> Seq(Items)]
  BY <1>1, <1>2 DEF Linked
<1>4. CASE ptr' = List!rlist_push_front(ptr, l, n) /\ holds' = [holds EXCEPT ![l] = <<n>> \o @]
  <2>1. PICK u, k : u = <<n>> \o w /\ k = 0
    OBVIOUS
  <2>2. Putting(f, g, h, Heads, Items, l, n, u, k, l)
    <3>1. Merges(u, w, <<>>, n, k) /\ u \in Seq(Items) /\ l = Nth(l, w, k)
      BY <1>3, <2>1, EndElements DEF Nth
    <3> QED BY <1>1, <1>2, <3>1 DEF Putting
  <2>3. Linked(Swapped(f, l, n), Swapped(g, f[l], f[n]), PutOne(h, l, u), Heads, Items)
    BY ONLY <2>2, InsertLinked
  <2>4. ptr' = [next |-> Swapped(f, l, n), prev |-> Swapped(g, f[l], f[n])]
    BY <1>1, <1>4, ListOperations DEF Splice
  <2>5. holds' = PutOne(h, l, u)
    BY <1>1, <1>4, <2>1 DEF PutOne
  <2> QED BY <2>3, <2>4, <2>5, Spliced
<1>5. CASE ptr' = List!rlist_push_back(ptr, l, n) /\ holds' = [holds EXCEPT ![l] = @ \o <<n>>]
  <2>1. PICK p, q : p = ptr /\ q = Pushed(p, l, n)
    OBVIOUS
  <2>2. Linked(p.next, p.prev, h, Heads, Items)
    BY <1>1, <1>2, <2>1
  <2>3. Linked(Pushed(p, l, n).next, Pushed(p, l, n).prev, [h EXCEPT ![l] = Append(@, n)],
               Heads, Items)
    BY ONLY <1>2, <2>2, PushLinked
  <2>4. ptr' = [next |-> q.next, prev |-> q.prev]
    BY <1>5, <2>1, ListOperations DEF Pushed, Splice
  <2>5. w \o <<n>> = Append(w, n)
    BY <1>2, <1>3, EndElements
  <2>6. holds' = [h EXCEPT ![l] = Append(@, n)]
    BY <1>1, <1>5, <2>5
  <2>7. Linked(q.next, q.prev, [h EXCEPT ![l] = Append(@, n)], Heads, Items)
    BY <2>1, <2>3
  <2> QED BY <2>4, <2>6, <2>7, Spliced
<1> QED BY <1>4, <1>5 DEF List!Insert

\* rlist_remove of the k-th node of l, whichever way it is spliced out.
LEMMA RemoveStep ==
  ASSUME ListsIInv, NEW l \in Heads, NEW v \in Seq(Items), NEW k, Drops(v, holds[l], k),
         NEW a, a = holds[l][k],
         \/ ptr' = Splice(ptr, a, ptr.prev[a])
         \/ ptr' = Splice(ptr, ptr.prev[a], a),
         holds' = [holds EXCEPT ![l] = v]
  PROVE  ListsIInv'
<1>1. PICK f, g, h, b : f = ptr.next /\ g = ptr.prev /\ h = holds /\ b = g[a]
  OBVIOUS
<1>2. Taking(f, g, h, Heads, Items, l, v, k, a)
  BY <1>1, ProgramsAssumption DEF ListsIInv, Taking
<1>3. /\ a \in Items /\ g[a] \in Heads \cup Items
      /\ Linked(Swapped(f, a, g[a]), Swapped(g, f[a], f[g[a]]), PutOne(h, l, v), Heads, Items)
  BY ONLY <1>2, RemoveLinked
<1>4. Swapped(f, a, b) = Swapped(f, b, a) /\ Swapped(g, f[a], f[b]) = Swapped(g, f[b], f[a])
  <2>1. f \in [Heads \cup Items -> Heads \cup Items] /\ g \in [Heads \cup Items -> Heads \cup Items]
    BY <1>2 DEF Taking, Linked, BothWays
  <2>2. a \in Heads \cup Items /\ b \in Heads \cup Items
    BY <1>1, <1>3
  <2>3. f[a] \in Heads \cup Items /\ f[b] \in Heads \cup Items
    BY <2>1, <2>2
  <2>4. \A e, x, y : /\ e \in [Heads \cup Items -> Heads \cup Items]
                     /\ x \in Heads \cup Items /\ y \in Heads \cup Items
                     => [e EXCEPT ![x] = e[y], ![y] = e[x]] = [e EXCEPT ![y] = e[x], ![x] = e[y]]
    OBVIOUS
  <2> QED BY <2>1, <2>2, <2>3, <2>4 DEF Swapped
<1>5. ptr' = [next |-> Swapped(f, a, b), prev |-> Swapped(g, f[a], f[b])]
  <2>1. CASE ptr' = Splice(ptr, a, ptr.prev[a])
    BY <1>1, <2>1 DEF Splice
  <2>2. CASE ptr' = Splice(ptr, ptr.prev[a], a)
    BY <1>1, <1>4, <2>2 DEF Splice
  <2> QED BY <2>1, <2>2
<1>6. Linked(Swapped(f, a, b), Swapped(g, f[a], f[b]), PutOne(h, l, v), Heads, Items)
  BY <1>1, <1>3
<1>7. holds' = PutOne(h, l, v)
  BY <1>1 DEF PutOne
<1> QED BY <1>5, <1>6, <1>7, Spliced

LEMMA PopFrontStep ==
  ASSUME ListsIInv, NEW l \in Heads, List!PopFront(l)
  PROVE  ListsIInv'
<1>1. PICK w, v : w = holds[l] /\ v = Tail(w)
  OBVIOUS
<1>2. /\ w \in Seq(Items) /\ w # <<>> /\ Chain(ptr.next, l, w)
      /\ BothWays(ptr.next, ptr.prev, Heads \cup Items) /\ l \in Heads \cup Items
  BY <1>1 DEF ListsIInv, Linked, List!PopFront
<1>3. v \in Seq(Items) /\ Drops(v, w, 1)
  <2>1. PICK n \in Nat : n = Len(w) /\ 1 \in 1 .. n
    BY <1>2
  <2>2. v \in Seq(Items) /\ Len(v) = n - 1 /\ \A j \in 1 .. n - 1 : v[j] = w[j + 1]
    BY <1>1, <1>2, <2>1
  <2>3. \A j \in 1 .. n - 1 : ~ (j < 1)
    OBVIOUS
  <2> QED BY <2>1, <2>2, <2>3 DEF Drops
<1>4. ptr.next[l] = w[1] /\ ptr.prev[w[1]] = l
  <2>1. 0 \in 0 .. Len(w) /\ 1 \in 1 .. Len(w) /\ 0 + 1 = 1
    BY <1>2
  <2>2. Nth(l, w, 0) = l /\ Nth(l, w, 1) = w[1]
    BY <2>1 DEF Nth
  <2>3. ptr.next[l] = w[1]
    BY <1>2, <2>1, <2>2 DEF Chain
  <2> QED BY <1>2, <2>3 DEF BothWays
<1>5. ptr' = Splice(ptr, ptr.prev[w[1]], w[1])
  BY <1>4, ListOperations DEF List!PopFront
<1>6. holds' = [holds EXCEPT ![l] = v]
  BY <1>1 DEF List!PopFront
<1> QED
  <2>1. PICK a : a = w[1]
    OBVIOUS
  <2>2. a = holds[l][1] /\ Drops(v, holds[l], 1) /\ ptr' = Splice(ptr, ptr.prev[a], a)
    BY <1>1, <1>3, <1>5, <2>1
  <2> QED BY <1>3, <1>6, <2>2, RemoveStep

\* Nothing changes when the node is in no list.
LEMMA TakeOutStep ==
  ASSUME ListsIInv, NEW n \in Items, List!TakeOut(n)
  PROVE  ListsIInv'
<1>1. /\ ptr' = Splice(ptr, n, ptr.prev[n])
      /\ holds' = [l \in Heads |-> IF n \in ToSet(holds[l]) THEN Without(holds[l], n) ELSE holds[l]]
  BY ListOperations, ListSequences DEF List!TakeOut, Unlinked
<1>2. /\ holds \in [Heads -> Seq(Items)] /\ \A l \in Heads : IsInjective(holds[l])
      /\ \A l, m \in Heads : l # m => ToSet(holds[l]) \cap ToSet(holds[m]) = {}
      /\ BothWays(ptr.next, ptr.prev, Heads \cup Items)
  BY DEF ListsIInv, Linked
<1>3. CASE \E l \in Heads : n \in ToSet(holds[l])
  <2>1. PICK l \in Heads : n \in ToSet(holds[l])
    BY <1>3
  <2>2. PICK w, v : w = holds[l] /\ v = Without(w, n)
    OBVIOUS
  <2>3. w \in Seq(Items) /\ IsInjective(w) /\ n \in ToSet(w)
    BY <1>2, <2>1, <2>2
  <2>4. v \in Seq(Items) /\ \E k : Drops(v, w, k) /\ n = w[k]
    <3>1. /\ v \in Seq(Items) /\ Len(v) = Len(w) - 1
          /\ \E i \in 1 .. Len(w) :
                \A j \in 1 .. Len(w) - 1 : v[j] = IF j < i THEN w[j] ELSE w[j + 1]
      BY <2>2, <2>3, WithoutElement
    <3>2. ToSet(v) = ToSet(w) \ {n}
      BY <2>2, <2>3, WithoutElement
    <3>3. PICK i \in 1 .. Len(w) : Drops(v, w, i)
      BY <3>1 DEF Drops
    <3>4. ToSet(v) = ToSet(w) \ {w[i]}
      BY <2>3, <3>1, <3>3, DropElement
    <3> QED BY <2>3, <3>1, <3>2, <3>3, <3>4
  <2>5. PICK k : Drops(v, w, k) /\ n = w[k]
    BY <2>4
  <2>6. \A m \in Heads : m # l => n \notin ToSet(holds[m])
    BY <1>2, <2>1
  <2>7. holds' = [holds EXCEPT ![l] = v]
    BY <1>1, <1>2, <2>1, <2>2, <2>6
  <2> QED BY <1>1, <2>2, <2>4, <2>5, <2>7, RemoveStep
<1>4. CASE \A l \in Heads : n \notin ToSet(holds[l])
  <2>1. ptr.next[n] = n /\ ptr.prev[n] = n
    <3>1. ptr.next[n] = n
      BY <1>4 DEF ListsIInv, Linked
    <3> QED BY <1>2, <3>1 DEF BothWays
  <2>2. Splice(ptr, n, n) = [next |-> ptr.next, prev |-> ptr.prev]
    <3>1. /\ ptr.next \in [Heads \cup Items -> Heads \cup Items]
          /\ ptr.prev \in [Heads \cup Items -> Heads \cup Items]
      BY <1>2 DEF BothWays
    <3>2. Swapped(ptr.next, n, n) = ptr.next /\ Swapped(ptr.prev, n, n) = ptr.prev
      BY <2>1, <3>1 DEF Swapped
    <3> QED BY <2>1, <3>2 DEF Splice
  <2>3. holds' = holds
    BY <1>1, <1>2, <1>4
  <2>4. /\ Linked(ptr.next, ptr.prev, holds, Heads, Items)
        /\ ptr' = [next |-> ptr.next, prev |-> ptr.prev]
    BY <1>1, <2>1, <2>2 DEF ListsIInv
  <2> QED BY <2>3, <2>4, Spliced
<1> QED BY <1>3, <1>4

LEMMA RenewStep ==
  ASSUME ListsIInv, NEW n \in Items, List!Renew(n)
  PROVE  ListsIInv'
<1>1. \A l \in Heads : n \notin ToSet(holds[l])
  BY ListSequences DEF List!Renew, List!Loose
<1>2. /\ BothWays(ptr.next, ptr.prev, Heads \cup Items) /\ ptr.next[n] = n
      /\ ptr = [next |-> ptr.next, prev |-> ptr.prev]
  BY <1>1 DEF ListsIInv, Linked
<1>3. ptr.prev[n] = n
  BY <1>2 DEF BothWays
<1>4. ptr' = ptr /\ holds' = holds
  <2>1. PICK f, g : f = ptr.next /\ g = ptr.prev
    OBVIOUS
  <2>2. [f EXCEPT ![n] = n] = f /\ [g EXCEPT ![n] = n] = g
    BY <1>2, <1>3, <2>1 DEF BothWays
  <2>3. ptr' = [next |-> [f EXCEPT ![n] = n], prev |-> [g EXCEPT ![n] = n]]
    <3>1. ptr = [next |-> f, prev |-> g]
      BY <1>2, <2>1
    <3> QED BY <3>1 DEF List!Renew, List!rlnode_new
  <2> QED BY <1>2, <2>1, <2>2, <2>3 DEF List!Renew
<1> QED BY <1>4 DEF ListsIInv

\* A list at the end of another, and one before it.
LEMMA ConcatJoins ==
  ASSUME NEW S, NEW w \in Seq(S), NEW v \in Seq(S)
  PROVE  /\ w \o v \in Seq(S) /\ Joins(w \o v, w, v, Len(w))
         /\ v \o w \in Seq(S) /\ Joins(v \o w, w, v, 0)
<1>1. PICK r, q : r = w \o v /\ q = v \o w
  OBVIOUS
<1>2. PICK n \in Nat, m \in Nat : n = Len(w) /\ m = Len(v)
  OBVIOUS
<1>3. /\ r \in Seq(S) /\ Len(r) = n + m
      /\ \A i \in 1 .. n + m : r[i] = IF i <= n THEN w[i] ELSE v[i - n]
  BY <1>1, <1>2, ConcatProperties
<1>4. /\ q \in Seq(S) /\ Len(q) = m + n
      /\ \A i \in 1 .. m + n : q[i] = IF i <= m THEN v[i] ELSE w[i - m]
  BY <1>1, <1>2, ConcatProperties
<1>5. Joins(r, w, v, n)
  <2>1. ASSUME NEW j \in 1 .. n + m
        PROVE  r[j] = IF j <= n THEN w[j] ELSE IF j <= n + m THEN v[j - n] ELSE w[j - m]
    <3>1. j <= n + m
      BY <1>2
    <3> QED BY <1>3, <3>1
  <2>2. n \in 0 .. n
    BY <1>2
  <2> QED BY <1>2, <1>3, <2>1, <2>2 DEF Joins
<1>6. Joins(q, w, v, 0)
  <2>1. ASSUME NEW j \in 1 .. n + m
        PROVE  q[j] = IF j <= 0 THEN w[j] ELSE IF j <= 0 + m THEN v[j - 0] ELSE w[j - m]
    <3>1. ~ (j <= 0) /\ j - 0 = j /\ 0 + m = m /\ j \in 1 .. m + n
      BY <1>2
    <3> QED BY <1>4, <3>1
  <2>2. 0 \in 0 .. n /\ m + n = n + m
    BY <1>2
  <2> QED BY <1>2, <1>4, <2>1, <2>2 DEF Joins
<1> QED BY <1>1, <1>2, <1>3, <1>4, <1>5, <1>6

\* The recursion of rlist_select has the pointers of SelectLinked.
LEMMA SelectWalk ==
  ASSUME NEW s, NEW d, NEW w, w = List!Walk(ptr.next, s), Len(w) \in Nat
  PROVE  \E q : IsSelect(q, ptr, w, d, Picked) /\ List!rlist_select(ptr, s, d) = q[Len(w)]
<1> DEFINE after == CHOOSE q : q = [i \in 0 .. Len(w) |->
                      IF i = 0 THEN ptr
                      ELSE IF w[i] \in Picked
                           THEN List!rlist_push_back(List!rlist_remove(q[i - 1], w[i]), d, w[i])
                           ELSE q[i - 1]]
<1>1. PICK q : SelectsTo(q, ptr, w, d, Picked, Len(w))
  BY SelectExists
<1>2. \A p, n : List!rlist_push_back(List!rlist_remove(p, n), d, n) = Pushed(Unlinked(p, n), d, n)
  BY ListOperations
<1>3. q = [i \in 0 .. Len(w) |->
             IF i = 0 THEN ptr
             ELSE IF w[i] \in Picked
                  THEN List!rlist_push_back(List!rlist_remove(q[i - 1], w[i]), d, w[i])
                  ELSE q[i - 1]]
  BY <1>1, <1>2 DEF SelectsTo
<1>4. after = [i \in 0 .. Len(w) |->
             IF i = 0 THEN ptr
             ELSE IF w[i] \in Picked
                  THEN List!rlist_push_back(List!rlist_remove(after[i - 1], w[i]), d, w[i])
                  ELSE after[i - 1]]
  BY <1>3, Zenon
<1>5. List!rlist_select(ptr, s, d) = after[Len(w)]
  BY Zenon DEF List!rlist_select
<1> HIDE DEF after
<1>6. IsSelect(after, ptr, w, d, Picked)
  BY <1>2, <1>4 DEF IsSelect
<1> QED BY <1>5, <1>6

LEMMA JoinStep ==
  ASSUME ListsIInv, NEW d \in Heads, NEW s \in Heads, List!Join(d, s)
  PROVE  ListsIInv'
<1>1. PICK p, h, w, v : p = ptr /\ h = holds /\ w = h[d] /\ v = h[s]
  OBVIOUS
<1>2. /\ Linked(p.next, p.prev, h, Heads, Items) /\ Heads \cap Items = {} /\ d # s
      /\ w \in Seq(Items) /\ v \in Seq(Items) /\ h \in [Heads -> Seq(Items)]
  BY <1>1, ProgramsAssumption DEF ListsIInv, List!Join, Linked
<1>3. CASE /\ ptr' = List!rlist_append(ptr, d, s)
           /\ holds' = [holds EXCEPT ![d] = @ \o holds[s], ![s] = <<>>]
  <2>1. PICK r, k, a : r = w \o v /\ k = Len(w) /\ a = p.prev[d]
    OBVIOUS
  <2>2. Closes(p.prev, h, d)
    BY <1>2, LastNode
  <2>3. Combining(p, h, Heads, Items, d, s, r, k, a)
    BY <1>1, <1>2, <2>1, <2>2, ConcatJoins DEF Combining, Closes
  <2>4. PICK q : q = Unlinked(Splice(p, a, s), s)
    OBVIOUS
  <2>5. Linked(Unlinked(Splice(p, a, s), s).next, Unlinked(Splice(p, a, s), s).prev,
               PutTwo(h, d, r, s, <<>>), Heads, Items)
    BY ONLY <2>3, JoinLinked
  <2>6. ptr' = [next |-> q.next, prev |-> q.prev]
    <3>1. ptr' = q
      BY <1>1, <1>3, <2>1, <2>4, ListOperations DEF List!rlist_append, Pushed
    <3> QED BY <2>4, <3>1 DEF Unlinked, Splice
  <2>7. holds' = PutTwo(h, d, r, s, <<>>)
    BY <1>1, <1>3, <2>1 DEF PutTwo
  <2> QED BY <2>4, <2>5, <2>6, <2>7, Spliced
<1>4. CASE /\ ptr' = List!rlist_prepend(ptr, d, s)
           /\ holds' = [holds EXCEPT ![d] = holds[s] \o @, ![s] = <<>>]
  <2>1. PICK r, k : r = v \o w /\ k = 0
    OBVIOUS
  <2>2. Nth(d, w, k) = d
    BY <2>1 DEF Nth
  <2>3. Combining(p, h, Heads, Items, d, s, r, k, d)
    BY <1>1, <1>2, <2>1, <2>2, ConcatJoins DEF Combining
  <2>4. PICK q : q = Unlinked(Splice(p, d, s), s)
    OBVIOUS
  <2>5. Linked(Unlinked(Splice(p, d, s), s).next, Unlinked(Splice(p, d, s), s).prev,
               PutTwo(h, d, r, s, <<>>), Heads, Items)
    BY ONLY <2>3, JoinLinked
  <2>6. ptr' = [next |-> q.next, prev |-> q.prev]
    <3>1. ptr' = q
      BY <1>1, <1>4, <2>4, ListOperations DEF List!rlist_prepend
    <3> QED BY <2>4, <3>1 DEF Unlinked, Splice
  <2>7. holds' = PutTwo(h, d, r, s, <<>>)
    BY <1>1, <1>4, <2>1 DEF PutTwo
  <2> QED BY <2>4, <2>5, <2>6, <2>7, Spliced
<1>5. CASE /\ ptr' = List!rlist_select(ptr, s, d)
           /\ holds' = [holds EXCEPT ![d] = @ \o List!Kept(holds[s], Picked),
                                     ![s] = List!Kept(@, Items \ Picked)]
  <2>1. List!Walk(ptr.next, s) = v
    BY <1>1, WalkHolds
  <2>2. PICK q, r : IsSelect(q, ptr, v, d, Picked) /\ r = q[Len(v)] /\ ptr' = r
    BY <1>2, <1>5, <2>1, SelectWalk
  <2>3. Selecting(p, h, Heads, Items, d, s, Picked, v, q, r)
    BY <1>1, <1>2, <2>2 DEF Selecting, ListsIInv, Pair
  <2>4. PICK x, y : x = h[d] \o Kept(v, Picked) /\ y = Kept(v, Items \ Picked)
    OBVIOUS
  <2>5. /\ Pair(r)
        /\ Linked(r.next, r.prev, PutTwo(h, d, h[d] \o Kept(v, Picked), s, Kept(v, Items \ Picked)),
                  Heads, Items)
    BY ONLY <2>3, SelectLinked
  <2>6. ptr' = [next |-> r.next, prev |-> r.prev]
    BY <2>2, <2>5 DEF Pair
  <2>7. holds' = PutTwo(h, d, x, s, y)
    BY <1>1, <1>2, <1>5, <2>4, ListSequences DEF PutTwo
  <2> QED BY <2>4, <2>5, <2>6, <2>7, Spliced
<1> QED BY <1>3, <1>4, <1>5 DEF List!Join

LEMMA TurnStep ==
  ASSUME ListsIInv, NEW l \in Heads, List!Turn(l)
  PROVE  ListsIInv'
<1>1. PICK f, g, h, R : /\ f = ptr.next /\ g = ptr.prev /\ h = holds
                        /\ R = {l} \cup ToSet(h[l])
  OBVIOUS
<1>2. Turning(f, g, h, Heads, Items, l, R)
  BY <1>1, ProgramsAssumption DEF ListsIInv, Turning
<1>3. Linked(Turned(f, g, R, Heads \cup Items), Turned(g, f, R, Heads \cup Items),
             PutOne(h, l, Reverse(h[l])), Heads, Items)
  BY ONLY <1>2, TurnLinked
<1>4. {l} \cup List!ToSet(List!Walk(ptr.next, l)) = R
  BY <1>1, WalkHolds, ListSequences
<1>5. List!rlist_reverse(ptr, l) =
        [next |-> Turned(f, g, R, Heads \cup Items), prev |-> Turned(g, f, R, Heads \cup Items)]
  BY <1>1, <1>4 DEF List!rlist_reverse, List!Nodes, Turned
<1>6. holds' = PutOne(h, l, Reverse(h[l]))
  BY <1>1, ListSequences DEF List!Turn, PutOne
<1>7. PICK F, G, k : /\ F = Turned(f, g, R, Heads \cup Items)
                     /\ G = Turned(g, f, R, Heads \cup Items) /\ k = PutOne(h, l, Reverse(h[l]))
  OBVIOUS
<1>8. ptr' = [next |-> F, prev |-> G] /\ holds' = k /\ Linked(F, G, k, Heads, Items)
  BY <1>3, <1>5, <1>6, <1>7 DEF List!Turn
<1> QED BY <1>8, Spliced

\* After any operations of the intrusive lists, over any finite set of nodes, each
\* list is what was promised, in both directions, and a node in no list stands alone.
THEOREM ListsTheorem == ProgramsSpec => []ListsInv
<1> DEFINE I == task = "lists" => ListsIInv
<1>1. boot => I
  BY ListsStart DEF boot
<1>2. I /\ [ProgramsNext]_programVars => I'
  <2> SUFFICES ASSUME I, [ProgramsNext]_programVars PROVE I'
    OBVIOUS
  <2>1. CASE task = "lists" /\ List!Next /\ UNCHANGED task
    <3>1. ListsIInv'
      BY <2>1, InsertStep, PopFrontStep, TakeOutStep, RenewStep, JoinStep, TurnStep DEF List!Next
    <3> QED BY <3>1
  <2>2. CASE UNCHANGED <<task, listVars>>
    BY <2>2 DEF listVars, ListsIInv
  <2>3. CASE task # "lists" /\ UNCHANGED task
    BY <2>3
  <2> QED BY <2>1, <2>2, <2>3 DEF ProgramsNext, programVars
<1>3. I => ListsInv
  BY ListsSafe DEF ListsInv
<1> QED BY <1>1, <1>2, <1>3, PTL DEF ProgramsSpec

=============================================================================
