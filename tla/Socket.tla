------------------------------- MODULE Socket -------------------------------
(***************************************************************************)
(* Local sockets (kernel_socket.c): the port map, listeners with their     *)
(* queues of requests, Accept, Connect with its timeout, the two pipes of  *)
(* a connection, ShutDown and Close.                                       *)
(*                                                                         *)
(* The callers are threads of one process.  A step is what a call does     *)
(* between two points where it gives up the kernel lock.  Of a pipe (Pipe  *)
(* has the rest) the number of bytes in it is kept, and whether its ends   *)
(* are closed; reader_close frees it.  An SCB is never reused.  corrupt is *)
(* set by a step that follows a null pointer or one to freed memory; an    *)
(* access to freed memory that may go well is also allowed to.  All the    *)
(* streams are sockets: Connect would use any other one as if it were one. *)
(***************************************************************************)
EXTENDS Integers, Sequences, SequencesExt, FiniteSets

CONSTANTS Threads,
          M,           \* bound: SCBs that are ever made
          Fids,        \* descriptors of the process: 0 .. Fids - 1
          Ports,       \* the ports used; 0 is NOPORT
          BUFF_SIZE,   \* capacity of a pipe
          MaxReqs      \* bound: requests in a listener's queue

ASSUME SocketAssumption ==
  /\ {M, Fids, BUFF_SIZE, MaxReqs} \subseteq Nat \ {0}
  /\ Ports \subseteq Nat \ {0}
  /\ IsFiniteSet(Threads) /\ 0 \notin Threads

NULL == 0
Scbs == 1 .. M
Fid == 0 .. Fids - 1
Pipes == 2 .. 2 * M + 1

VARIABLES
  FIDT,      \* descriptor -> SCB
  scb,       \* the SCBs made so far
  freed,     \* those that have been freed
  PortMap,   \* port -> SCB
  queue,     \* req_queue of each listener: requests [sock, thr]
  pipe,      \* the pipes: bytes in it, which ends are closed
  pc, on,    \* where each thread is, and the SCB or pipe it sleeps at
  using,     \* the SCB whose stream a Read or Write holds a reference to
  wake,      \* "no" while it sleeps, else what woke it
  accepted,  \* the flag in the request of a thread in Connect
  corrupt

vars == <<FIDT, scb, freed, PortMap, queue, pipe, pc, on, using, wake, accepted, corrupt>>
threadVars == <<pc, on, using, wake, accepted>>

\* memset in sys_Socket; a socket without a port keeps fid 0 as well.
NewScb(port, f) ==
  [type |-> "UNBOUND", port |-> port, refcount |-> 0,
   fid |-> IF port = NULL THEN 0 ELSE f, peer |-> NULL, send |-> NULL, receive |-> NULL]

get_pipe == [data |-> 0, writer_closed |-> FALSE, freed |-> FALSE]

Init ==
  /\ FIDT = [f \in Fid |-> NULL]
  /\ scb = <<>>
  /\ freed = {}
  /\ PortMap = [p \in Ports |-> NULL]
  /\ queue = [s \in Scbs |-> <<>>]
  /\ pipe = [p \in Pipes |-> get_pipe]
  /\ pc = [t \in Threads |-> "run"]
  /\ on = [t \in Threads |-> NULL]
  /\ using = [t \in Threads |-> NULL]
  /\ wake = [t \in Threads |-> "no"]
  /\ accepted = [t \in Threads |-> FALSE]
  /\ corrupt = FALSE

Running(t) == ~ corrupt /\ pc[t] = "run"
Woken(t, label) == ~ corrupt /\ pc[t] = label /\ wake[t] # "no"

Corrupt ==
  corrupt' = TRUE /\ UNCHANGED <<FIDT, scb, freed, PortMap, queue, pipe, threadVars>>

\* Memory that may have been freed is written to.
Writes(dangling) == corrupt' \in {FALSE, dangling}

\* get_fcb, and the SCB behind it.
Sock(f) == FIDT[f]
Open(f) == FIDT[f] # NULL

\* kernel_wait, and Cond_Broadcast to those who sleep at o in the calls named.
Sleep(t, label, o) ==
  /\ pc' = [pc EXCEPT ![t] = label]
  /\ on' = [on EXCEPT ![t] = o]

Broadcast(labels, o) ==
  [t \in Threads |-> IF wake[t] = "no" /\ pc[t] \in labels /\ on[t] = o
                     THEN "signal" ELSE wake[t]]

\* The call of t returns.
Return(t) ==
  /\ pc' = [pc EXCEPT ![t] = "run"]
  /\ on' = [on EXCEPT ![t] = NULL]
  /\ using' = [using EXCEPT ![t] = NULL]

-----------------------------------------------------------------------------
(* Socket and Listen.                                                      *)

FreeFids == {f \in Fid : FIDT[f] = NULL}
Reservable == FreeFids # {} /\ Len(scb) < M
Lowest == CHOOSE f \in FreeFids : \A g \in FreeFids : f <= g

sys_Socket(t, port) ==
  /\ Running(t) /\ Reservable
  /\ FIDT' = [FIDT EXCEPT ![Lowest] = Len(scb) + 1]
  /\ scb' = Append(scb, NewScb(port, Lowest))
  /\ UNCHANGED <<freed, PortMap, queue, pipe, threadVars, corrupt>>

MutantMayListen(s) ==                                  \* mutant: port may be taken
  scb[s].port # NULL /\ scb[s].refcount = 0

MayListen(s) ==
  scb[s].port # NULL /\ PortMap[scb[s].port] = NULL /\ scb[s].refcount = 0

sys_Listen(t, f) ==
  /\ Running(t) /\ Open(f)
  /\ LET s == Sock(f)
     IN  /\ MayListen(s)
         /\ scb' = [scb EXCEPT ![s].refcount = 1, ![s].type = "LISTENER"]
         /\ queue' = [queue EXCEPT ![s] = <<>>]
         /\ PortMap' = [PortMap EXCEPT ![scb[s].port] = s]
  /\ UNCHANGED <<FIDT, freed, pipe, threadVars, corrupt>>

-----------------------------------------------------------------------------
(* Accept and Connect.                                                     *)

\* The connection of client c with a new server socket n: both become peers, and
\* create_pipe makes the pipe into n and the pipe out of it.
In(n) == 2 * n
Out(n) == 2 * n + 1

Connected(s, c, n, port, f) ==
  [k \in 1 .. n |->
     IF k = n THEN [NewScb(port, f) EXCEPT !.refcount = 1, !.type = "PEER",
                      !.peer = c, !.receive = In(n), !.send = Out(n)]
     ELSE IF k = c THEN [s[c] EXCEPT !.refcount = 1, !.type = "PEER",
                      !.peer = n, !.send = In(n), !.receive = Out(n)]
     ELSE s[k]]

\* Accept from the removal of the request on.  When sys_Socket fails, with no
\* descriptor or no SCB left, the client is woken without being accepted.
Establish(t, l) ==
  LET req == Head(queue[l])
      n == Len(scb) + 1
  IN  IF queue[l] = <<>> \/ req.sock \in freed THEN Corrupt
      ELSE /\ queue' = [queue EXCEPT ![l] = Tail(@)]
           /\ IF Reservable
              THEN /\ FIDT' = [FIDT EXCEPT ![Lowest] = n]
                   /\ scb' = Connected(scb, req.sock, n, scb[l].port, Lowest)
              ELSE /\ scb' = [scb EXCEPT ![req.sock].refcount = 1]
                   /\ UNCHANGED FIDT
           /\ accepted' = IF req.thr = NULL THEN accepted
                          ELSE [accepted EXCEPT ![req.thr] = Reservable]
           /\ wake' = [u \in Threads |->
                IF u = t THEN "no"
                ELSE IF u = req.thr /\ wake[u] = "no" THEN "signal" ELSE wake[u]]
           /\ Return(t)
           /\ UNCHANGED <<freed, PortMap, pipe, corrupt>>

IsListener(s) == scb[s].type = "LISTENER" /\ PortMap[scb[s].port] # NULL

sys_Accept(t, f) ==
  /\ Running(t) /\ Open(f) /\ IsListener(Sock(f))
  /\ IF queue[Sock(f)] = <<>>
     THEN /\ Sleep(t, "accept", Sock(f))
          /\ UNCHANGED <<FIDT, scb, freed, PortMap, queue, pipe, using, wake, accepted, corrupt>>
     ELSE Establish(t, Sock(f))

\* Awake again, Accept does not look at the queue; the refcount of a listener
\* that was closed meanwhile is in freed memory, and where the queue of one that
\* was connected meanwhile had been there are its peer and its pipes.
AcceptFails(t) ==
  /\ Woken(t, "accept") /\ on[t] \in freed
  /\ Return(t)
  /\ wake' = [wake EXCEPT ![t] = "no"]
  /\ UNCHANGED <<FIDT, scb, freed, PortMap, queue, pipe, accepted, corrupt>>

AcceptResume(t) ==
  /\ Woken(t, "accept")
  /\ IF on[t] \in freed \/ scb[on[t]].type # "LISTENER" THEN Corrupt
     ELSE Establish(t, on[t])

\* Cond_Signal(reqs_cv) wakes one of those who sleep in Accept.
Acceptors(l) == {u \in Threads : pc[u] = "accept" /\ on[u] = l /\ wake[u] = "no"}

MutantSignalOne(l) == wake                             \* mutant: no Cond_Signal

SignalOne(l) ==
  IF Acceptors(l) = {} THEN wake
  ELSE [wake EXCEPT ![CHOOSE u \in Acceptors(l) : TRUE] = "signal"]

sys_Connect(t, f, port) ==
  /\ Running(t) /\ Open(f)
  /\ PortMap[port] # NULL
  /\ scb[PortMap[port]].type = "LISTENER" /\ scb[Sock(f)].type = "UNBOUND"
  /\ LET l == PortMap[port]
     IN  /\ Len(queue[l]) < MaxReqs
         /\ queue' = [queue EXCEPT ![l] = Append(@, [sock |-> Sock(f), thr |-> t])]
         /\ wake' = SignalOne(l)
  /\ Sleep(t, "connect", Sock(f))
  /\ accepted' = [accepted EXCEPT ![t] = FALSE]
  /\ UNCHANGED <<FIDT, scb, freed, PortMap, pipe, using, corrupt>>

\* The timer of kernel_timedwait wakes the client, which is then no longer in
\* the ring of conn_cv but does not yet have the kernel lock.
Timeout(t) ==
  /\ ~ corrupt /\ pc[t] = "connect" /\ wake[t] = "no"
  /\ wake' = [wake EXCEPT ![t] = "timeout"]
  /\ UNCHANGED <<FIDT, scb, freed, PortMap, queue, pipe, pc, on, using, accepted, corrupt>>

\* Connect returns, with 0 or -1; its request stays in the queue if it was there.
Forget(q, t) == [i \in DOMAIN q |-> [q[i] EXCEPT !.thr = IF @ = t THEN NULL ELSE @]]

ConnectReturn(t) ==
  /\ Woken(t, "connect")
  /\ Return(t)
  /\ wake' = [wake EXCEPT ![t] = "no"]
  /\ queue' = [l \in Scbs |-> Forget(queue[l], t)]
  /\ accepted' = [accepted EXCEPT ![t] = FALSE]
  /\ UNCHANGED <<FIDT, scb, freed, PortMap, pipe, corrupt>>

-----------------------------------------------------------------------------
(* Read and Write, which hold a reference to the stream while they sleep.  *)

IsPeer(s) == scb[s].type = "PEER"

\* pipe_read of one byte or the end of the stream; pipe_write of one byte.
Readable(p) == pipe[p].data > 0 \/ pipe[p].writer_closed
Writable(p) == pipe[p].data < BUFF_SIZE

Taken(p) == [pipe EXCEPT ![p].data = IF @ > 0 THEN @ - 1 ELSE @]
Put(p) == [pipe EXCEPT ![p].data = @ + 1]

\* A read broadcasts hasSpace (at the end of the stream there is nobody there), a
\* write hasData.
MovedWakes(t, p, other) == [Broadcast({other}, p) EXCEPT ![t] = "no"]

socket_read(t, f) ==
  /\ Running(t) /\ Open(f) /\ IsPeer(Sock(f)) /\ scb[Sock(f)].receive # NULL
  /\ LET p == scb[Sock(f)].receive
     IN  IF Readable(p)
         THEN /\ pipe' = Taken(p) /\ wake' = MovedWakes(t, p, "write")
              /\ UNCHANGED <<pc, on, using>>
         ELSE /\ Sleep(t, "read", p)
              /\ using' = [using EXCEPT ![t] = Sock(f)]
              /\ UNCHANGED <<pipe, wake>>
  /\ UNCHANGED <<FIDT, scb, freed, PortMap, queue, accepted, corrupt>>

\* Nobody has NULL for the pipe that pipe_write finds its reader has closed:
\* ShutDown takes it from the other side at once.
socket_write(t, f) ==
  /\ Running(t) /\ Open(f) /\ IsPeer(Sock(f)) /\ scb[Sock(f)].send # NULL
  /\ LET p == scb[Sock(f)].send
     IN  IF Writable(p)
         THEN /\ pipe' = Put(p) /\ wake' = MovedWakes(t, p, "read")
              /\ UNCHANGED <<pc, on, using>>
         ELSE /\ Sleep(t, "write", p)
              /\ using' = [using EXCEPT ![t] = Sock(f)]
              /\ UNCHANGED <<pipe, wake>>
  /\ UNCHANGED <<FIDT, scb, freed, PortMap, queue, accepted, corrupt>>

-----------------------------------------------------------------------------
(* ShutDown and Close.                                                     *)

\* What ShutDown(s, how) makes of the SCBs, of the pipes and of the sleepers.
MutantShutRead(s, k) == [k EXCEPT ![s].receive = NULL]  \* mutant: peer keeps send

ShutRead(s, k) == [k EXCEPT ![s].receive = NULL, ![k[s].peer].send = NULL]

Shut(s, how) ==
  LET k == IF "read" \in how /\ scb[s].receive # NULL THEN ShutRead(s, scb) ELSE scb
  IN  IF "write" \in how THEN [k EXCEPT ![s].send = NULL] ELSE k

\* The peer whose send it clears may be free.
ShutDangles(s, how) == "read" \in how /\ scb[s].receive # NULL /\ scb[s].peer \in freed

\* reader_close frees the pipe and wakes readers and writers, writer_close
\* wakes readers.
ShutPipes(s, how, ps) ==
  [p \in Pipes |->
     IF p = scb[s].receive /\ "read" \in how
     THEN [ps[p] EXCEPT !.writer_closed = TRUE, !.freed = TRUE]
     ELSE IF p = scb[s].send /\ "write" \in how
     THEN [ps[p] EXCEPT !.writer_closed = TRUE] ELSE ps[p]]

ShutWakes(s, how, w) ==
  [u \in Threads |->
     IF /\ w[u] = "no" /\ on[u] # NULL
        /\ \/ pc[u] \in {"read", "write"} /\ on[u] = scb[s].receive /\ "read" \in how
           \/ pc[u] = "read" /\ on[u] = scb[s].send /\ "write" \in how
     THEN "signal" ELSE w[u]]

sys_ShutDown(t, f, how) ==
  /\ Running(t) /\ Open(f) /\ IsPeer(Sock(f))
  /\ scb' = Shut(Sock(f), how)
  /\ pipe' = ShutPipes(Sock(f), how, pipe)
  /\ wake' = ShutWakes(Sock(f), how, wake)
  /\ Writes(ShutDangles(Sock(f), how))
  /\ UNCHANGED <<FIDT, freed, PortMap, queue, pc, on, using, accepted>>

\* socket_close of a listener: the port is free again and those in Accept are
\* woken.
Cleared(s) ==
  [p \in Ports |-> IF PortMap[p] = s THEN NULL ELSE PortMap[p]]

CloseListener(s) ==
  /\ wake' = Broadcast({"accept"}, s)
  /\ PortMap' = Cleared(s)
  /\ UNCHANGED <<scb, pipe, corrupt>>

\* socket_close of a peer: ShutDown of the socket that is open at its fid, if
\* there is one (its own descriptor is empty by now: its pipes stay open), and
\* the next Read of the other side finds the end of the stream.  t, which is
\* awake, closes it; ps and w are the pipes and the sleepers so far.
ClosePeer(t, s, table, ps, w) ==
  LET v == table[scb[s].fid]
      both == {"read", "write"}
      hit == v # NULL /\ IsPeer(v)
      k == IF hit THEN Shut(v, both) ELSE scb
  IN  /\ scb' = [k EXCEPT ![scb[s].peer].receive = NULL]
      /\ pipe' = IF hit THEN ShutPipes(v, both, ps) ELSE ps
      /\ wake' = [IF hit THEN ShutWakes(v, both, w) ELSE w EXCEPT ![t] = "no"]
      /\ Writes(scb[s].peer \in freed \/ (hit /\ ShutDangles(v, both)))
      /\ UNCHANGED PortMap

socket_close(t, s, table) ==
  CASE scb[s].type = "LISTENER" -> CloseListener(s)
    [] scb[s].type = "PEER" -> ClosePeer(t, s, table, pipe, wake)
    [] OTHER -> UNCHANGED <<scb, pipe, wake, PortMap, corrupt>>

\* FCB_decref: the references are descriptors and calls under way.
Referenced(s, table, u) ==
  (\E f \in Fid : table[f] = s) \/ (\E t \in Threads : u[t] = s)

sys_Close(t, f) ==
  /\ Running(t) /\ Open(f)
  /\ LET table == [FIDT EXCEPT ![f] = NULL]
     IN  /\ FIDT' = table
         /\ IF Referenced(Sock(f), table, using)
            THEN UNCHANGED <<scb, freed, PortMap, pipe, wake, corrupt>>
            ELSE socket_close(t, Sock(f), table) /\ freed' = freed \cup {Sock(f)}
  /\ UNCHANGED <<queue, pc, on, using, accepted>>

\* A Read or Write that was asleep goes on: it sleeps again, or it returns and
\* gives back its reference, which may be the last.
TransferResume(t, label) ==
  /\ Woken(t, label)
  /\ LET p == on[t]
         s == using[t]
         ps == IF label = "read" THEN Taken(p) ELSE Put(p)
         w == MovedWakes(t, p, IF label = "read" THEN "write" ELSE "read")
         go == IF label = "read" THEN Readable(p) ELSE Writable(p)
         last == ~ Referenced(s, FIDT, [using EXCEPT ![t] = NULL])
     IN  CASE pipe[p].freed -> Corrupt
           [] ~ pipe[p].freed /\ go ->
                /\ IF last THEN ClosePeer(t, s, FIDT, ps, w) /\ freed' = freed \cup {s}
                   ELSE pipe' = ps /\ wake' = w /\ UNCHANGED <<scb, freed, PortMap, corrupt>>
                /\ Return(t)
                /\ UNCHANGED <<FIDT, queue, accepted>>
           [] OTHER ->
                /\ wake' = [wake EXCEPT ![t] = "no"]
                /\ UNCHANGED <<FIDT, scb, freed, PortMap, queue, pipe, pc, on,
                               using, accepted, corrupt>>

-----------------------------------------------------------------------------
Call(t) ==
  \/ \E port \in Ports \cup {NULL} : sys_Socket(t, port)
  \/ \E f \in Fid :
       \/ sys_Listen(t, f) \/ sys_Accept(t, f) \/ sys_Close(t, f)
       \/ \E port \in Ports : sys_Connect(t, f, port)
       \/ socket_read(t, f) \/ socket_write(t, f)
       \/ \E how \in {{"read"}, {"write"}, {"read", "write"}} : sys_ShutDown(t, f, how)

Resume(t) ==
  \/ AcceptFails(t) \/ AcceptResume(t) \/ ConnectReturn(t)
  \/ TransferResume(t, "read") \/ TransferResume(t, "write")

Next == \E t \in Threads : Call(t) \/ Resume(t) \/ Timeout(t)

Spec == Init /\ [][Next]_vars

\* Some woken thread goes on (KernelLock), and timers fire.
FairSpec ==
  /\ Spec
  /\ WF_vars(\E t \in Threads : Resume(t))
  /\ \A t \in Threads : WF_vars(Timeout(t))

-----------------------------------------------------------------------------
(* Properties.                                                             *)

\* Every field keeps its type.
TypeOK ==
  /\ FIDT \in [Fid -> Scbs \cup {NULL}]
  /\ scb \in Seq([type : {"UNBOUND", "LISTENER", "PEER"}, port : Ports \cup {NULL},
                  refcount : {0, 1}, fid : Fid, peer : Scbs \cup {NULL},
                  send : Pipes \cup {NULL}, receive : Pipes \cup {NULL}])
  /\ freed \subseteq Scbs
  /\ PortMap \in [Ports -> Scbs \cup {NULL}]
  /\ queue \in [Scbs -> Seq([sock : Scbs, thr : Threads \cup {NULL}])]
  /\ pipe \in [Pipes -> [data : 0 .. BUFF_SIZE, writer_closed : BOOLEAN, freed : BOOLEAN]]
  /\ pc \in [Threads -> {"run", "accept", "connect", "read", "write"}]
  /\ on \in [Threads -> Nat] /\ using \in [Threads -> Scbs \cup {NULL}]
  /\ wake \in [Threads -> {"no", "signal", "timeout"}]
  /\ accepted \in [Threads -> BOOLEAN] /\ corrupt \in BOOLEAN

\* A socket that listens and is open is the one its port leads to, so no two
\* listen on one port; and a port leads to such a socket, unless Accept has made
\* a peer of it: of one that listens although a request of its own is still in
\* a queue.  While a thread sleeps in Accept at a listener, that one is open and
\* has no more requests in its queue than acceptors woken for them.
Listening(s) == scb[s].type = "LISTENER" /\ s \notin freed

ListenInv ==
  /\ TypeOK
  /\ \A s \in 1 .. Len(scb) : Listening(s) => PortMap[scb[s].port] = s
  /\ \A p \in Ports : PortMap[p] # NULL =>
       /\ scb[PortMap[p]].port = p
       /\ Listening(PortMap[p]) \/ scb[PortMap[p]].type = "PEER"
  /\ \A t \in Threads : pc[t] = "accept" /\ wake[t] = "no" /\ scb[on[t]].type # "PEER" =>
       /\ Listening(on[t])
       /\ Len(queue[on[t]]) <=
            Cardinality({u \in Threads : pc[u] = "accept" /\ on[u] = on[t] /\ wake[u] # "no"})

\* The ends of a connection are crossed: what one sends the other receives,
\* until one side has given it up; nobody is left with an end of a pipe that
\* reader_close has freed, and only the peer of a socket writes to the pipe it
\* receives from.  And nobody sleeps in Read or Write who could go on: whose pipe
\* has bytes, or space, or has been closed (which Close does not do).
PipesInv ==
  /\ \A t \in Threads : wake[t] = "no" =>
       /\ pc[t] = "read" => ~ Readable(on[t])
       /\ pc[t] = "write" => ~ Writable(on[t]) /\ ~ pipe[on[t]].freed
  /\ \A s \in 1 .. Len(scb) : scb[s].type = "PEER" =>
       LET q == scb[s].peer
       IN  /\ scb[s].send # NULL => ~ pipe[scb[s].send].freed
           /\ scb[s].receive # NULL => ~ pipe[scb[s].receive].freed
           /\ scb[q].peer = s =>
                /\ scb[s].send # NULL => scb[q].receive \in {scb[s].send, NULL}
                /\ scb[s].send # scb[s].receive \/ scb[s].send = NULL
           /\ \A r \in 1 .. Len(scb) \ {s} :
                scb[r].receive = scb[s].receive => scb[s].receive = NULL

\* "If peer, close both sides": nobody sleeps in Read for bytes from a socket that
\* has been closed and freed.
CloseSeen ==
  \A t \in Threads : pc[t] = "read" /\ wake[t] = "no" =>
    \A s \in freed : scb[s].type = "PEER" => scb[s].send # on[t]

\* When the programs stop making calls, every Connect returns, accepted or
\* not, and no acceptor is left beside a request.
CallsEnd == <>[][~ \E t \in Threads : Call(t)]_vars

CallsReturn ==
  CallsEnd => <>[](corrupt \/ \A t \in Threads :
    pc[t] # "connect" /\ (pc[t] = "accept" => queue[on[t]] = <<>>))
=============================================================================
