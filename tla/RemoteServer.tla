---------------------------- MODULE RemoteServer ----------------------------
(***************************************************************************)
(* The remote server of tinyos_shell.c (rserver) and its clients (rcli): a *)
(* listener thread accepts connections and starts a detached thread for    *)
(* each, which receives a command, runs it in a process and waits for it;  *)
(* the console stops the server.                                           *)
(*                                                                         *)
(* The connections are 1 .. K.  System calls are atomic (Socket models     *)
(* theirs), and so is what is done under the mutex of the globals, except  *)
(* that the listener counts a connection without it: its increment is a    *)
(* load and a store, and so is the decrement, which other threads see.     *)
(***************************************************************************)
EXTENDS Naturals, FiniteSets

CONSTANTS K,         \* bound: connections
          SizeMax,   \* bound: size_t is modulo SizeMax
          MaxLog     \* bound: records in the log when an Accept fails

Conn == 1 .. K

VARIABLES
  con,       \* where the console is
  lis,       \* where the listener is
  lsock,     \* the listening socket: "none", "open", "closed"
  known,     \* listener_socket has been set
  quit, active_conn, total_conn, conn_id_counter,
  log,       \* records in the log
  cur,       \* the connection the listener has accepted
  loaded,    \* the active_conn the listener has loaded
  thr,       \* thr[k]: where the thread of connection k is
  value,     \* value[k]: the active_conn it has loaded
  ID,        \* ID[k]: its client id
  cli,       \* cli[k]: where the client is
  command,   \* command[k]: the process of its command: "none", "run", "ended"
             \* (a zombie), "collected"
  heir,      \* the processes that inherited the listening socket
  open,      \* the connections that are open in the server
  raced      \* an update of active_conn has been lost

vars == <<con, lis, lsock, known, quit, active_conn, total_conn, conn_id_counter,
          log, cur, loaded, thr, value, ID, cli, command, heir, open, raced>>
counters == <<active_conn, total_conn, raced>>
threads == <<thr, value, ID, conn_id_counter, log, command, heir>>

Init ==
  /\ con = "loop" /\ lis = "start" /\ lsock = "none" /\ known = FALSE /\ quit = FALSE
  /\ active_conn = 0 /\ total_conn = 0 /\ conn_id_counter = 0 /\ log = 0
  /\ cur = 0 /\ loaded = 0
  /\ thr = [k \in Conn |-> "none"] /\ value = [k \in Conn |-> 0]
  /\ ID = [k \in Conn |-> 0]
  /\ cli = [k \in Conn |-> "idle"] /\ command = [k \in Conn |-> "none"]
  /\ heir = {} /\ open = {} /\ raced = FALSE

-----------------------------------------------------------------------------
(* rsrv_listener_thread.                                                   *)

Listen ==
  /\ lis = "start"
  /\ \/ lis' = "listening" /\ lsock' = "open"
     \/ lis' = "ended" /\ UNCHANGED lsock                \* the port is taken
  /\ UNCHANGED <<con, known, quit, counters, cur, loaded, threads, cli, open>>

\* listener_socket is set.
Publish ==
  /\ lis = "listening"
  /\ lis' = "call" /\ known' = TRUE
  /\ UNCHANGED <<con, lsock, quit, counters, cur, loaded, threads, cli, open>>

\* Nobody has the listening socket any more: a sleeping Accept returns.
SocketGone == lsock = "closed" /\ \A k \in heir : command[k] # "run"

EnterAccept ==
  /\ lis = "call" /\ lsock = "open"
  /\ lis' = "accept"
  /\ UNCHANGED <<con, lsock, known, quit, counters, cur, loaded, threads, cli, open>>

Accept(k) ==
  /\ lis = "accept" /\ cli[k] = "connecting" /\ ~ SocketGone
  /\ cli' = [cli EXCEPT ![k] = "connected"]
  /\ open' = open \cup {k}
  /\ lis' = "count" /\ cur' = k
  /\ UNCHANGED <<con, lsock, known, quit, counters, loaded, threads>>

\* Accept is called with a closed descriptor, or fails with the socket: quit is
\* set.
AcceptFails ==
  /\ (lis = "call" /\ lsock = "closed") \/ (lis = "accept" /\ SocketGone)
  /\ lis' = "ended"
  /\ UNCHANGED <<con, lsock, known, quit, counters, cur, loaded, threads, cli, open>>

\* Accept fails for want of a descriptor.
AcceptExhausted ==
  /\ lis = "accept" /\ log < MaxLog
  /\ \E k \in Conn : cli[k] = "connecting"
  /\ IF quit THEN lis' = "ended" /\ UNCHANGED log
     ELSE lis' = "call" /\ log' = log + 1
  /\ UNCHANGED <<con, lsock, known, quit, counters, cur, loaded, thr, value, ID,
                 conn_id_counter, command, heir, cli, open>>

CountLoad ==
  /\ lis = "count"
  /\ loaded' = active_conn
  /\ lis' = "store"
  /\ UNCHANGED <<con, lsock, known, quit, counters, cur, threads, cli, open>>

CountStore ==
  /\ lis = "store"
  /\ active_conn' = (loaded + 1) % SizeMax
  /\ total_conn' = total_conn + 1
  /\ raced' = (raced \/ loaded # active_conn)
  /\ lis' = "spawn"
  /\ UNCHANGED <<con, lsock, known, quit, cur, loaded, threads, cli, open>>

\* CreateThread and ThreadDetach.
Spawn ==
  /\ lis = "spawn"
  /\ thr' = [thr EXCEPT ![cur] = "id"]
  /\ lis' = "call"
  /\ UNCHANGED <<con, lsock, known, quit, counters, cur, loaded, value, ID,
                 conn_id_counter, log, command, heir, cli, open>>

-----------------------------------------------------------------------------
(* rsrv_client.                                                            *)

\* The mutex is with a thread that is decrementing.
MxFree == \A k \in Conn : thr[k] # "dec"

TakeID(k) ==
  /\ thr[k] = "id" /\ MxFree
  /\ conn_id_counter' = conn_id_counter + 1
  /\ ID' = [ID EXCEPT ![k] = conn_id_counter + 1]
  /\ log' = log + 1
  /\ thr' = [thr EXCEPT ![k] = "recv"]
  /\ UNCHANGED <<con, lis, lsock, known, quit, counters, cur, loaded, value, command, heir,
                 cli, open>>

\* recv_message: Read sleeps while the pipe of the connection is empty.
ReceiveSleeps(k) ==
  /\ thr[k] = "recv" /\ cli[k] = "connected"
  /\ thr' = [thr EXCEPT ![k] = "read"]
  /\ UNCHANGED <<con, lis, lsock, known, quit, counters, cur, loaded, value, ID,
                 conn_id_counter, log, command, heir, cli, open>>

Receive(k) ==
  /\ thr[k] \in {"recv", "read"} /\ cli[k] = "sent"
  /\ thr' = [thr EXCEPT ![k] = "exec"]
  /\ UNCHANGED <<con, lis, lsock, known, quit, counters, cur, loaded, value, ID,
                 conn_id_counter, log, command, heir, cli, open>>

\* The client has gone: its socket_close has taken the pipe away from this end
\* but has not closed it, so a Read that begins now returns 0, and one that
\* sleeps is not woken.  The server's socket stays open.
ReceiveEnds(k) ==
  /\ thr[k] = "recv" /\ cli[k] = "gone" /\ MxFree
  /\ thr' = [thr EXCEPT ![k] = "finish"]
  /\ log' = log + 1
  /\ UNCHANGED <<con, lis, lsock, known, quit, counters, cur, loaded, value, ID,
                 conn_id_counter, command, heir, cli, open>>

\* Execute of rsrv_process, which gets a copy of every descriptor; or there is
\* no PCB for it, which is not noticed.  The server closes its end.
ExecuteCommand(k) ==
  /\ thr[k] = "exec"
  /\ open' = open \ {k}
  /\ \/ /\ command' = [command EXCEPT ![k] = "run"]
        /\ heir' = IF lsock = "open" THEN heir \cup {k} ELSE heir
        /\ thr' = [thr EXCEPT ![k] = "wait"]
     \/ thr' = [thr EXCEPT ![k] = "any"] /\ UNCHANGED <<command, heir>>
  /\ UNCHANGED <<con, lis, lsock, known, quit, counters, cur, loaded, value, ID,
                 conn_id_counter, log, cli>>

\* The process ends.
KidEnds(k) ==
  /\ command[k] = "run"
  /\ command' = [command EXCEPT ![k] = "ended"]
  /\ UNCHANGED <<con, lis, lsock, known, quit, counters, cur, loaded, thr, value, ID,
                 conn_id_counter, log, heir, cli, open>>

\* WaitChild of the process, which another thread may have collected.
WaitKid(k) ==
  /\ thr[k] = "wait" /\ command[k] \in {"ended", "collected"} /\ MxFree
  /\ command' = [command EXCEPT ![k] = "collected"]
  /\ log' = log + 1
  /\ thr' = [thr EXCEPT ![k] = "finish"]
  /\ UNCHANGED <<con, lis, lsock, known, quit, counters, cur, loaded, value, ID,
                 conn_id_counter, heir, cli, open>>

\* The children of the server's process.
Kids == {k \in Conn : command[k] \in {"run", "ended"}}

\* WaitChild(NOPROC), after an Execute that failed: for any child, if there is
\* one at the call; whether there still is one is not asked again.
WaitAny(k) ==
  \/ /\ thr[k] = "any" /\ Kids # {} /\ \A j \in Kids : command[j] = "run"
     /\ thr' = [thr EXCEPT ![k] = "asleep"]
     /\ UNCHANGED <<con, lis, lsock, known, quit, counters, cur, loaded, value, ID,
                    conn_id_counter, log, command, heir, cli, open>>
  \/ /\ thr[k] \in {"any", "asleep"} /\ MxFree
     /\ \/ \E j \in Kids : /\ command[j] = "ended"
                           /\ command' = [command EXCEPT ![j] = "collected"]
        \/ thr[k] = "any" /\ Kids = {} /\ UNCHANGED command
     /\ log' = log + 1
     /\ thr' = [thr EXCEPT ![k] = "finish"]
     /\ UNCHANGED <<con, lis, lsock, known, quit, counters, cur, loaded, value, ID,
                    conn_id_counter, heir, cli, open>>

\* active_conn--, with the mutex.
FinishLoad(k) ==
  /\ thr[k] = "finish" /\ MxFree
  /\ value' = [value EXCEPT ![k] = active_conn]
  /\ thr' = [thr EXCEPT ![k] = "dec"]
  /\ UNCHANGED <<con, lis, lsock, known, quit, counters, cur, loaded, ID,
                 conn_id_counter, log, command, heir, cli, open>>

MutantFinishStore(k) ==                           \* mutant: no Cond_Broadcast
  /\ thr[k] = "dec"
  /\ active_conn' = (value[k] + SizeMax - 1) % SizeMax
  /\ raced' = (raced \/ value[k] # active_conn)
  /\ thr' = [thr EXCEPT ![k] = "ended"]
  /\ UNCHANGED <<con, lis, lsock, known, quit, total_conn, cur, loaded, value, ID,
                 conn_id_counter, log, command, heir, cli, open>>

\* The broadcast wakes the console.
FinishStore(k) ==
  /\ thr[k] = "dec"
  /\ active_conn' = (value[k] + SizeMax - 1) % SizeMax
  /\ raced' = (raced \/ value[k] # active_conn)
  /\ thr' = [thr EXCEPT ![k] = "ended"]
  /\ con' = IF con = "asleep" THEN "drain" ELSE con
  /\ UNCHANGED <<lis, lsock, known, quit, total_conn, cur, loaded, value, ID,
                 conn_id_counter, log, command, heir, cli, open>>

-----------------------------------------------------------------------------
(* RemoteServer: the console.                                              *)

\* q: the listening socket is closed, if it is known yet.
Quit ==
  /\ con = "loop"
  /\ quit' = TRUE
  /\ lsock' = IF known THEN "closed" ELSE lsock
  /\ con' = "join"
  /\ UNCHANGED <<lis, known, counters, cur, loaded, threads, cli, open>>

Join ==
  /\ con = "join" /\ lis = "ended"
  /\ con' = "drain"
  /\ UNCHANGED <<lis, lsock, known, quit, counters, cur, loaded, threads, cli, open>>

MutantDrain ==                                    \* mutant: active_conn not waited for
  /\ con = "drain" /\ MxFree
  /\ con' = "left"
  /\ UNCHANGED <<lis, lsock, known, quit, counters, cur, loaded, threads, cli, open>>

\* The console waits for the connections, then truncates the log and returns.
Drain ==
  /\ con = "drain" /\ MxFree
  /\ IF active_conn > 0 THEN con' = "asleep" /\ UNCHANGED log
     ELSE con' = "left" /\ log' = 0
  /\ UNCHANGED <<lis, lsock, known, quit, counters, cur, loaded, thr, value, ID,
                 conn_id_counter, command, heir, cli, open>>

\* The end of the input ends the console without any of this.
ConsoleEof ==
  /\ con = "loop"
  /\ con' = "eof"
  /\ UNCHANGED <<lis, lsock, known, quit, counters, cur, loaded, threads, cli, open>>

-----------------------------------------------------------------------------
(* RemoteClient.                                                           *)

Connect(k) ==
  /\ cli[k] = "idle"
  /\ cli' = [cli EXCEPT ![k] = IF lsock = "none" \/ SocketGone THEN "done" ELSE "connecting"]
  /\ UNCHANGED <<con, lis, lsock, known, quit, counters, cur, loaded, threads, open>>

\* Connect times out, or fails with the listening socket.
ConnectFails(k) ==
  /\ cli[k] = "connecting"
  /\ cli' = [cli EXCEPT ![k] = "done"]
  /\ UNCHANGED <<con, lis, lsock, known, quit, counters, cur, loaded, threads, open>>

\* Connect returns 0 and the request is sent, or it has timed out although the
\* connection was accepted: then it returns -1, and the client exits.
Send(k) ==
  /\ cli[k] = "connected"
  /\ \E s \in {"sent", "gone"} : cli' = [cli EXCEPT ![k] = s]
  /\ UNCHANGED <<con, lis, lsock, known, quit, counters, cur, loaded, threads, open>>

-----------------------------------------------------------------------------
ListenerStep ==
  Listen \/ Publish \/ EnterAccept \/ (\E k \in Conn : Accept(k)) \/ AcceptFails \/ AcceptExhausted
  \/ CountLoad \/ CountStore \/ Spawn

ClientThread(k) ==
  \/ TakeID(k) \/ ReceiveSleeps(k) \/ Receive(k) \/ ReceiveEnds(k)
  \/ ExecuteCommand(k) \/ WaitKid(k) \/ WaitAny(k)
  \/ FinishLoad(k) \/ FinishStore(k)

\* What goes on at the other end of a connection once it is accepted.
Remote(k) == Send(k) \/ KidEnds(k)

Next ==
  \/ ListenerStep \/ Quit \/ Join \/ Drain \/ ConsoleEof
  \/ \E k \in Conn : \/ ClientThread(k) \/ Remote(k)
                     \/ Connect(k) \/ ConnectFails(k)

-----------------------------------------------------------------------------
(* Properties.                                                             *)

\* Connections the listener has counted and whose threads have not finished.
Busy == {k \in Conn : thr[k] \notin {"none", "ended"}}
Counted == Busy \cup (IF lis = "spawn" THEN {cur} ELSE {})

\* Unless an update is lost, active_conn counts the connections in progress,
\* and a server that was told to quit returns, and its globals with it, only
\* when no listener and no client thread is left to use them or to log; client
\* ids are unique.
ServerInv ==
  /\ ~ raced => active_conn = Cardinality(Counted)
  /\ con = "left" /\ ~ raced => Busy = {} /\ lis = "ended" /\ log = 0
  /\ \A j, k \in Conn : ID[j] = ID[k] /\ ID[j] # 0 => j = k

\* A client thread that nothing will wake: its client has gone while it slept in
\* Read, or its Execute failed and others have collected all the children.
Stranded(k) ==
  \/ thr[k] = "read" /\ cli[k] = "gone"
  \/ thr[k] = "asleep" /\ Kids = {}

\* A server that is told to quit when it knows its listening socket does so,
\* although processes it has started still have the socket and in whatever order
\* its threads end, unless an update is lost or a client thread is stranded.
ServerQuits ==
  (con = "join" /\ lsock = "closed")
    ~> (con = "left" \/ raced \/ \E k \in Conn : Stranded(k))
=============================================================================
