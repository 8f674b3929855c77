------------------------------ MODULE Harness ------------------------------
(***************************************************************************)
(* The test framework of unit_testing.c.  A test is run for each machine   *)
(* of a list of them (run_test, run_boot_test), in a subprocess that an    *)
(* alarm bounds (execute_fork); there (execute_boot) each terminal has two *)
(* proxy threads: con checks what the machine prints against the patterns  *)
(* the test expects, kbd types the patterns it sends.                      *)
(*                                                                         *)
(* One terminal; patterns are one byte long.  What a proxy does under its  *)
(* mutex is one step, pthread_cond_wait sleeps and gives it up in one.     *)
(***************************************************************************)
EXTENDS Naturals, Sequences

CONSTANTS Machines,   \* bound: the combinations of core_list and term_list
          MaxPats,    \* bound: patterns of a test, for each proxy
          FifoSize    \* bound: bytes in a FIFO

Dirs == {"con", "kbd"}

VARIABLES
  par,        \* where the parent is in execute_fork
  runs,       \* machines the test has been run on
  result,     \* the result of run_test so far
  pending,    \* the signals pending for the parent
  armed,      \* the alarm is set
  signo,      \* what sigwait has returned
  kid,        \* where the subprocess is in execute_boot
  status,     \* how it has ended
  FLAG_FAILURE,
  pattern,    \* patterns in the list of each proxy
  added,      \* patterns added to it
  complete,
  proxy,      \* where the proxy threads are
  fifo,       \* con: the bytes printed, TRUE if as expected; kbd: the bytes typed
  wrong       \* a byte was not as expected, or was not transferred

vars == <<par, runs, result, pending, armed, signo, kid, status, FLAG_FAILURE,
          pattern, added, complete, proxy, fifo, wrong>>
parVars == <<par, runs, result, pending, armed, signo>>
kidVars == <<kid, status, FLAG_FAILURE, pattern, added, complete, proxy, fifo, wrong>>

Each(v) == [d \in Dirs |-> v]

Init ==
  /\ par = "next" /\ runs = 0 /\ result = TRUE
  /\ pending = {} /\ armed = FALSE /\ signo = "none"
  /\ kid = "none" /\ status = "none" /\ FLAG_FAILURE = FALSE
  /\ pattern = Each(0) /\ added = Each(0) /\ complete = Each(FALSE)
  /\ proxy = Each("none") /\ fifo = Each(<<>>) /\ wrong = FALSE

-----------------------------------------------------------------------------
(* The parent: run_test, run_boot_test, execute_fork.                      *)

\* The machine is too small for the test.
Skip ==
  /\ par = "next" /\ runs < Machines
  /\ runs' = runs + 1
  /\ UNCHANGED <<par, result, pending, armed, signo, kidVars>>

\* SIGCHLD is blocked, and the subprocess starts its proxies.
Fork ==
  /\ par = "next" /\ runs < Machines
  /\ par' = "forked"
  /\ kid' = "test" /\ status' = "none" /\ FLAG_FAILURE' = FALSE
  /\ pattern' = Each(0) /\ added' = Each(0) /\ complete' = Each(FALSE)
  /\ proxy' = Each("get") /\ fifo' = Each(<<>>) /\ wrong' = FALSE
  /\ UNCHANGED <<runs, result, pending, armed, signo>>

MutantAlarm ==                                    \* mutant: no alarm(timeout)
  /\ par = "forked"
  /\ par' = "sigwait"
  /\ UNCHANGED <<runs, result, pending, armed, signo, kidVars>>

Alarm ==
  /\ par = "forked"
  /\ par' = "sigwait" /\ armed' = TRUE
  /\ UNCHANGED <<runs, result, pending, signo, kidVars>>

AlarmFires ==
  /\ armed
  /\ armed' = FALSE /\ pending' = pending \cup {"ALRM"}
  /\ UNCHANGED <<par, runs, result, signo, kidVars>>

\* sigwait takes one of the signals.
Sigwait ==
  /\ par = "sigwait"
  /\ \E s \in pending : signo' = s /\ pending' = pending \ {s}
  /\ par' = "cancel"
  /\ UNCHANGED <<runs, result, armed, kidVars>>

\* alarm(0).
Cancel ==
  /\ par = "cancel"
  /\ armed' = FALSE
  /\ par' = IF signo = "ALRM" THEN "kill" ELSE "waitpid"
  /\ UNCHANGED <<runs, result, pending, signo, kidVars>>

\* The time is out; SIGTERM ends the subprocess, wherever it is.
Kill ==
  /\ par = "kill"
  /\ par' = "waitpid"
  /\ IF kid = "ended" THEN UNCHANGED <<kid, status, pending>>
     ELSE /\ kid' = "ended" /\ status' = "signal"
          /\ pending' = pending \cup {"CHLD"}
  /\ UNCHANGED <<runs, result, armed, signo, FLAG_FAILURE, pattern, added, complete, proxy,
                 fifo, wrong>>

\* waitpid, then the signal mask is restored: SIGCHLD is ignored, a SIGALRM that
\* came after sigwait ends the program.
Passed == status = "129"

Waitpid ==
  /\ par = "waitpid" /\ kid = "ended"
  /\ runs' = runs + 1
  /\ result' = (result /\ Passed)
  /\ par' = IF "ALRM" \in pending THEN "died" ELSE "next"
  /\ pending' = {} /\ signo' = "none"
  /\ UNCHANGED <<armed, kidVars>>

-----------------------------------------------------------------------------
(* The subprocess: the test on its machine, then the ends of the proxies.  *)

\* expect and sendme: term_proxy_daemon_add.
Add(d) ==
  /\ kid = "test" /\ added[d] < MaxPats
  /\ added' = [added EXCEPT ![d] = @ + 1]
  /\ pattern' = [pattern EXCEPT ![d] = @ + 1]
  /\ proxy' = [proxy EXCEPT ![d] = IF @ = "asleep" THEN "get" ELSE @]
  /\ UNCHANGED <<parVars, kid, status, FLAG_FAILURE, complete, fifo, wrong>>

\* The machine prints, or reads what has been typed.
MachinePrints ==
  /\ kid = "test" /\ Len(fifo["con"]) < FifoSize
  /\ \E b \in BOOLEAN : fifo' = [fifo EXCEPT !["con"] = Append(@, b)]
  /\ UNCHANGED <<parVars, kid, status, FLAG_FAILURE, pattern, added, complete, proxy, wrong>>

MachineReads ==
  /\ kid = "test" /\ fifo["kbd"] # <<>>
  /\ fifo' = [fifo EXCEPT !["kbd"] = Tail(@)]
  /\ UNCHANGED <<parVars, kid, status, FLAG_FAILURE, pattern, added, complete, proxy, wrong>>

\* An ASSERT of the test fails.
AssertFails ==
  /\ kid = "test" /\ ~ FLAG_FAILURE
  /\ FLAG_FAILURE' = TRUE /\ wrong' = TRUE
  /\ UNCHANGED <<parVars, kid, status, pattern, added, complete, proxy, fifo>>

\* boot returns; con is closed and joined, then kbd: term_proxy_daemon_close.
BootReturns ==
  /\ kid = "test"
  /\ kid' = "close con"
  /\ UNCHANGED <<parVars, status, FLAG_FAILURE, pattern, added, complete, proxy, fifo, wrong>>

Closed(d) == [proxy EXCEPT ![d] = IF @ = "asleep" THEN "get" ELSE @]

CloseProxy(d) ==
  /\ kid = (IF d = "con" THEN "close con" ELSE "close kbd")
  /\ complete' = [complete EXCEPT ![d] = TRUE]
  /\ proxy' = Closed(d)
  /\ kid' = IF d = "con" THEN "join con" ELSE "join kbd"
  /\ UNCHANGED <<parVars, status, FLAG_FAILURE, pattern, added, fifo, wrong>>

JoinProxy(d) ==
  /\ kid = (IF d = "con" THEN "join con" ELSE "join kbd") /\ proxy[d] = "ended"
  /\ kid' = IF d = "con" THEN "close kbd" ELSE "exit"
  /\ UNCHANGED <<parVars, status, FLAG_FAILURE, pattern, added, complete, proxy, fifo, wrong>>

\* abort, or exit(129).
KidEnds ==
  /\ kid = "exit"
  /\ kid' = "ended"
  /\ status' = IF FLAG_FAILURE THEN "signal" ELSE "129"
  /\ pending' = pending \cup {"CHLD"}
  /\ UNCHANGED <<par, runs, result, armed, signo, FLAG_FAILURE, pattern, added, complete, proxy,
                 fifo, wrong>>

\* The test crashes, or exits with another status.
KidCrashes ==
  /\ kid = "test"
  /\ kid' = "ended" /\ status' \in {"signal", "1"} /\ wrong' = TRUE
  /\ pending' = pending \cup {"CHLD"}
  /\ UNCHANGED <<par, runs, result, armed, signo, FLAG_FAILURE, pattern, added, complete, proxy, fifo>>

-----------------------------------------------------------------------------
(* The proxies.                                                            *)

Alive == kid \notin {"none", "ended"}

\* term_proxy_daemon_get: a pattern if there is one, even when complete.
MutantGet(d) ==                                   \* mutant: patterns left when complete
  IF complete[d] THEN "ended" ELSE IF pattern[d] > 0 THEN "proc" ELSE "asleep"

Get(d) ==
  IF pattern[d] > 0 THEN "proc" ELSE IF complete[d] THEN "ended" ELSE "asleep"

ProxyGet(d) ==
  /\ Alive /\ proxy[d] = "get"
  /\ proxy' = [proxy EXCEPT ![d] = Get(d)]
  /\ pattern' = [pattern EXCEPT ![d] = IF Get(d) = "proc" THEN @ - 1 ELSE @]
  /\ UNCHANGED <<parVars, kid, status, FLAG_FAILURE, added, complete, fifo, wrong>>

\* con_proc: poll has found a byte, which is compared, or has not.
con_proc ==
  /\ Alive /\ proxy["con"] = "proc"
  /\ IF fifo["con"] = <<>>
     THEN /\ proxy' = [proxy EXCEPT !["con"] = "polled"]
          /\ UNCHANGED <<FLAG_FAILURE, wrong, fifo>>
     ELSE /\ LET ok == Head(fifo["con"])
             IN  FLAG_FAILURE' = (FLAG_FAILURE \/ ~ ok) /\ wrong' = (wrong \/ ~ ok)
          /\ fifo' = [fifo EXCEPT !["con"] = Tail(@)]
          /\ proxy' = [proxy EXCEPT !["con"] = "get"]
  /\ UNCHANGED <<parVars, kid, status, pattern, added, complete>>

\* COMPLETE after a poll that found nothing: the proxy polls again, or fails, also
\* when the byte has come in between.
ConComplete ==
  /\ Alive /\ proxy["con"] = "polled"
  /\ IF complete["con"]
     THEN FLAG_FAILURE' = TRUE /\ wrong' = TRUE /\ proxy' = [proxy EXCEPT !["con"] = "get"]
     ELSE proxy' = [proxy EXCEPT !["con"] = "proc"] /\ UNCHANGED <<FLAG_FAILURE, wrong>>
  /\ UNCHANGED <<parVars, kid, status, pattern, added, complete, fifo>>

\* kbd_proc: the byte is written; without room, a complete proxy fails.
kbd_proc ==
  /\ Alive /\ proxy["kbd"] = "proc"
  /\ Len(fifo["kbd"]) < FifoSize \/ complete["kbd"]
  /\ LET ok == Len(fifo["kbd"]) < FifoSize
     IN  /\ FLAG_FAILURE' = (FLAG_FAILURE \/ ~ ok) /\ wrong' = (wrong \/ ~ ok)
         /\ fifo' = [fifo EXCEPT !["kbd"] = IF ok THEN Append(@, TRUE) ELSE @]
  /\ proxy' = [proxy EXCEPT !["kbd"] = "get"]
  /\ UNCHANGED <<parVars, kid, status, pattern, added, complete>>

-----------------------------------------------------------------------------
Parent == Alarm \/ Sigwait \/ Cancel \/ Kill \/ Waitpid

Subprocess ==
  \/ KidEnds \/ \E d \in Dirs : CloseProxy(d) \/ JoinProxy(d) \/ ProxyGet(d)
  \/ con_proc \/ ConComplete \/ kbd_proc

Next ==
  \/ Skip \/ Fork \/ Parent \/ AlarmFires
  \/ Subprocess \/ MachinePrints \/ MachineReads \/ AssertFails \/ BootReturns \/ KidCrashes
  \/ \E d \in Dirs : Add(d)

-----------------------------------------------------------------------------
(* Properties.                                                             *)

\* A proxy sleeps only while it has nothing to do, so closing it wakes it; a
\* test that ends normally has had all its patterns transferred and every
\* failure counted, also the ones the proxies find after the machine has
\* stopped; and the next machine starts with no signal of the one before.
HarnessInv ==
  /\ \A d \in Dirs : proxy[d] = "asleep" => pattern[d] = 0 /\ ~ complete[d]
  /\ status = "129" => ~ wrong /\ \A d \in Dirs : pattern[d] = 0 /\ proxy[d] = "ended"
  /\ par = "next" => pending = {} /\ ~ armed /\ kid \in {"none", "ended"}

\* A test that hangs is ended by the alarm, and its status collected.
TestEnds == (par = "sigwait") ~> (par \in {"next", "died"})
=============================================================================
