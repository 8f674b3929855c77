------------------------------ MODULE Programs ------------------------------
(***************************************************************************)
(* What runs on the kernel, and around it: boot starts the machine with    *)
(* one task, and the tests run on their own.  A behaviour is one of these  *)
(* programs, each specified by its module; what it needs of the kernel it  *)
(* takes as promised (the kernel's own modules check that).                *)
(***************************************************************************)
EXTENDS Naturals, Sequences, FiniteSets

CONSTANTS N, bites,                                              \* Symposium
          Terms, MAX_FILEID, PipeSize, Output, MaxFrag, MaxLines,\* Shell
          K, SizeMax, MaxLog,                                    \* RemoteServer
          Machines, MaxPats, FifoSize,                           \* Harness
          Heads, Items, Picked,                                  \* Lists
          Depth, Handlers,                                       \* Exceptions
          MAX_PROC                                               \* SystemInfo

\* There is a philosopher; size_t does not overflow with as many connections;
\* the process table has room for the scheduler's process and the reader, and a
\* process has the six descriptors that process_line needs.  A list is a node
\* that is never put into one.
ASSUME ProgramsAssumption ==
  /\ N \in Nat \ {0}
  /\ K \in Nat /\ SizeMax \in Nat /\ K < SizeMax
  /\ MAX_PROC \in Nat \ {0, 1}
  /\ MAX_FILEID \in Nat \ (0 .. 5) /\ {MaxFrag, PipeSize} \subseteq Nat
  /\ IsFiniteSet(Heads \cup Items) /\ Heads \cap Items = {}

VARIABLES
  task,      \* the program: boot_rec.init_task, or a test without a machine
  state, place, bite, sleeping, host, kind, table,
  at, booted, shellFIDT, line, frag, save, rd, child, got, data, lines, early,
  con, lis, lsock, known, quit, active_conn, total_conn, conn_id_counter,
  log, cur, loaded, thr, value, ID, cli, command, heir, open, raced,
  par, runs, result, pending, armed, signo, kid, status, FLAG_FAILURE,
  pattern, added, complete, proxy, fifo, wrong,
  ptr, holds,
  context, unwind, ran, tries,
  pstate, process_count, reader, info_table, index, rows

sympVars == <<state, place, bite, sleeping, host, kind, table>>
shellVars == <<at, booted, shellFIDT, line, frag, save, rd, child, got, data, lines, early>>
serverVars == <<con, lis, lsock, known, quit, active_conn, total_conn, conn_id_counter, log,
                cur, loaded, thr, value, ID, cli, command, heir, open, raced>>
testVars == <<par, runs, result, pending, armed, signo, kid, status, FLAG_FAILURE, pattern,
              added, complete, proxy, fifo, wrong>>
listVars == <<ptr, holds>>
excVars == <<context, unwind, ran, tries>>
infoVars == <<pstate, process_count, reader, info_table, index, rows>>
programVars == <<task, sympVars, shellVars, serverVars, testVars, listVars, excVars, infoVars>>

Symp == INSTANCE Symposium
Sh == INSTANCE Shell WITH FIDT <- shellFIDT
Server == INSTANCE RemoteServer
Tests == INSTANCE Harness
List == INSTANCE Lists
Exc == INSTANCE Exceptions
Info == INSTANCE SystemInfo

boot ==
  /\ task \in {"symposium", "shell", "rserver", "tests", "lists", "exceptions", "sysinfo"}
  /\ Symp!Init /\ Sh!Init /\ Server!Init /\ Tests!Init /\ List!Init /\ Exc!Init /\ Info!Init

\* One step of the program; the others do not exist.
ProgramsNext ==
  \/ /\ task = "symposium" /\ Symp!Next
     /\ UNCHANGED <<task, shellVars, serverVars, testVars, listVars, excVars, infoVars>>
  \/ /\ task = "shell" /\ Sh!Next
     /\ UNCHANGED <<task, sympVars, serverVars, testVars, listVars, excVars, infoVars>>
  \/ /\ task = "rserver" /\ Server!Next
     /\ UNCHANGED <<task, sympVars, shellVars, testVars, listVars, excVars, infoVars>>
  \/ /\ task = "tests" /\ Tests!Next
     /\ UNCHANGED <<task, sympVars, shellVars, serverVars, listVars, excVars, infoVars>>
  \/ /\ task = "lists" /\ List!Next
     /\ UNCHANGED <<task, sympVars, shellVars, serverVars, testVars, excVars, infoVars>>
  \/ /\ task = "exceptions" /\ Exc!Next
     /\ UNCHANGED <<task, sympVars, shellVars, serverVars, testVars, listVars, infoVars>>
  \/ /\ task = "sysinfo" /\ Info!Next
     /\ UNCHANGED <<task, sympVars, shellVars, serverVars, testVars, listVars, excVars>>

(* Fairness.  The processes, threads and daemons of the program that runs  *)
(* are scheduled (Sched, Machine), and a Connect returns (Socket): a client *)
(* that was accepted sends its request or exits.  Of the world outside: a  *)
(* remote command ends, an alarm goes off.  Nothing is assumed of who      *)
(* types, or of the code of a test.                                        *)

SymposiumFair ==
  /\ WF_sympVars(task = "symposium" /\ Symp!Host)
  /\ \A i \in Symp!Phil : WF_sympVars(task = "symposium" /\ Symp!Philosopher(i))

ShellFair ==
  /\ WF_shellVars(task = "shell" /\ Sh!process_line)
  /\ \A i \in Sh!Frags : /\ WF_shellVars(task = "shell" /\ Sh!Program(i))
                        /\ WF_shellVars(task = "shell" /\ Sh!ProgramQuits(i))

ServerFair ==
  /\ WF_serverVars(task = "rserver" /\ Server!ListenerStep)
  /\ WF_serverVars(task = "rserver" /\ (Server!Join \/ Server!Drain))
  /\ \A k \in Server!Conn :
       /\ WF_serverVars(task = "rserver" /\ Server!ClientThread(k))
       /\ WF_serverVars(task = "rserver" /\ Server!Remote(k))

TestFair ==
  /\ WF_testVars(task = "tests" /\ Tests!Parent)
  /\ WF_testVars(task = "tests" /\ Tests!AlarmFires)
  /\ WF_testVars(task = "tests" /\ Tests!Subprocess)

ProgramsSpec == boot /\ [][ProgramsNext]_programVars /\ SymposiumFair /\ ShellFair /\ ServerFair /\ TestFair

-----------------------------------------------------------------------------
(* Properties: those of the programs.                                      *)

\* Neighbours never eat at once, and a hungry philosopher sleeps only while a
\* neighbour eats and will try for it; nobody is at a destroyed table.
SymposiumInv == task = "symposium" => Symp!TableInv

\* Every symposium ends.
SymposiumEnds == task = "symposium" => Symp!SymposiumEnds

\* process_line connects the programs of a line, leaves no descriptor behind
\* and no child uncollected.
ShellInv == task = "shell" => Sh!ShellInv

\* A line whose programs read all of their input comes to its end.
LineEnds == Sh!LineEnds

\* The server's globals outlive its threads, and its count of connections is
\* right unless an increment without the mutex is lost.
ServerInv == task = "rserver" => Server!ServerInv

\* A server that is told to quit ends.
ServerQuits == Server!ServerQuits

\* The proxies of a test sleep only without work; a test that passed has had
\* every pattern transferred and every failure counted.
HarnessInv == task = "tests" => Tests!HarnessInv

\* A test that hangs is killed by the alarm and collected.
TestEnds == Tests!TestEnds

\* The rings are the lists that the comments of util.h promise.
ListsInv == task = "lists" => List!ListsInv

\* Every handler of a TRY block runs once, in order, whatever handlers raise.
UnwindInv == task = "exceptions" => Exc!UnwindInv

\* An information stream is a snapshot of the process table.
InfoInv == task = "sysinfo" => Info!InfoInv

\* Each record of an information stream is of a process in use, as tinyos.h says.
InfoOfPCBs == task = "sysinfo" => Info!InfoOfPCBs
=============================================================================
