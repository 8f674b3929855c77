# TinyOS-3 in TLA+

A TLA+ development of the system in `src/`: a small multicore operating system
that runs as one host process on a simulated machine (`bios.c`), with the
programs that run on it. The modules model the machine, the kernel and the
programs, the configurations check them with TLC on small instances, and the
`*Proofs` modules prove with TLAPS, for any number of threads, cores, processes
and files, the invariants of the machine, of every part of the kernel that is modelled
and of the programs, and the four refinements.

## 1. The system

    application threads (validate_api, symposium, shell)
        | system calls (tinyos.h): kernel_lock; sys_X; kernel_unlock
        v
    processes -- threads -- streams -- pipes, sockets, devices, info
        | kernel_wait, kernel_timedwait, kernel_broadcast, kernel_sleep
        v
    kernel lock -- condition variables -- mutexes          (kernel_cc)
        | sleep_releasing, wakeup, yield
        v
    scheduler                                              (kernel_sched)
        | timers, interrupts, halt and restart of cores, context switch
        v
    virtual machine                                        (bios)

| Component | State | Operations | What makes it hard; what makes it correct |
|---|---|---|---|
| Scheduler `kernel_sched` | TCBs (state, phase, priority, wakeup time), the multilevel queue `SCHED`, `TIMEOUT_LIST`, `timeslices`, `active_threads`, each core's current thread | `spawn_thread`, `wakeup`, `sleep_releasing`, `yield`, `gain`, idle loop | A switch is two critical sections with a gap; other cores, timeouts and boosts act in it. No thread is on two cores, forgotten, queued twice or used after release; ready threads run, sleepers wake, cores leave at the end |
| Synchronisation `kernel_cc`, `kernel_sys` | `kernel_mutex`, `kernel_sem`, for each condition variable a spin lock and a ring of waiters | `Mutex_*`, `Cond_*`, `kernel_lock/unlock/wait/signal/sleep` | Signals race timeouts, and sleepers that are not asleep yet; waiters live on stacks. Exclusion in the kernel, no lost wake-up, no signal spent on a timed-out waiter |
| Processes `kernel_proc` | `PT`, free list, per process: parent, children and exited lists, `FIDT`, main thread, exit value | `Exec`, `Exit`, `WaitChild`, `GetPid`, `GetPPid`, `OpenInfo` | Several waiters of one process, exit and reparenting against waiting. Every child is collected once; a waiter returns when there is something to collect |
| Threads `kernel_threads` | PTCBs: exit value, detached, waiting count, two condition variables; the process's list | `CreateThread`, `ThreadJoin`, `ThreadDetach`, `ThreadExit` | Joiners, the exiting thread and a detaching third party share a PTCB that the last one frees |
| Streams `kernel_streams` | `FT` with reference counts, free list, `FIDT` of each process | `Read`, `Write`, `Close`, `Dup2`, `FCB_reserve`, `FCB_unreserve`, `open_stream` | Close, Dup2, Exec and Exit while another thread sleeps in Read or Write; limits and rollback |
| Pipes `kernel_pipe` | ring buffer, free space, two condition variables, closed flags | `Pipe`, `pipe_read`, `pipe_write`, `reader_close`, `writer_close` | Several readers and writers, closing while others sleep |
| Sockets `kernel_socket` | `PORT_MAP`, socket control blocks, request queues, two pipes per connection | `Socket`, `Listen`, `Accept`, `Connect`, `ShutDown` | Request and answer between two sleeping threads, with timeouts and closes |
| Devices `kernel_dev` | serial control blocks | receive handler, `serial_read`, `serial_write`, null device | Interrupt handler against a thread that is about to sleep. A byte reaches its reader |
| Virtual machine `bios` | cores, pending interrupts, timers, the list of halted cores, terminals | interrupts, timers, halt, restart, serial I/O, `vm_boot` | Host threads and signals. No core is lost for restarting, none is signalled before it is up or after it has ended |
| Boot, console `kernel_init`, `console` | none of their own | `boot` | straight line between barriers |
| Utilities `util.h`, `util.c` | intrusive lists; exception blocks and handlers | insert, remove, splice, select; `TRY_WITH`, `raise_exception` | Pointer algorithms on shared rings; handlers that raise. A ring is the list it should be; each handler runs once |
| Dining philosophers `symposium` | the table: states, a mutex, a condition variable each | `SymposiumTable_*`, two hosts | `trytoeat` for a neighbour. No two neighbours eat, everybody does |
| Shell `tinyos_shell`, `terminal`, `tinyoslib` | descriptors, children; the remote server's globals | `process_line`, `RemoteServer`, `rsrv_client`, `RemoteClient`, `SystemInfo` | Pipe ends kept too long; a listener, client threads and a console that share counters. Lines come back, the server drains |
| Test framework `unit_testing` | the subprocess, the alarm, the proxies of each terminal | `execute_fork`, `execute_boot`, `expect`, `sendme` | Signals against the parent, closing of proxies. A hanging test ends, a failure is counted |

They interact through calls downwards, through the shared kernel lock (every
system call runs with it and gives it up only in `kernel_wait`), through
condition variables, and through interrupts (`ALARM` into `yield`, serial
interrupts into `Cond_Broadcast`).

## 2. Modules

| Module | Models |
|---|---|
| `ThreadLife` | what the kernel relies on from the scheduler (abstract) |
| `Sched` | `kernel_sched.c`; implements `ThreadLife` |
| `SchedProofs` | theorems about `Sched` |
| `KernelLock` | the monitor that system calls are written for (abstract) |
| `KernelCC` | `kernel_cc.c`; implements `KernelLock` |
| `KernelCCProofs` | theorems about `KernelCC`: its invariants; that it implements `KernelLock` |
| `ByteChannel` | what a pipe promises (abstract) |
| `Pipe` | `kernel_pipe.c`, with `sys_Read` and `sys_Write`; implements `ByteChannel` |
| `PipeProofs` | theorems about `Pipe` |
| `Streams` | `kernel_streams.c`: descriptors, reference counts, free list |
| `ProcTree` | what processes, exits and `WaitChild` promise (abstract) |
| `Proc` | `kernel_proc.c` up to `Exit`; implements `ProcTree` |
| `ProcProofs` | theorems about `Proc` |
| `Threads` | `kernel_threads.c`: the PTCBs of a process |
| `ThreadsProofs` | theorems about `Threads` |
| `ListOps`, `ListLemmas` | removal from an intrusive list, for `Sched`, `Proc`, `Threads`, `Machine` and `Lists`; lemmas that the proofs share, about sequences and about rings of pointers |
| `Socket` | `kernel_socket.c`: ports, requests, connections |
| `Machine` | `bios.c` and the receive side of `kernel_dev.c` |
| `IOProofs` | theorems about `Streams` and `Machine` |
| `Symposium` | `symposium.c` |
| `Shell` | `boot_shell`, `Shell`, `process_line` of `tinyos_shell.c` |
| `RemoteServer` | `rserver` and `rcli` of `tinyos_shell.c` |
| `SystemInfo` | `OpenInfo` and `info_read` of `kernel_proc.c`, and the program `sysinfo` |
| `Harness` | `unit_testing.c` |
| `Lists`, `Exceptions` | `util.h` and `util.c` |
| `Programs` | a behaviour is one of the seven programs above: one specification, one run |
| `UserProofs` | theorems about `Socket` and the programs |
| `MC*` | values for TLC. `MCSchedLive` also makes a behaviour one of either of two instances of `Sched`, and `MCIO` one of `Streams` or of `Machine`, which share no state |

**Grain.** A step of a model is what runs between two points where another
actor can act. In `Sched` it is a critical section under `sched_spinlock`
(preemption is off in it, so nothing on the same core intervenes either). What
the code splits over two sections stays split: `sleep_releasing` marks and
unlocks (`pc = "sleep"`), then yields; `yield` chooses and switches
(`pc = "gain"`), then `gain` finishes. In `KernelCC` a step is a successful
`Mutex_Lock` with the code up to the next one, an unlock, or a call of the
scheduler. Spinning and `yield(SCHED_MUTEX)` change nothing there and are left out.

**`Sched`.** `Threads` are the addresses at which `spawn_thread` can put a TCB;
`"FREE"` means that no TCB is there, so a released TCB may be reused. `Cores` also
names the idle threads. `current_thread`, `prev`, `phase`, `state`, `priority`,
`prev_priority`, `mutex_contention`, `wakeup_time`, `SCHED`, `TIMEOUT_LIST`,
`timeslices` and `active_threads` are the code's. `idle[c]` is where the idle
thread of a core is in its loop. Bounds: `MaxClock` (time stops there and no
sleep ends later), the set `Timeouts`. When the code restarts one halted core the
model restarts any.

**`KernelCC`.** `pc` says where a thread is in `kernel_lock`, `cv_wait`,
`Cond_Signal` or `Cond_Broadcast`, which are written once and used for
`kernel_sem_cv` and for the condition variables of `kernel_wait` alike; `after`
is where a signal returns to. `waitset[cv]` is the ring in ring order. The
scheduler is reduced to what `ThreadLife` promises: `wakeup` makes a sleeping
thread run and reports whether it did, a timeout makes it run. An interrupt
handler that broadcasts is carried by any thread that is in user code.

**`Pipe`.** One pipe from the return of `sys_Pipe` on. A step is what a system
call does up to its next `kernel_wait` or its return, because the kernel lock is held
throughout (`KernelLock`); the part after a `kernel_wait` is `ResumeRead` or `ResumeWrite`. An
FCB's reference count is the number of descriptors (`fids`) and of calls under way
(`Refs`; that the counter is this number is the business of `Streams`), and
the step that drops the last one closes the end. `freed` records `free(pipe)`. What a write end that is still
open then finds in the memory is the constant `Reused`: with `FALSE`
the old contents, with `TRUE` anything (the next `get_pipe` may have it); the run has `TRUE`. A size of 0 is no limit to
the code's loops (`Limit`); no run uses it. Bounds: `MaxFids`, the sizes `ReadSizes` and `WriteSizes`, and a ring of
two bytes, which wraps at every offset and is shorter than two writes.

**`Streams`.** A system call is one step, except a Read or Write that sleeps in
its stream (`StartIO`, `EndIO`; `using[t]` is its local `fcb`). `refcount` and
`FCB_freelist` are the code's; `open[f]` says that the stream object has been set up
and its `Close` has not been called. `FCB_decref` takes the number of references that a
call drops from each FCB, so that `Dup2` and `Exit` are one use of it; the order in which `Exit`
releases several FCBs is left open. A failed `device_open` goes through `FCB_unreserve` (the FCB returns
to the list with count 1), a failed `FCB_reserve(2)` through its rollback.

**`Proc`.** A step is what a system call does up to its next `kernel_wait` or its return; the part after a
`kernel_wait` is `Resume` or, in the loop of the initial process's `Exit`, `ResumeExit`. That loop collects all
exited children in one step, since nothing comes between. `children_list` and `exited_list` are the lists in their
order; the free list is where the code has it, in the `parent` fields (`FreeChain` follows it). `out` records the last
successful `WaitChild` for the properties. `<<p, k>>` is thread `k` of whichever process has PCB `p`, `K` threads each.
`Alone`: a process exits when its other threads are not in a call, as `ThreadExit` of the main thread sees to;
an `Exit` beside threads that wait is not modelled. Process 0, the scheduler's, and process 1 as its
non-child are set up in `Init`. Bound: `N` PCBs.

**`Threads`.** Thread 0 is the main thread of a process. A step is a call up to its sleep, or from its wake-up on.
`waiting_threads`, `detached`, `ptcb_list` and `thread_count` are the code's, `freed` the PTCBs that have been freed;
a step that follows a pointer to one of them sets `corrupt`, after which nothing is said. `pc[Main] = "spin"` is the loop of
the main thread's `ThreadExit` that can no longer end; it holds the kernel lock, so nobody else goes on.

**`Socket`.** The callers are threads of one process. SCBs are numbered as they are made and not reused; a connection's
two pipes are named after the server's SCB. A request in a queue names the socket and, while its `Connect` is under
way, the thread. `corrupt` is set as in `Threads`; where an access to freed memory may also go well both outcomes are
allowed (`AcceptFails` beside `AcceptResume`; `Writes` for a peer that may be free). `ClosePeer` shuts down whatever socket is open at the closed
one's old descriptor, as the code does, which is never the closed one: the ends of its own pipes stay open and those who sleep over them are
not woken; its peer only loses `receive`. All descriptors are of sockets; `Connect` (`kernel_socket.c:416`) would take any other stream for one.
Bounds: `M`, `Fids`, `MaxReqs`, `BUFF_SIZE`.

**`Machine`.** Every host thread, core or PIC daemon, is an actor, and a step is what it does without another one being able to tell. What
the code does in two steps is two or more: the empty `select` of `yield` (`Select`), the blocking of `SIGUSR1` by the idle thread
(`Mask`) and the halt, with interrupts and whatever they make ready in between; the setting of the timer and the clearing of
`ALARM`, a failed read and the sleep, `select` and the interrupts it leads to. The kernel is reduced to what it asks of the machine, and one
thread that reads a terminal.

**Programs.** System calls are atomic in `Symposium`, `Shell`, `RemoteServer` and `SystemInfo`: the kernel's modules answer for them. A line in
`Shell` is a sequence of kinds of programs. In `RemoteServer` an unprotected increment is a load and a store, and `raced`
records that an update was lost; the size of `size_t` is `SizeMax`. Its listener has the socket before it stores it (`Publish`), a client thread
sleeps in `Read` (`ReceiveSleeps`) and is not woken when its client goes, and one whose `Execute` failed waits for any child
(`WaitAny`), which may be another thread's. `Harness` has one terminal and patterns of one byte; a console proxy whose `poll` found nothing
tests `COMPLETE` a step later (`ConComplete`). `Lists` has both the pointers and the sequences that the comments of `util.h` promise. In
`Exceptions` any handler may raise; `ended` says that a body came to its end, after which no catcher runs. In `SystemInfo` other
processes come and go between the reader's calls; an `OpenInfo` beside a zombie, whose `main_thread` is `NULL`, ends in `"fault"`.

## 3. Runs

| Run | Instance | Shows |
|---|---|---|
| `sched` | 2 threads, 2 cores, 2 levels, boost after 2 timeslices, timeouts 0 and 1, clock to 1; cores symmetric | `SchedInv` (types, queues, no forgotten thread, the timeout list, the code's assertions, no use after release), `OneContext`, `MutexPenaltyUndone`, `ImplementsThreadLife` |
| `sched_live` | 3 threads, 1 core, 2 levels | `ReadyRuns`: no thread that is ready starves |
| | or: 1 thread, 2 cores, timeouts 0 and 1, clock to 2 | `TimeoutWakes`: a sleeper whose time has come is woken, even from idle and halted cores; `CoresLeave`: when the last thread has exited every core leaves the scheduler (the PIC's interrupts restart halted cores as well as `cpu_core_restart_all`, and either would do) |
| `kernel_cc` | 3 threads, 1 condition variable besides the semaphore's | `KernelExclusion`, `RingInv`, `WakeInv` (no orphan sleeper, results of `cv_wait`, no lost wake-up of the semaphore), `SignalReaches`, `ImplementsKernelLock`, and `KernelProgress`: a free kernel that is wanted is taken |
| `pipe` | 3 threads, ring of 2 bytes, 2 byte values, reads of 1 and writes of 2 bytes, up to 2 descriptors of an end | `PipeInv` (ring, sleepers, closed ends), `ImplementsByteChannel`, `CallsReturn`: nobody is left asleep beside data, space or a closed write end |
| `io` | 2 processes, 3 descriptors each, 3 FCBs, 2 threads in calls | `StreamsInv`: counts are references, nothing is closed in use, released twice or leaked |
| | or: 2 cores, 1 terminal, FIFO of 1 byte | `MachineInv`: the halted list is exact; `NoLateSignal`; `ReaderGets`: a byte reaches its reader, also when the interrupt comes while its core is on the way to halt |
| `proc` | 4 PCBs, exit values 0 and 1, 1 thread per process | `ProcInv` (tree, free list, sleepers), `ImplementsProcTree`, `WaitsEnd`: no waiter beside its zombie; the system halts |
| `threads` | the main thread and 3 others | `ListInv`, `JoinInv`, `JoinReturns`: counts and list are exact, no joiner and no exiting thread sleeps past its wake-up, joins return |
| `threads_exit` | the main thread and 2 others | violated: `MainExitEnds` (below) |
| `socket` | 2 threads, 3 SCBs, 3 descriptors, 2 ports, pipes of 1 byte, 1 queued request | `ListenInv`: ports, listeners, acceptors and requests agree; `PipesInv`: the ends of a connection are crossed and nobody keeps an end of a freed pipe; `CallsReturn`: every `Connect` returns, and every `Accept` for which there is a request |
| `socket_close` | the same | violated: `CloseSeen` (below) |
| `programs` | 4 philosophers with 2 bites; 2 shells, lines of up to 3 programs; 2 connections; 2 machines, 1 pattern each way; 2 lists of 3 nodes; 2 nested blocks with 2 handlers of each kind; 4 processes | `SymposiumInv`, `SymposiumEnds`; `ShellInv`, `LineEnds`; `ServerInv`, `ServerQuits`; `HarnessInv`, `TestEnds`; `ListsInv`; `UnwindInv`; `InfoInv` |
| `info` | the same | violated: `InfoOfPCBs` (below) |

Deadlock is not checked in these runs: a system in which every thread has exited, or all
sleep without a timeout, really stops. Where a thread must not be left asleep, a property says so.

*Findings.* Three runs show where the code does not do what its comments say.

- `threads_exit`: the main thread's `ThreadExit` joins the first of `ptcb_list` until the list is empty and ignores what
  `ThreadJoin` returns. When that thread is detached, or has exited while its joiner has not run yet, `ThreadJoin` returns -1 at
  once, and the loop spins with the kernel lock for ever.
- `socket_close`: closing one end of a connection closes neither of its pipes, although the comment at `kernel_socket.c:163` says "close both sides".
  `socket_close` looks its own descriptor up in `FIDT`, where it is no more (`kernel_streams.c:203`; 0 for a `NOPORT` socket), and takes `receive`
  away from the peer. A `Read` of the peer that begins later returns 0; one that is asleep sleeps for ever.
- `info`: `info_read` copies `info_table[index]` before it counts down from the number of entries, so the first structure that is
  read lies behind the table, and is of no process.

*Known behaviours that no run asserts.* The models show these disagreements with the documentation too, and the
properties are stated so that they exclude them:

- Pipes: a writer blocked on a full pipe sleeps again when the read end is closed (`kernel_pipe.c:89`), and a write after that reads a
  freed pipe (`:68`); a read or write of size 0 is not limited (`:37`).
- Processes: two threads of one process that wait for the same child both collect it, and a waiter for any child
  sleeps on when another thread collects the last (`kernel_proc.c:262`, `:284`).
- Threads: a thread that is detached while it sleeps in `ThreadExit` sleeps on (`kernel_threads.c:120`).
- Sockets: a `Connect` whose timer fires just before it is accepted returns -1 with a connected socket
  (`kernel_socket.c:452`). A socket that becomes a listener while its own timed-out request is still queued
  at another port is made a peer by the `Accept` there, and its port keeps leading to it (`:449`; `tinyos.h:577` says that nothing but
  `Accept`, `Close` and `Dup2` can be called on a listening socket, so `ListenInv` excludes that peer). After `ShutDown(A, SHUTDOWN_READ)`
  `Read(A)` returns 0, where `tinyos.h:683` says -1.
- Machine: an interrupt between the decision to halt and the halt does not keep the core from halting until the next
  one (`bios.c:742`); an `ALARM` of a very short timer is lost between the setting of the timer and the clearing of the flag (`bios.c:863`).
- Utilities: `rlist_pop_back` empties a list of two or more (`util.h:455`); when the last catcher of a block raises, or a finalizer after it, `captured` starts
  from 0 and the exception goes on to the next block, although a catcher has run (`util.c:42`; `util.h:784-787` calls it handled then).
- Server: the count can lose an update (`tinyos_shell.c:465`; `raced`). A client thread asleep in `Read` (`:630`) is not woken when its client
  goes, so `active_conn` stays above 0 and the server does not quit; the client of a `Connect` that timed out although it was accepted is such
  a one. An `Execute` that fails is not noticed (`:705`): `WaitChild(NOPROC)` then collects a child of another thread, or sleeps on when others have collected the
  last. `ServerQuits` excludes both as `Stranded`.
- Tests: an alarm between the return of `sigwait` and `alarm(0)` stays pending and ends the tests (`unit_testing.c:513`; `par` is `"died"`); a byte
  that arrives between an empty `poll` and the test of `COMPLETE` fails its test (`:340-346`).

*Why the bounds are enough.* Two cores are what the races of `Sched` need: one is in
the gap of a switch, the other acts on the same thread; a third core only
repeats the second. Two levels exercise both ends of a priority and the boost. Two
threads with two timeouts put two entries in `TIMEOUT_LIST` in both orders. Reuse
of a released TCB happens with one thread already. In `KernelCC` two threads wait
on a ring while a third signals, and all three compete for the semaphore, which
gives barging (a newcomer takes it from a woken thread); more threads make the rings longer. In `Pipe` two
threads sleep on one condition variable while the third wakes or closes. In `Proc`
four PCBs give the initial process a child with two children, one of them a
zombie, which is what reparenting needs, and a free list in every order. In `Threads` three others make two joiners of one
thread, or a joiner, a detaching third party and an exiting main thread. In `Socket` a thread accepts while the other connects, times out or closes,
three SCBs are a listener and the two ends of a connection, and with the second port the socket that timed out may listen itself; with one acceptor at a time the race of two acceptors for
one request is reached only as a stale request. That a Close finds another socket at the descriptor of the one that is closed takes a fourth SCB, which is
too many for the run with both ports (with one port and two interchangeable threads the invariants hold of its 2.3 million states); the theorems cover any number. `ReadyRuns` is checked on one core: boosting by a second one is in the run
`sched`, but not its liveness. In `Machine` the second core halts,
restarts and leaves while the first takes the interrupts. Four philosophers are the least with two that eat at once; three programs have a
middle one, with pipes on both sides; two connections and the console are what the races on `active_conn` need.

### Fairness

`Sched`: `gain` arms a one-shot timer for every timeslice, so a running thread
is interrupted and yields (`WF` of `yield(SCHED_QUANTUM)`); the scheduler's own sections finish and a halted core is interrupted
(`WF Section`). The idle loop is a few instructions and fits in a timeslice, although an interrupt can put it
back at its start, hence `SF` of `IdleStep`. The clock ticks. Each is assumed of every core; `MCSchedLive` has the same of its two instances. Nothing
obliges a thread to sleep, exit or wake another.

`KernelCC`: a thread that has started a call goes on (`WF Step`). A `waitset_lock` is
held for a few instructions and only signals and waits on the same condition variable
compete for it, hence `SF` for taking it; `kernel_mutex` has no such
assumption, so `KernelProgress` promises only that *some* thread gets the kernel. A
thread can be overtaken for ever; the code does not promise more.

`Pipe`, `Proc`, `Threads` and `Socket`: some woken thread goes on (`WF` of the disjunction), which is what
`KernelProgress` gives; timers of `Connect` fire. Because a newcomer may always overtake, the liveness properties of all but
`Threads` assume that the programs eventually stop making calls (`CallsEnd`).

`Machine`: host threads run (`WF` of each core's steps, of the barriers and of the PIC; a core that has nothing else to run comes to
its idle thread and halts), a pending signal that is again and again unblocked is delivered (`SF`), and time passes, so `SERIAL_TIMEOUT`
comes (`SF` of `PicSelect(S, TRUE)`). `MCIO` assumes it of a behaviour of the machine.

`Programs`: the processes, threads and daemons of the program that runs are scheduled (`SymposiumFair`, `ShellFair`, `ServerFair`,
`TestFair`). Of the world: a remote command ends and a connected client sends or goes (`Remote`), an alarm goes off. Nothing is assumed of
who types or of the code of a test.

## 4. Proofs

Every theorem below is about all values of the constants that the module's
assumptions allow. For each module there is an inductive invariant `IInv` (in `IOProofs` and `UserProofs`, which are about several, `MachineIInv`,
`SocketIInv`, `ShellIInv` and so on), with `Init => IInv`, one lemma for each operation that shows that the operation
preserves it, and `Spec => []IInv`; the invariants, action properties and refinements
that the runs check follow from `IInv`.

| Module | Proved | Assumptions |
|---|---|---|
| `KernelCCProofs` | `Invariant`, `TypeCorrect`, `Exclusion` (`KernelExclusion`), `RingsHoldWaiters` (`RingInv`), `WakeUps` (`WakeInv`), `SignalsReach` (`SignalReaches`), `Refines` (`ImplementsKernelLock`) | the special values are not threads or condition variables, and no condition variable is called like a place in the code (`PlacesAssumption`) |
| `SchedProofs` | `Invariant`, `NothingLost` (`SchedInv`), `OneCoreEach` (`OneContext`), `PenaltyUndone` (`MutexPenaltyUndone`), `Refines` (`ImplementsThreadLife`) | finitely many threads, none of which is an idle thread |
| `ProcProofs` | `Invariant`, `OneStory` (`ProcInv`), `Refines` (`ImplementsProcTree`) | `K = 1`: one thread of each process in these calls |
| `ThreadsProofs` | `Invariant`, `ListsAgree` (`ListInv`), `JoinersWait` (`JoinInv`) | none but `N \in Nat` |
| `PipeProofs` | `RingAndEnds` (`PipeInv`), `Refines` (`ImplementsByteChannel`) | finitely many threads, a buffer of at least one byte; any `Reused` |
| `IOProofs` | `FilesCounted` (`StreamsInv`) | finitely many processes, threads and FCBs |
| `IOProofs` | `MachineInvariant`, `HaltedListed` (`MachineInv`), `SignalsInTime` (`NoLateSignal`) | at least one core |
| `UserProofs` | `SocketInvariant`, `PortsLead` (`ListenInv`), `PipesCrossed` (`PipesInv`) | finitely many threads, none called 0; no port 0 (`SocketAssumption`) |
| `UserProofs` | `SymposiumTheorem` (`SymposiumInv`), `ServerTheorem` (`ServerInv`), `HarnessTheorem` (`HarnessInv`), `UnwindTheorem` (`UnwindInv`), `InfoTheorem` (`InfoInv`), `ShellTheorem` (`ShellInv`), `ListsTheorem` (`ListsInv`) | `ProgramsAssumption`: a philosopher; connections that fit in `size_t` (`K < SizeMax`); at least the two PCBs of the start; 6 descriptors (`tinyos.h` has 16); finitely many list nodes, and a list is a node that is never put into one |

The hypothesis `K = 1` is one the code needs: with two threads of a process in `WaitChild` for the same child
both clean it up (`kernel_proc.c:262`). With `K = 2` TLC finds `ProcInv` violated in six states: the second
`release_PCB` of the child makes its `parent` field point to itself, so the free list never ends (`FreeListInv`).
The assumptions that sets are finite are there because counts are cardinalities.

*What had to be added to the invariants of the runs, and why.*

- `KernelCC`. Exclusion is not inductive: that `kernel_sem` is 0 while a thread is in the kernel
  says nothing of two threads that have both passed the test. `IInv` adds `LockInv` (`kernel_mutex` is held exactly by the
  thread whose label says so), `CallInv` (a call in progress has a condition variable and a return label), and `TakeInv`
  (between the test and the decrement the semaphore is still positive). For the wake-ups `WInv` adds who
  holds each `waitset_lock`, that a waiter off its ring has been signalled or is about to remove itself, and that
  a semaphore that is free with waiters has a signal on its way.
- `Sched`. `QInv` says of `SCHED` that each list holds the READY threads of its level that are `CTX_CLEAN`; whether a
  thread is clean changes in the gap between `yield` and `gain`, so `PhaseInv` says who is `CTX_DIRTY`
  (what a core is on or is leaving) and `CoreInv` what `gain` will find of the two threads it switches between. `TInv` ties `TIMEOUT_LIST`,
  its order and the wake-up times; `FreeInv` says that a released TCB is in no list and on no core. `On(c)` is the
  thread whose stack core `c` uses, the leaving one until `gain` has run, and `OneContext` is about all that a core may still touch (`OnCore`).
- `Proc`. Following the free list through `parent` fields says little about its parts, so `FreeLinks` says that there is a
  sequence without repetitions that is so linked, and `FreeLinksImply` that this is what `FreeChain` finds. `RootInv` and
  `DepthInv` (there is a depth that grows from parent to child) exclude a cycle of processes away from the initial one;
  from them follows that when all children of the initial process have exited nobody else is left (`LastOnes`),
  which is what its last step in `Exit` needs. `CallInv` says what a woken waiter still has: the child it waits for, or a child.
- `Threads`. `SafeInv` says for each PTCB which calls have counted themselves in `waiting_threads` and when it is freed; after `corrupt`
  nothing is said.
- `Streams`. `StreamsInv` is inductive together with `DeadInv` (a dead process has no descriptors). The work is in counting: what a call
  adds to or takes from the descriptors that refer to an FCB is the number by which it changes the FCB's count.
- `Pipe`. `DataInv` says that the bytes between the two positions are the channel's queue. When the last reader closes, the pipe is freed
  and `ByteChannel`'s queue is emptied; after that a write finds any content (`Reused`) and the channel promises nothing of it.
- `Machine`. `MachineInv` counts the cores with interrupts off and says where such a core is: in `serial_read`, or where it has been given the thread that
  slept there and starts its timeslice. `ReadInv` names the one: it is the core on which the reader is.
  `NoLateSignal` relates the daemon's position to those of the cores; `PhaseInv` says what keeps them in step, that both barriers
  are passed by all cores at once. The steps on which the halted list depends (`dispatch_interrupts`, `raise_interrupt`) share one shape, `Restarts`.

- `Socket`. `PortInv` says what a port can lead to, with the exception above. A request outlives the call that made it, so `AcceptInv` relates the
  length of a queue to the acceptors it woke, and never looks at who is still behind a request. `LinkInv` says that the pipes of a connection are named
  after its server socket, that the server is younger than its client, and what each end still has of them: the client's own `peer` may point to
  a later connection, since a stale request can be accepted twice. `EndsInv` says that no socket has an end of a freed pipe and
  that the pipes to come are new; `SleepInv`, that nobody sleeps over a pipe who could go on.
- `Symposium`. `SymposiumInv` is inductive together with `MoodInv`, what `state` is at each place of the code, and `HostInv`: when the host destroys the
  table no philosopher is left, although `Exec` may have failed for some and `WaitChild` then finds nobody.
- `RemoteServer`. `ServedInv` says that a client with a thread has connected, and that the one the listener is about to count has no thread yet;
  `DrainInv`, that the listener has ended once the console waits for the connections. What is said of the count ends when an update is lost, which the
  code allows (`raced`).
- `Harness`. `ProxyInv` says that a proxy that has ended was told to and has nothing left, and which have ended at each step of the subprocess; `StatusInv`, that
  the subprocess knows of each failure until it has ended.
- `Exceptions`. `Progress` says that the handlers that have run and those that are left are each the numbers from some `n` down to 1: a
  handler that raises abandons a loop, and the next `exception_unwind` begins where it stopped. Together they are all that were installed, unless the
  body has `ended`: then no catcher is left and none has run.
- `SystemInfo`. `RowsInv` says what has been read so far: the table backwards down to `index`, behind one row of which it says nothing.
- `Shell`. `ShellInv` says nothing of the shell's table in the middle of `process_line`; `FilesInv` says exactly what is in it at each of its steps,
  and `ChildInv` what each program inherited and which fragments can have one. A failed step joins the path of the others at `wait`, with the same table.
- `Lists`. `ListsInv` speaks of walks, which say nothing of the nodes they do not meet. `ListsIInv` says that `next` and `prev` are inverse
  permutations of all nodes, that the ring through each list has the nodes its sequence has, in that order, and that
  every other node is a ring of its own (`Linked`). Every operation is `rl_splice` of two nodes: of one ring it makes two (`RemoveLinked`), of two one
  (`InsertLinked`, `JoinLinked`), and the other rings stay (`OthersLinked`). `rlist_select` does that once for each picked
  node (`SelectLinked`); `rlist_reverse` swaps the two permutations on one ring (`TurnLinked`). A walk of at most as many steps as there are
  nodes is back at the list (`WalkAlong`), so it finds the sequence.

*Recursion.* `Kept` (removal of several elements in order), `FreeChain`, `Walk`, the loop of `rlist_select` and the folds are recursive functions. What they compute is
proved by least counterexample: a function with the recursion's equation exists (shown by a witness), and the least index at
which it differs from what it should be (`LeastNat`) gives a contradiction with the equation.

*Only model-checked:* the liveness properties (`KernelProgress`, `ReadyRuns`, `TimeoutWakes`, `CoresLeave`, `CallsReturn`,
`WaitsEnd`, `JoinReturns`, `ReaderGets` and those of the programs), which are out of the prover's reach. Every invariant, action
property and refinement that a passing run checks is proved.

## 5. Not modelled

- Stacks, `ucontext` switching and memory allocation (a context is what `OnCore` says; a freed block is one that must not be used).
- The spin locks that `Sched` turns into critical sections: they are not checked for deadlock among themselves (`kernel_sched.c:160`),
  nor is spinning with preemption off (`kernel_dev.c:105`).
- `Exit` of a process beside other threads of it that are in calls (`kernel_threads.c:147`), and exit values of threads.
- `serial_write`, which polls, with the transmit interrupts nobody waits for; interrupts between cores, which the kernel does not send; the
  reopening of a terminal that was closed; the null device; the console's pseudo-stream.
- `rlist_pop_back`, `rlist_equal`, `argvpack` and its relatives; `fidopen`.
- What the programs print, parse and compute; scheduler statistics and logging; the tests of `validate_api.c` themselves, which
  were read as documentation.

## 6. Plan

The components of the plan are modelled. Left to model: the spin locks of `spawn_thread` and `gain`, and a serial reader under the kernel lock.
