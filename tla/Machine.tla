------------------------------ MODULE Machine ------------------------------
(***************************************************************************)
(* The virtual machine (bios.c) and the serial driver on it (kernel_dev.c).*)
(* Cores are host threads that take interrupts as SIGUSR1; the PIC daemon  *)
(* is one more host thread, which raises them: ALARM when a core's timer   *)
(* has expired, SERIAL_RX_READY when a keyboard has input or has had no    *)
(* interrupt for SERIAL_TIMEOUT.  The kernel on the cores is reduced to    *)
(* what it asks of the machine: yield selects the one thread, which reads  *)
(* a terminal, or the idle thread; gain sets a timer; the idle thread      *)
(* halts the core.  (Module Sched has the scheduler in full.)              *)
(*                                                                         *)
(* Each step is what one host thread does without another one being able   *)
(* to tell: a signal handler is one step, taken where SIGUSR1 is not       *)
(* blocked.  select returns after SLOW_HZ at the latest, so it never       *)
(* blocks the PIC, and the signals that only cut it short are left out;    *)
(* so are the console, whose driver polls, and interrupts between cores,   *)
(* which the kernel does not send.                                         *)
(***************************************************************************)
EXTENDS ListOps, FiniteSets

CONSTANTS ncores,    \* cores are 0 .. ncores - 1
          FifoSize   \* bound: bytes in the FIFO of a keyboard

ASSUME MachineAssumption == ncores \in Nat \ {0} /\ FifoSize \in Nat

Cores == 0 .. ncores - 1

VARIABLES
  pc,             \* where each core is
  intpending,     \* core->intpending; SIGUSR1 is pending if there is one, or
                  \* finds nothing to dispatch
  int_disabled,   \* the cores whose thread has interrupts disabled, and SIGUSR1
                  \* blocked (yield, too, has them disabled, until gain)
  halted_list,    \* the halted cores
  timer,          \* the cores whose timer is set
  pic,            \* where the PIC daemon is; in its loop, also the cores to send
                  \* ALARM to and whether to send SERIAL_RX_READY
  PIC_active,
  kbd_ready,      \* kbd.ready
  fifo,           \* bytes in the keyboard's FIFO
  reader          \* the thread in serial_read

machineVars == <<pc, intpending, int_disabled, halted_list, timer, pic,
                 PIC_active, kbd_ready, fifo, reader>>
coreVars == <<pc, intpending, int_disabled, halted_list, timer>>
kbdVars == <<kbd_ready, fifo>>

\* The machine starts, and terminal_init with an empty FIFO.
vm_boot ==
  /\ pc = [c \in Cores |-> "boot"]
  /\ intpending = [c \in Cores |-> {}]
  /\ int_disabled = {} /\ halted_list = <<>>
  /\ timer = {}
  /\ pic = <<"boot">> /\ PIC_active = TRUE
  /\ kbd_ready = FALSE
  /\ fifo = 0
  /\ reader = "user"

Goto(c, label) == pc' = [pc EXCEPT ![c] = label]

\* The kernel runs on a core between the two barriers of bootfunc_wrapper.
Up(c) == pc[c] \notin {"boot", "left", "barrier", "off"}

-----------------------------------------------------------------------------
(* Barriers.                                                               *)

SystemBarrierBoot ==
  /\ pic = <<"boot">> /\ \A c \in Cores : pc[c] = "boot"
  /\ pic' = <<"select">>
  /\ pc' = [c \in Cores |-> "yield"]
  /\ UNCHANGED <<intpending, int_disabled, halted_list, timer,
                 PIC_active, kbdVars, reader>>

\* The core c cancels its timer, restarts every halted core and leaves the
\* scheduler when there is no thread left; then bootfunc_wrapper clears the
\* interrupt vector and deletes the timer.
Leave(c) ==
  /\ pc[c] = "run" /\ reader = "exited"
  /\ halted_list' = <<>>
  /\ pc' = [d \in Cores |-> IF d = c THEN "left"
                            ELSE IF pc[d] = "halted" THEN "restarted" ELSE pc[d]]
  /\ timer' = timer \ {c}
  /\ intpending' = [intpending EXCEPT ![c] = @ \ {"ALARM"}]
  /\ UNCHANGED <<int_disabled, pic, PIC_active, kbdVars, reader>>

\* core_barrier; then core 0 tells the PIC to stop.
CoreBarrier ==
  /\ \A c \in Cores : pc[c] = "left"
  /\ pc' = [c \in Cores |-> "barrier"]
  /\ PIC_active' = FALSE
  /\ UNCHANGED <<intpending, int_disabled, halted_list, timer,
                 pic, kbdVars, reader>>

\* The core threads end when the PIC has come to the barrier, too.
MutantSystemBarrierEnd ==                         \* mutant: PIC not waited for
  /\ \A c \in Cores : pc[c] = "barrier"
  /\ pc' = [c \in Cores |-> "off"]
  /\ UNCHANGED <<intpending, int_disabled, halted_list, timer,
                 pic, PIC_active, kbdVars, reader>>

SystemBarrierEnd ==
  /\ pic = <<"stopped">> /\ \A c \in Cores : pc[c] = "barrier"
  /\ pic' = <<"off">>
  /\ pc' = [c \in Cores |-> "off"]
  /\ UNCHANGED <<intpending, int_disabled, halted_list, timer,
                 PIC_active, kbdVars, reader>>

-----------------------------------------------------------------------------
(* Halting and restarting.                                                 *)

\* core_restart of the cores in S: they leave the list and their wait.
MutantCoreRestart(S) ==                           \* mutant: no rlist_remove
  /\ halted_list' = halted_list
  /\ pc' = [c \in Cores |-> IF c \in S /\ pc[c] = "halted" THEN "restarted" ELSE pc[c]]

core_restart(S) ==
  /\ halted_list' = Kept(halted_list, Cores \ S)
  /\ pc' = [c \in Cores |-> IF c \in S /\ pc[c] = "halted" THEN "restarted" ELSE pc[c]]

LastHalted(s) == IF s = <<>> THEN {} ELSE {Head(s)}

\* The idle thread halts its core, whatever has become ready since yield has
\* selected it: SIGUSR1 is blocked, and the core halts later.
Mask(c) ==
  /\ pc[c] = "run" /\ reader # "exited"
  /\ Goto(c, "halting")
  /\ UNCHANGED <<intpending, int_disabled, halted_list, timer, pic,
                 PIC_active, kbdVars, reader>>

Halt(c) ==
  /\ pc[c] = "halting"
  /\ Goto(c, "halted")
  /\ halted_list' = <<c>> \o halted_list
  /\ UNCHANGED <<intpending, int_disabled, timer, pic, PIC_active,
                 kbdVars, reader>>

-----------------------------------------------------------------------------
(* Interrupts.                                                             *)

\* The handler of ALARM is the first that is called, and yields: what else is
\* pending is dispatched when interrupts are next enabled.
Dispatched(c) == IF "ALARM" \in intpending[c] THEN {"ALARM"} ELSE intpending[c]

\* serial_rx_handler wakes the reader, and wakeup restarts a halted core.
RxWakes(c) == "RX" \in Dispatched(c) /\ reader = "asleep" /\ Up(c)

\* dispatch_interrupts on core c, which goes on at label.
dispatch_interrupts(c, label) ==
  /\ intpending' = [intpending EXCEPT ![c] = @ \ Dispatched(c)]
  /\ reader' = IF RxWakes(c) THEN "ready" ELSE reader
  /\ LET S == IF RxWakes(c) THEN LastHalted(halted_list) ELSE {}
     IN  /\ halted_list' = Kept(halted_list, Cores \ S)
         /\ pc' = [d \in Cores |-> IF d = c THEN label
                                   ELSE IF d \in S THEN "restarted" ELSE pc[d]]

\* The end of cpu_core_halt: SIGUSR1 is unblocked, which runs the handler if it
\* is pending, and what is pending is dispatched; then the idle thread yields.
HaltReturn(c) ==
  /\ pc[c] = "restarted"
  /\ dispatch_interrupts(c, "yield")
  /\ UNCHANGED <<int_disabled, timer, pic, PIC_active, kbdVars>>

\* The handler, anywhere SIGUSR1 is not blocked.  After bootfunc_wrapper has
\* cleared the interrupt vector it finds no handlers.
Masked(c) == c \in int_disabled \/ pc[c] \in {"gain", "halting", "halted", "restarted", "off"}

sigusr1_handler(c) ==
  /\ intpending[c] # {} /\ ~ Masked(c)
  /\ dispatch_interrupts(c, IF Up(c) /\ "ALARM" \in intpending[c] THEN "yield" ELSE pc[c])
  /\ UNCHANGED <<int_disabled, timer, pic, PIC_active, kbdVars>>

\* cpu_enable_interrupts at the end of a step of c that goes on at label.
Enable(c, label) ==
  /\ int_disabled' = int_disabled \ {c}
  /\ Goto(c, label)

-----------------------------------------------------------------------------
(* Timeslices.                                                             *)

\* yield cancels the timer and, with interrupts disabled, takes the thread that
\* is ready, which goes on in serial_read with interrupts still disabled, or
\* the one that runs, or the idle thread.
Select(c) ==
  /\ pc[c] = "yield"
  /\ Goto(c, "gain")
  /\ timer' = timer \ {c}
  /\ intpending' = [intpending EXCEPT ![c] = @ \ {"ALARM"}]
  /\ IF reader = "ready" THEN reader' = "reading" /\ int_disabled' = int_disabled \cup {c}
     ELSE UNCHANGED <<reader, int_disabled>>
  /\ UNCHANGED <<halted_list, pic, PIC_active, kbdVars>>

\* gain enables interrupts, unless the thread has them disabled: what is pending
\* is dispatched.
Gain(c) ==
  /\ pc[c] = "gain"
  /\ IF c \in int_disabled
     THEN Goto(c, "set") /\ UNCHANGED <<intpending, halted_list, reader>>
     ELSE dispatch_interrupts(c, IF "ALARM" \in intpending[c] THEN "yield" ELSE "set")
  /\ UNCHANGED <<int_disabled, timer, pic, PIC_active, kbdVars>>

\* It starts the timeslice with bios_set_timer, which forgets an ALARM that is
\* pending only after it has set the timer.
SetTimer(c) ==
  /\ pc[c] = "set"
  /\ Goto(c, "timer")
  /\ timer' = timer \cup {c}
  /\ UNCHANGED <<intpending, int_disabled, halted_list, pic, PIC_active,
                 kbdVars, reader>>

TimerSet(c) ==
  /\ pc[c] = "timer"
  /\ intpending' = [intpending EXCEPT ![c] = @ \ {"ALARM"}]
  /\ Goto(c, IF c \in int_disabled THEN "read" ELSE "run")
  /\ UNCHANGED <<int_disabled, halted_list, timer, pic, PIC_active,
                 kbdVars, reader>>

-----------------------------------------------------------------------------
(* The PIC daemon.                                                         *)

\* One turn of the loop starts: PIC_active is read, and select reports the cores
\* S whose timers have expired and the keyboard if it is not ready and has
\* input; late says that SERIAL_TIMEOUT has passed since its last interrupt.
MutantPicSelect(S, late) ==                       \* mutant: no SERIAL_TIMEOUT
  /\ pic = <<"select">> /\ PIC_active
  /\ pic' = <<"raise", S, ~ kbd_ready /\ fifo > 0>>
  /\ timer' = timer \ S
  /\ UNCHANGED <<pc, intpending, int_disabled, halted_list, PIC_active, kbdVars, reader>>

PicSelect(S, late) ==
  /\ pic = <<"select">> /\ PIC_active
  /\ pic' = <<"raise", S, (~ kbd_ready /\ fifo > 0) \/ late>>
  /\ timer' = timer \ S
  /\ UNCHANGED <<pc, intpending, int_disabled, halted_list, PIC_active, kbdVars, reader>>

PicStop ==
  /\ pic = <<"select">> /\ ~ PIC_active
  /\ pic' = <<"stopped">>
  /\ UNCHANGED <<coreVars, PIC_active, kbdVars, reader>>

\* raise_interrupt: the flag, the signal and cpu_core_restart.
raise_interrupt(c, intno) ==
  /\ intpending' = [intpending EXCEPT ![c] = @ \cup {intno}]
  /\ core_restart({c})

\* Timers have priority.
PicAlarm ==
  /\ pic[1] = "raise"
  /\ \E c \in pic[2] : /\ raise_interrupt(c, "ALARM")
                        /\ pic' = [pic EXCEPT ![2] = @ \ {c}]
  /\ UNCHANGED <<int_disabled, timer, PIC_active, kbdVars, reader>>

\* The keyboard, whose interrupts go to core 0.
PicSerial ==
  /\ pic[1] = "raise" /\ pic[2] = {}
  /\ pic' = <<"select">>
  /\ IF pic[3] THEN raise_interrupt(0, "RX") /\ kbd_ready' = TRUE
     ELSE UNCHANGED <<pc, intpending, halted_list, kbd_ready>>
  /\ UNCHANGED <<int_disabled, timer, PIC_active, fifo, reader>>

-----------------------------------------------------------------------------
(* The world: somebody types.                                              *)

Type ==
  /\ fifo < FifoSize
  /\ fifo' = fifo + 1
  /\ UNCHANGED <<coreVars, pic, PIC_active, kbd_ready, reader>>

-----------------------------------------------------------------------------
(* serial_read, with preemption off, on the core that runs the thread.     *)

\* The thread calls Read.
serial_read(c) ==
  /\ pc[c] = "run" /\ reader = "user"
  /\ reader' = "reading"
  /\ Goto(c, "read")
  /\ int_disabled' = int_disabled \cup {c}
  /\ UNCHANGED <<intpending, halted_list, timer, pic, PIC_active, kbdVars>>

\* bios_read_serial gives a byte: Read goes on if its buffer has more room.
ReadByte(c) ==
  /\ pc[c] \in {"read", "more"} /\ fifo > 0
  /\ fifo' = fifo - 1
  /\ \/ reader' = "user" /\ Enable(c, "run")
     \/ Goto(c, "more") /\ UNCHANGED <<reader, int_disabled>>
  /\ UNCHANGED <<intpending, halted_list, timer, pic, PIC_active,
                 kbd_ready>>

\* Or the device is not ready any more: a Read that has bytes returns them.
ReadFails(c) ==
  /\ pc[c] \in {"read", "more"} /\ fifo = 0
  /\ kbd_ready' = FALSE
  /\ IF pc[c] = "more" THEN reader' = "user" /\ Enable(c, "run")
     ELSE Goto(c, "failed") /\ UNCHANGED <<reader, int_disabled>>
  /\ UNCHANGED <<intpending, halted_list, timer, pic, PIC_active,
                 fifo>>

\* kernel_wait(rx_ready): only now a broadcast finds the thread.
ReadSleeps(c) ==
  /\ pc[c] = "failed"
  /\ reader' = "asleep"
  /\ Enable(c, "yield")
  /\ UNCHANGED <<intpending, halted_list, timer, pic, PIC_active, kbdVars>>

\* The thread, the last one of the system, ends.
ReaderExits(c) ==
  /\ pc[c] = "run" /\ reader = "user"
  /\ reader' = "exited"
  /\ Goto(c, "yield")
  /\ UNCHANGED <<intpending, int_disabled, halted_list, timer, pic,
                 PIC_active, kbdVars>>

-----------------------------------------------------------------------------
CoreStep(c) ==
  \/ Select(c) \/ Gain(c) \/ SetTimer(c) \/ TimerSet(c) \/ Mask(c) \/ Halt(c) \/ HaltReturn(c)
  \/ ReadByte(c) \/ ReadFails(c) \/ ReadSleeps(c) \/ Leave(c)

KernelChoice(c) == serial_read(c) \/ ReaderExits(c)

Barriers == SystemBarrierBoot \/ CoreBarrier \/ SystemBarrierEnd

PicStep ==
  \/ \E S \in SUBSET timer, late \in BOOLEAN : PicSelect(S, late)
  \/ PicStop \/ PicAlarm \/ PicSerial

MachineNext ==
  \/ \E c \in Cores : CoreStep(c) \/ KernelChoice(c) \/ sigusr1_handler(c)
  \/ Barriers \/ PicStep \/ Type

MachineSpec == vm_boot /\ [][MachineNext]_machineVars

\* Host threads run, signals are delivered and time passes, SERIAL_TIMEOUT too;
\* a core whose thread goes on for ever is not kept from halting.
FairSpec ==
  /\ MachineSpec
  /\ \A c \in Cores :
       WF_machineVars(CoreStep(c)) /\ SF_machineVars(sigusr1_handler(c))
  /\ WF_machineVars(Barriers) /\ WF_machineVars(PicStep)
  /\ SF_machineVars(\E S \in SUBSET timer : PicSelect(S, TRUE))

-----------------------------------------------------------------------------
(* Properties.                                                             *)

MachineTypeOK ==
  /\ pc \in [Cores -> {"boot", "yield", "gain", "set", "timer", "run", "halting", "halted",
                       "restarted", "read", "more", "failed", "left", "barrier", "off"}]
  /\ intpending \in [Cores -> SUBSET {"ALARM", "RX"}]
  /\ int_disabled \subseteq Cores /\ timer \subseteq Cores
  /\ fifo \in 0 .. FifoSize
  /\ reader \in {"user", "reading", "asleep", "ready", "exited"}

\* The list of halted cores holds each core that waits in cpu_core_halt, once,
\* whoever restarts cores meanwhile (the PIC, a wakeup, a core that leaves);
\* a core has interrupts off in serial_read, or when it has been given the thread
\* that sleeps there and starts its timeslice: the one that the reader is on.
MachineInv ==
  /\ MachineTypeOK
  /\ IsInjective(halted_list)
  /\ ToSet(halted_list) = {c \in Cores : pc[c] = "halted"}
  /\ {c \in Cores : pc[c] \in {"read", "more", "failed"}} \subseteq int_disabled
  /\ \A c \in int_disabled : pc[c] \in {"gain", "set", "timer", "read", "more", "failed"}
  /\ Cardinality(int_disabled) = IF reader = "reading" THEN 1 ELSE 0

\* The PIC signals and restarts a core only while its thread exists, and stops
\* only when each core has left the kernel: the two barriers order the end.
NoLateSignal ==
  /\ pic[1] \in {"select", "raise"} =>
       \A c \in Cores : pc[c] \notin {"boot", "off"}
  /\ ~ PIC_active => \A c \in Cores : ~ Up(c)
  /\ (\E c \in Cores : pc[c] = "off") => pic = <<"off">>

\* A byte reaches the thread that waits in serial_read, even if its interrupt
\* came before the thread was asleep and found nobody, and even if every core
\* has halted since: SERIAL_TIMEOUT raises it again.
ReaderGets == (fifo > 0 /\ reader \in {"asleep", "ready"}) ~> (reader \in {"reading", "user"})
=============================================================================
