------------------------------- MODULE Shell -------------------------------
(***************************************************************************)
(* The shell of tinyos_shell.c: boot_shell starts one on each terminal;    *)
(* Shell reads lines, and process_line runs the fragments of a line as     *)
(* processes that pipes connect, and waits for them.                       *)
(*                                                                         *)
(* A line is a sequence of the kinds of its programs: "source" writes      *)
(* without reading (echo, ls), "filter" copies its input to its output up  *)
(* to the end of it (cap, lcase, lenum, more), "quits" ends before the end *)
(* of its input, "none" is a command that does not exist or an empty       *)
(* fragment.  A system call is atomic; a child gets a copy of the          *)
(* descriptors its parent has at Exec, and gives all up when it exits.     *)
(***************************************************************************)
EXTENDS Naturals, Sequences, FiniteSetsExt

CONSTANTS Terms,        \* terminals 0 .. Terms - 1
          MAX_FILEID,
          PipeSize,     \* bound: bytes a pipe holds
          Output,       \* bound: bytes a source writes, a terminal gives
          MaxFrag,      \* bound: fragments of a line
          MaxLines      \* bound: lines typed

Kinds == {"source", "filter", "quits"}
Fids == 0 .. MAX_FILEID - 1
Frags == 1 .. MaxFrag
Closed == <<"closed", 0>>
NoChild == [at |-> "none"]

VARIABLES
  at,        \* where the shell is
  booted,    \* shells that boot_shell has started: their descriptors
  FIDT,      \* the descriptors of boot_shell, then of the shell
  line,      \* the kinds of the programs of the line
  frag,      \* the fragment at hand
  save,      \* savein and saveout
  rd,        \* pipe.read
  child,     \* child[i]: the process of fragment i
  got,       \* child[i] = NOPROC is FALSE: Exec worked
  data,      \* bytes in the pipe behind fragment i
  lines,     \* lines typed
  early      \* a program of the line has ended before the end of its input, or
             \* could not be started

vars == <<at, booted, FIDT, line, frag, save, rd, child, got, data, lines, early>>

-----------------------------------------------------------------------------
(* Descriptors.                                                            *)

Lowest(ft) == Min({f \in Fids : ft[f] = Closed})

Open(ft, s) == [ft EXCEPT ![Lowest(ft)] = s]

Dup2(ft, old, new) == IF ft[old] = Closed THEN ft ELSE [ft EXCEPT ![new] = ft[old]]

Close(ft, f) == [ft EXCEPT ![f] = Closed]

Move(ft, old, new) == Close(Dup2(ft, old, new), old)

NoFiles == [f \in Fids |-> Closed]

\* savefid opens a descriptor and makes it a copy of f.
savefid(ft, f) == Dup2(Open(ft, <<"null", 0>>), f, Lowest(ft))

\* An end of a pipe is open as long as the shell or a child has it.
IsOpen(s) ==
  \/ \E f \in Fids : FIDT[f] = s
  \/ \E i \in Frags : child[i].at \notin {"none", "exited"}
                      /\ \E f \in Fids : child[i].FIDT[f] = s

-----------------------------------------------------------------------------
(* boot_shell.                                                             *)

Init ==
  /\ at = "boot" /\ booted = <<>> /\ FIDT = NoFiles
  /\ line = <<>> /\ frag = 0 /\ save = <<0, 0>> /\ rd = 0
  /\ child = [i \in Frags |-> NoChild] /\ got = [i \in Frags |-> FALSE]
  /\ data = [i \in Frags |-> 0]
  /\ lines = 0 /\ early = FALSE

\* OpenTerminal(t) as f, unless it already is.
OpenAs(ft, t, f) ==
  LET fid == Lowest(ft)
      open == Open(ft, <<"term", t>>)
  IN  IF fid = f THEN open ELSE Move(open, fid, f)

BootShell ==
  /\ at = "boot" /\ Len(booted) < Terms
  /\ LET ft == OpenAs(OpenAs(FIDT, Len(booted), 0), Len(booted), 1)
     IN  booted' = Append(booted, ft) /\ FIDT' = Close(ft, 0)
  /\ UNCHANGED <<at, line, frag, save, rd, child, got, data, lines, early>>

\* From here on, one of the shells.
RunShell ==
  /\ at = "boot" /\ Len(booted) = Terms
  /\ \E t \in 1 .. Terms : FIDT' = booted[t]
  /\ at' = "prompt"
  /\ UNCHANGED <<booted, line, frag, save, rd, child, got, data, lines, early>>

-----------------------------------------------------------------------------
(* Shell and process_line.                                                 *)

\* getline and process_line up to its checks.  An empty line, a builtin, a line
\* with an empty fragment or an unknown command bring back the prompt.
ReadLine(l) ==
  /\ at = "prompt" /\ lines < MaxLines
  /\ lines' = lines + 1
  /\ IF l # <<>> /\ \A i \in DOMAIN l : l[i] # "none"
     THEN /\ at' = "before" /\ line' = l /\ frag' = 1
          /\ FIDT' = savefid(savefid(FIDT, 0), 1)
          /\ save' = <<Lowest(FIDT), Lowest(savefid(FIDT, 0))>>
     ELSE UNCHANGED <<at, line, frag, FIDT, save>>
  /\ early' = FALSE
  /\ UNCHANGED <<booted, rd, child, got, data>>

\* exit, or the end of the input.
ShellExits ==
  /\ at = "prompt"
  /\ at' = "finished" /\ FIDT' = NoFiles
  /\ UNCHANGED <<booted, line, frag, save, rd, child, got, data, lines, early>>

\* Pipe, and its write end as standard output; or the saved one again.
MutantToPipe(i) ==                                \* mutant: pipe.write not closed
  LET two == Open(Open(FIDT, <<"r", i>>), <<"w", i>>)
  IN  Dup2(two, Lowest(Open(FIDT, <<"r", i>>)), 1)

ToPipe(i) ==
  LET two == Open(Open(FIDT, <<"r", i>>), <<"w", i>>)
  IN  Move(two, Lowest(Open(FIDT, <<"r", i>>)), 1)

Before ==
  /\ at = "before"
  /\ IF frag < Len(line)
     THEN /\ FIDT' = ToPipe(frag) /\ rd' = Lowest(FIDT)
          /\ data' = [data EXCEPT ![frag] = 0]
     ELSE FIDT' = Move(FIDT, save[2], 1) /\ UNCHANGED <<rd, data>>
  /\ at' = "execute"
  /\ UNCHANGED <<booted, line, frag, save, child, got, lines, early>>

\* Execute; nobody looks whether Exec has failed.
Execute ==
  /\ at = "execute"
  /\ at' = "after"
  /\ \/ /\ child' = [child EXCEPT ![frag] =
             [at |-> IF line[frag] = "source" THEN "write" ELSE "read",
              FIDT |-> FIDT, left |-> Output]]
        /\ got' = [got EXCEPT ![frag] = TRUE] /\ UNCHANGED early
     \/ /\ got' = [got EXCEPT ![frag] = FALSE] /\ early' = TRUE
        /\ UNCHANGED child
  /\ UNCHANGED <<booted, FIDT, line, frag, save, rd, data, lines>>

\* The saved standard input again.
MutantRestoreIn(ft) == Dup2(ft, save[1], 0)       \* mutant: savein not closed

RestoreIn(ft) == Move(ft, save[1], 0)

\* The read end as standard input, or the saved one again.
After ==
  /\ at = "after"
  /\ IF frag < Len(line)
     THEN FIDT' = Move(FIDT, rd, 0) /\ at' = "before" /\ frag' = frag + 1
     ELSE FIDT' = RestoreIn(FIDT) /\ at' = "wait" /\ frag' = 1
  /\ UNCHANGED <<booted, line, save, rd, child, got, data, lines, early>>

\* WaitChild(child[i]): if it is NOPROC any child will do; without one that it
\* can wait for the call fails at once.
Waited(i) == IF got[i] THEN {i} ELSE Frags

WaitChild ==
  /\ at = "wait"
  /\ LET alive == {i \in Waited(frag) : child[i].at # "none"}
     IN  \/ alive = {} /\ UNCHANGED child
         \/ \E i \in alive : child[i].at = "exited" /\ child' = [child EXCEPT ![i] = NoChild]
  /\ IF frag < Len(line) THEN frag' = frag + 1 /\ UNCHANGED at
     ELSE at' = "prompt" /\ UNCHANGED frag
  /\ UNCHANGED <<booted, FIDT, line, save, rd, got, data, lines, early>>

-----------------------------------------------------------------------------
(* The programs of a line.                                                 *)

Goto(i, label, left) == child' = [child EXCEPT ![i].at = label, ![i].left = left]

\* Read: from a pipe, a byte, or the end when nobody can write any more; from a
\* terminal, what is typed there.
ProgramReads(i) ==
  /\ child[i].at = "read"
  /\ LET s == child[i].FIDT[0]
     IN  \/ /\ s[1] = "r" /\ data[s[2]] > 0
            /\ data' = [data EXCEPT ![s[2]] = @ - 1]
            /\ Goto(i, "write", child[i].left)
         \/ /\ s[1] = "r" /\ data[s[2]] = 0 /\ ~ IsOpen(<<"w", s[2]>>)
            /\ Goto(i, "exit", child[i].left)
            /\ UNCHANGED data
         \/ /\ s[1] # "r" /\ child[i].left > 0
            /\ Goto(i, "write", child[i].left - 1) /\ UNCHANGED data
         \/ /\ s[1] # "r" /\ Goto(i, "exit", child[i].left) /\ UNCHANGED data
  /\ UNCHANGED <<at, booted, FIDT, line, frag, save, rd, got, lines, early>>

\* Write: to a pipe that has room; it fails when nobody can read any more.
ProgramWrites(i) ==
  /\ child[i].at = "write"
  /\ LET s == child[i].FIDT[1]
         source == line[i] = "source"
         next == IF ~ source THEN "read" ELSE IF child[i].left > 1 THEN "write" ELSE "exit"
     IN  /\ Goto(i, next, IF source THEN child[i].left - 1 ELSE child[i].left)
         /\ \/ s[1] = "w" /\ IsOpen(<<"r", s[2]>>) /\ data[s[2]] < PipeSize
               /\ data' = [data EXCEPT ![s[2]] = @ + 1]
            \/ (s[1] # "w" \/ ~ IsOpen(<<"r", s[2]>>)) /\ UNCHANGED data
  /\ UNCHANGED <<at, booted, FIDT, line, frag, save, rd, got, lines, early>>

\* A program that does not want the rest of its input.
ProgramQuits(i) ==
  /\ child[i].at = "read" /\ line[i] = "quits"
  /\ Goto(i, "exit", 0)
  /\ early' = TRUE
  /\ UNCHANGED <<at, booted, FIDT, line, frag, save, rd, got, data, lines>>

\* Exit closes every descriptor.
ProgramExits(i) ==
  /\ child[i].at = "exit"
  /\ child' = [child EXCEPT ![i].at = "exited", ![i].FIDT = NoFiles]
  /\ early' = (early \/ (line[i] = "source" /\ i > 1))
  /\ UNCHANGED <<at, booted, FIDT, line, frag, save, rd, got, data, lines>>

Program(i) == ProgramReads(i) \/ ProgramWrites(i) \/ ProgramExits(i)

-----------------------------------------------------------------------------
Lines == {<<"none">>} \cup (UNION {[1 .. n -> Kinds] : n \in Frags})

process_line == Before \/ Execute \/ After \/ WaitChild

Next ==
  \/ BootShell \/ RunShell \/ process_line \/ ShellExits
  \/ \E l \in Lines : ReadLine(l)
  \/ \E i \in Frags : Program(i) \/ ProgramQuits(i)

-----------------------------------------------------------------------------
(* Properties.                                                             *)

Own(t, ft) == ft = [NoFiles EXCEPT ![0] = <<"term", t>>, ![1] = <<"term", t>>]

\* Each program of a line has the neighbours' pipes as input and output, the
\* first and the last one the terminal, and no other write end, by which it
\* would wait for its own end of input.
Running(i) == child[i].at \notin {"none", "exited"}

Wired ==
  \A i \in {j \in Frags : Running(j)} :
    LET ft == child[i].FIDT
    IN  /\ IF i = 1 THEN ft[0][1] = "term" ELSE ft[0] = <<"r", i - 1>>
        /\ IF i = Len(line) THEN ft[1][1] = "term" ELSE ft[1] = <<"w", i>>
        /\ \A f \in Fids \ {1} : ft[f][1] # "w"

\* Each shell starts with its own terminal and nothing else; process_line wires
\* the programs, and gives the shell back exactly its descriptors, in a pipeline
\* as for a single program and whatever failed; and no child is left when it is
\* done.
ShellInv ==
  /\ \A t \in DOMAIN booted : Own(t - 1, booted[t])
  /\ at \in {"prompt", "wait"} => \E t \in 0 .. Terms - 1 : Own(t, FIDT)
  /\ at = "prompt" => \A i \in Frags : child[i] = NoChild
  /\ \A i \in Frags : data[i] \in 0 .. PipeSize
  /\ Wired

\* A line whose programs read their input to its end comes back to the prompt.
\* (A writer keeps the read end of its own pipe, which the shell had open when
\* it started it: without a reader it blocks on a full pipe for ever.)
LineEnds == (at = "wait" /\ ~ early) ~> (at # "wait" \/ early)
=============================================================================
