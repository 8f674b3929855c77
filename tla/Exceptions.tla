----------------------------- MODULE Exceptions -----------------------------
(***************************************************************************)
(* The exceptions of util.h and util.c: TRY_WITH blocks that nest, each    *)
(* with the handlers its ON_ERROR and FINALLY statements have installed,   *)
(* and raise_exception, which jumps to the innermost block.  A handler may *)
(* raise as well: the jump then abandons the exception_unwind that had     *)
(* called it and starts another one for the same block.                    *)
(***************************************************************************)
EXTENDS Naturals, Sequences, FiniteSets

CONSTANTS Depth,      \* bound: blocks that nest
          Handlers    \* bound: handlers a block installs of each kind

VARIABLES
  context,   \* the exception stack, innermost block first
  unwind,    \* the exception_unwind in progress
  ran,       \* ran of the top block's handlers, in order: <<kind, index>>
  tries      \* blocks entered, up to the bound

vars == <<context, unwind, ran, tries>>

\* catchers and finalizers: the handlers of each kind that are linked; installed:
\* how many have been; ended: the body has reached its end.  A handler is its
\* index, the last installed is the head.
Frame == [catchers |-> <<>>, finalizers |-> <<>>,
          installed |-> [catchers |-> 0, finalizers |-> 0], ended |-> FALSE]

Idle == [at |-> "none"]

Init == context = <<>> /\ unwind = Idle /\ ran = <<>> /\ tries = 0

Top == context[1]

\* The jump to the block at the top of stack, if there is one.
raise_exception(stack) ==
  /\ context' = stack
  /\ unwind' = IF stack = <<>> THEN Idle
               ELSE [at |-> "loop", errcode |-> 1, captured |-> FALSE]

\* TRY_WITH.
Try ==
  /\ unwind = Idle /\ Len(context) < Depth /\ tries < Depth + 1
  /\ context' = <<Frame>> \o context
  /\ tries' = tries + 1
  /\ ran' = <<>>
  /\ UNCHANGED unwind

\* ON_ERROR or FINALLY: the handler becomes the first of its list.
Install(kind) ==
  /\ unwind = Idle /\ context # <<>> /\ Top.installed[kind] < Handlers
  /\ context' = [context EXCEPT ![1].installed[kind] = @ + 1,
                                ![1][kind] = <<Top.installed[kind] + 1>> \o @]
  /\ UNCHANGED <<unwind, ran, tries>>

\* The body of the innermost block raises.
Raise ==
  /\ unwind = Idle /\ context # <<>>
  /\ raise_exception(context)
  /\ UNCHANGED <<ran, tries>>

\* The body is at its end: the catchers are thrown away.
__exc_exit_try ==
  /\ unwind = Idle /\ context # <<>>
  /\ context' = [context EXCEPT ![1].catchers = <<>>, ![1].ended = TRUE]
  /\ unwind' = [at |-> "loop", errcode |-> 0, captured |-> FALSE]
  /\ UNCHANGED <<ran, tries>>

-----------------------------------------------------------------------------
(* exception_unwind.                                                       *)

\* The next handler: popped from its list, then called.
MutantUnlink(kind) == Top[kind]                   \* mutant: popped after the call

Unlink(kind) == Tail(Top[kind])

CallHandler(kind) ==
  /\ Top[kind] # <<>>
  /\ context' = [context EXCEPT ![1][kind] = Unlink(kind)]
  /\ unwind' = [unwind EXCEPT !.at = "handler", !.captured = @ \/ kind = "catchers"]
  /\ ran' = Append(ran, <<kind, Head(Top[kind])>>)
  /\ UNCHANGED tries

Catch == unwind.at = "loop" /\ CallHandler("catchers")

Finalize == unwind.at = "loop" /\ Top.catchers = <<>> /\ CallHandler("finalizers")

HandlerReturns ==
  /\ unwind.at = "handler"
  /\ unwind' = [unwind EXCEPT !.at = "loop"]
  /\ UNCHANGED <<context, ran, tries>>

HandlerRaises ==
  /\ unwind.at = "handler"
  /\ raise_exception(context)
  /\ UNCHANGED <<ran, tries>>

\* The block is popped; an exception no catcher has had goes to the next one.
PopFrame ==
  /\ unwind.at = "loop" /\ Top.catchers = <<>> /\ Top.finalizers = <<>>
  /\ IF unwind.errcode = 1 /\ ~ unwind.captured THEN raise_exception(Tail(context))
     ELSE context' = Tail(context) /\ unwind' = Idle
  /\ ran' = <<>>
  /\ UNCHANGED tries

Unwinding == Catch \/ Finalize \/ HandlerReturns \/ HandlerRaises \/ PopFrame

Next ==
  \/ Try \/ Raise \/ __exc_exit_try \/ Unwinding
  \/ \E kind \in {"catchers", "finalizers"} : Install(kind)

-----------------------------------------------------------------------------
(* Properties.                                                             *)

Before(kind) == {i \in 1 .. Len(ran) : ran[i][1] = kind}

\* However handlers raise, when a block is popped every finalizer it has
\* installed has run, and every catcher unless the body had reached its end, each
\* of them once, catchers before finalizers, the last installed first.  (Which
\* exceptions go on to the next block is not a part: when the last catcher, or a
\* finalizer, raises, captured starts from 0 again and the exception goes on, in
\* spite of util.h:784-787, which has it handled by a catcher that did execute.)
UnwindInv ==
  /\ \A i, j \in 1 .. Len(ran) : i < j =>
       \/ ran[i][1] = ran[j][1] /\ ran[i][2] > ran[j][2]
       \/ ran[i][1] = "catchers" /\ ran[j][1] = "finalizers"
  /\ unwind.at = "loop" /\ Top.catchers = <<>> /\ Top.finalizers = <<>> =>
       /\ Cardinality(Before("finalizers")) = Top.installed.finalizers
       /\ Cardinality(Before("catchers")) =
            IF Top.ended THEN 0 ELSE Top.installed.catchers
=============================================================================
