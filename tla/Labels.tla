------------------------------- MODULE Labels -------------------------------
(***************************************************************************)
(* What a failure is told under: the step's name, taken from the verb that *)
(* called Do, Get, Try or Attempt (do.go), and the frames kept of a panic's *)
(* stack (executor.go).  Both count or search the frames of a goroutine,   *)
(* innermost first, where one off names the wrong function or none.        *)
(*                                                                         *)
(* A function's symbol is a sequence of tokens: "/", ".", "[", "]", "-fm"  *)
(* and the words between them.  The runtime writes type arguments "[...]". *)
(***************************************************************************)
EXTENDS Naturals, Sequences, SequencesExt

CONSTANTS
    Ordinals,       \* the words the compiler names closures with: func1, 2
    Depths          \* the buffers panicStack tries, one after the other

ASSUME DepthsAssumption == Depths \in Seq(Nat \ {0})

-----------------------------------------------------------------------------
(***************************************************************************)
(* The verb's name.                                                        *)
(***************************************************************************)

AfterLastSlash(s) == SubSeq(s, SelectLastInSeq(s, LAMBDA x : x = "/") + 1, Len(s))

\* One token more, outside brackets or in so many.
Unbracket(acc, x) ==
    CASE x = "["                  -> [acc EXCEPT !.depth = @ + 1]
      [] x = "]" /\ acc.depth > 0 -> [acc EXCEPT !.depth = @ - 1]
      [] OTHER                    -> IF acc.depth > 0 THEN acc
                                     ELSE [acc EXCEPT !.out = Append(@, x)]

WithoutBrackets(s) == FoldLeft(Unbracket, [depth |-> 0, out |-> <<>>], s).out

WithoutMethodValue(s) == IF s # <<>> /\ Last(s) = "-fm" THEN Front(s) ELSE s

\* What lies between the dots.
Split(acc, x) ==
    IF x = "." THEN Append(acc, <<>>) ELSE [acc EXCEPT ![Len(acc)] = Append(@, x)]

Segments(s) == FoldLeft(Split, << <<>> >>, s)

IsClosureOrdinal(segment) == Len(segment) = 1 /\ segment[1] \in Ordinals

\* The last segment that is none of a closure's, or else the first.
FunctionSegment(segments) ==
    LET n == SelectLastInSeq(segments, LAMBDA g : ~IsClosureOrdinal(g))
    IN  IF n = 0 THEN segments[1] ELSE segments[n]

\* A plausible bug, not in the code: type arguments are left in.
BugSplitsTypeArguments(s) == FunctionSegment(Segments(WithoutMethodValue(AfterLastSlash(s))))

BareName(s) ==
    FunctionSegment(Segments(WithoutMethodValue(WithoutBrackets(AfterLastSlash(s)))))

\* How many frames verbLabel skips: Callers, callerName, verbLabel and the entry.
VerbFrames == 4

CallerName(stack, skip) == IF skip < Len(stack) THEN BareName(stack[skip + 1]) ELSE <<>>

\* The name, or "step" without one, and the role.
VerbLabel(stack, role) ==
    LET name == CallerName(stack, VerbFrames)
    IN  (IF name = <<>> THEN <<"step">> ELSE name) \o role

\* A Step's own name goes before the verb's.
DoAs(label, own) == IF own # <<>> THEN own ELSE label

-----------------------------------------------------------------------------
(***************************************************************************)
(* The frames of a panic.                                                  *)
(***************************************************************************)

\* Frames of the runtime; gopanic is the one a panic enters by.
RuntimeFrames == {"gopanic", "runtime"}

\* What one buffer shows: the frames between the panic's entry and the executor,
\* without the runtime's that raised it.  Not ok where the buffer was too small.
TrimmedStack(stack, depth) ==
    LET buf == SubSeq(stack, 1, IF Len(stack) < depth THEN Len(stack) ELSE depth)
        entry == SelectInSeq(buf, LAMBDA f : f = "gopanic")
        executor == SelectInSubSeq(buf, entry + 1, Len(buf), LAMBDA f : f = "run")
        first == SelectInSubSeq(buf, entry + 1, executor - 1, LAMBDA f : f \notin RuntimeFrames)
    IN  IF entry = 0 \/ executor = 0 THEN [frames |-> <<>>, ok |-> Len(buf) < depth]
        ELSE [frames |-> IF first = 0 THEN <<>> ELSE SubSeq(buf, first, executor - 1), ok |-> TRUE]

\* A plausible bug, not in the code: what the first buffer shows is all there is.
BugFirstBufferOnly(stack) == TrimmedStack(stack, Depths[1]).frames

PanicStack(stack) ==
    LET n == SelectInSeq(Depths, LAMBDA d : TrimmedStack(stack, d).ok)
    IN  IF n = 0 THEN <<>> ELSE TrimmedStack(stack, Depths[n]).frames

-----------------------------------------------------------------------------
(***************************************************************************)
(* What they are to find, for functions and stacks put together from their *)
(* parts.                                                                  *)
(***************************************************************************)

\* The symbol of f, a function, a method, a closure in either or a method value.
Symbol(f) ==
    f.path \o FlattenSeq([i \in DOMAIN f.receiver |-> <<".">> \o f.receiver[i]]) \o <<".", f.name>>
      \o (IF f.generic THEN <<"[", ".", ".", ".", "]">> ELSE <<>>)
      \o FlattenSeq([i \in DOMAIN f.closures |-> <<".", f.closures[i]>>])
      \o (IF f.value THEN <<"-fm">> ELSE <<>>)

Own(name) == <<"mokkit", ".", name>>

\* The goroutine in runtime.Callers, for the verb f that called `entry'.
VerbStack(entry, f) ==
    << <<"runtime", ".", "Callers">>, Own("callerName"), Own("verbLabel"), Own(entry),
       Symbol(f), <<"main", ".", "Test">> >>

\* The goroutine in panicStack: the unwinding, the panic as the runtime raised it,
\* the step's own frames, the executor, and whatever called that.
PanickedStack(p) ==
    p.unwinding \o <<"gopanic">> \o p.raising \o p.own \o <<"run">> \o p.below

StepFrames(p) ==
    IF \E i \in DOMAIN Depths : Len(PanickedStack(p)) - Len(p.below) <= Depths[i]
    THEN p.own ELSE <<>>
=============================================================================
