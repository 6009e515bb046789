------------------------------ MODULE MCChain ------------------------------
(***************************************************************************)
(* Chain with the names its steps are told under: the functions a verb can *)
(* be, and the stacks a step can panic on.                                 *)
(***************************************************************************)
EXTENDS Chain, Labels

\* What isClosureOrdinal takes for a closure's name, digits alone or after "func", and
\* what it does not.
ASSUME OrdinalsAssumption == {"func1", "2"} \subseteq Ordinals /\ "UserExists" \notin Ordinals

MCVerbs ==
    [path     : {<<"main">>, <<"example", ".", "com", "/", "app">>},
     receiver : {<<>>, << <<"Arrange">> >>, << <<"(*Box", "[", ".", ".", ".", "]", ")">> >>},
     name     : {"UserExists"},
     generic  : BOOLEAN,
     closures : {<<>>, <<"func1">>, <<"func1", "2">>},
     value    : BOOLEAN]

\* Buffers small enough to be outgrown.
MCDepths == <<4, 7>>

MCEntries == {"Do", "Get", "Try", "Attempt"}
MCRoles   == {<<>>, <<"[", "Buyer", "]">>}

\* The step's frames begin with its own; a panic it raised again while unwinding
\* from another leaves the runtime's among them.
MCPanics ==
    [unwinding : {<<"defer">>, <<"defer", "runtime">>},
     raising   : {<<>>, <<"runtime">>},
     own       : {<<"verb">> \o s : s \in SeqOf({"verb", "runtime", "gopanic"}, 3)},
     below     : {<<>>, <<"test">>, <<"run", "test">>}]

NamesAreTheVerbs ==
    \A f \in MCVerbs, entry \in MCEntries, role \in MCRoles, own \in {<<>>, <<"own">>} :
        DoAs(VerbLabel(VerbStack(entry, f), role), own)
            = IF own = <<>> THEN <<f.name>> \o role ELSE own

StacksAreTheSteps == \A p \in MCPanics : PanicStack(PanickedStack(p)) = StepFrames(p)

\* "The step is named after the verb that called Do; a Step keeps its own name"
\* (do.go:33): whatever the verb is, a function or a method, generic or not, a
\* closure in one or a method value.
StepsAreNamedForTheirVerb == pc = "body" => NamesAreTheVerbs

\* A panic's report has "the frames between the panic and the executor that caught
\* it" (executor.go:68-69), all of them and nothing else, or none where the stack is
\* deeper than the last buffer.
StackIsTheStepsOwn == (\E r \in Runners : run[r].err = "panic") => StacksAreTheSteps
=============================================================================
