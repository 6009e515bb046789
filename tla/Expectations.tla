---------------------------- MODULE Expectations ----------------------------
(***************************************************************************)
(* A test over a stage with testify mocks (mokkitmockery): expectations    *)
(* declared while arranging, calls that meet them or that nobody expected, *)
(* Satisfied, and the check each mock left with the test's cleanup.        *)
(*                                                                         *)
(* Beside the test's goroutine there is a stray one, which the subject     *)
(* started and nobody joined: it may call a mock while the test asks or    *)
(* checks the mocks, and reports through the same reporter.                *)
(*                                                                         *)
(* testify's Mock is taken from how the adapter uses it: it holds its own  *)
(* lock while it asserts, and while it reports a call nobody expected.     *)
(***************************************************************************)
EXTENDS Builders

CONSTANTS
    MaxExpected,    \* bound: expectations declared on one mock
    Followed        \* bound: what the builders hold where a test is followed further

ASSUME ExpectedAssumption == MaxExpected \in Nat

Goroutines == {"test", "stray"}

VARIABLES
    pc,         \* where the test's goroutine is
    gone,       \* the stray goroutine has ended
    declared,   \* the expectations declared, each a mock and a number
    met,        \* those a call has met
    toAsk,      \* the mocks Satisfied has still to ask
    failures,   \* whether collectingT has a failure
    toCheck,    \* the mocks whose cleanup has still to run, in order of registration
    toLog,      \* the unmet expectations the mock asserting has still to log
    fails,      \* fails[p]: reporter.fails of scope p
    report,     \* report[g]: the Errorf goroutine g is inside
    vouched,    \* history: the expectations Satisfied has passed over
    due,        \* history: the expectations a cleanup found unmet
    told        \* history: the FAIL lines the test was told, in order

mockVars   == <<declared, met>>
askVars    == <<toAsk, failures, vouched>>
checkVars  == <<toCheck, toLog, due>>
reportVars == <<fails, report, told>>
useVars    == <<pc, gone, declared, met, toAsk, failures, toCheck, toLog, fails, report,
                vouched, due, told>>
vars       == <<composeVars, useVars>>

\* The scopes of the stage the test is on; their mocks, in the order they were made.
Scopes == IF stages = <<>> THEN <<>> ELSE Last(stages).scopes
Mocks == FlattenSeq([p \in DOMAIN Scopes |-> Scopes[p].mocks])

Unmet(m) == {e \in declared \ met : e.mock = m}

\* The expectations of one mock, as a sequence: in the order they were declared.
InOrder(es) ==
    {q \in [1..Cardinality(es) -> es] : \A i, j \in DOMAIN q : i < j => q[i].number < q[j].number}

\* An Errorf in progress: on behalf of a mock, with the lines it has taken.
NoReport == [at |-> "none"]
Errorf(m) == [at |-> "take", mock |-> m, lines |-> <<>>]

\* m's own lock is held by its check, or by its report of an unexpected call.
Locked(m) ==
    \/ pc = "logging" /\ m = Last(toCheck)
    \/ \E g \in Goroutines : report[g] # NoReport /\ report[g].mock = m

\* Whose code can call a mock.
Runs(g) ==
    /\ report[g] = NoReport
    /\ IF g = "test" THEN pc = "body" ELSE pc \notin {"compose", "over"} /\ ~gone

Init ==
    /\ ComposeInit
    /\ pc = "compose"
    /\ gone = FALSE
    /\ declared = {}
    /\ met = {}
    /\ toAsk = <<>>
    /\ failures = FALSE
    /\ toCheck = <<>>
    /\ toLog = <<>>
    /\ fails = <<>>
    /\ report = [g \in Goroutines |-> NoReport]
    /\ vouched = {}
    /\ due = {}
    /\ told = <<>>

-----------------------------------------------------------------------------
(***************************************************************************)
(* Plausible bugs, none of them in the code: see Resolution.               *)
(***************************************************************************)

\* Errorf leaves the lines it attached with the reporter.
BugLinesKept(g) ==
    /\ report[g].at = "take"
    /\ report' = [report EXCEPT ![g].at = "tell", ![g].lines = fails[report[g].mock.place]]
    /\ UNCHANGED <<composeVars, pc, gone, mockVars, askVars, checkVars, fails, told>>

\* Satisfied goes by the mock it asked last.
BugLastMockDecides ==
    /\ pc = "asking"
    /\ toAsk # <<>>
    /\ ~Locked(Head(toAsk))
    /\ failures' = (Unmet(Head(toAsk)) # {})
    /\ toAsk' = Tail(toAsk)
    /\ UNCHANGED <<composeVars, pc, gone, mockVars, vouched, checkVars, reportVars>>

-----------------------------------------------------------------------------
\* The test gets to work on its stage, whose BeginScope has made a reporter for
\* each scope and had each mock leave its check with the test.
Enter ==
    /\ pc = "compose"
    /\ calls = 1 /\ Len(stages) = 1 /\ regs \in Followed
    /\ pc' = "body"
    /\ fails' = [p \in DOMAIN Scopes |-> <<>>]
    /\ toCheck' = Mocks
    /\ UNCHANGED <<composeVars, gone, mockVars, askVars, toLog, due, report, told>>

\* A verb declares one more expectation on a mock: On(...).Once().
Declare(m) ==
    /\ Runs("test")
    /\ LET n == Cardinality({e \in declared : e.mock = m})
       IN  n < MaxExpected /\ declared' = declared \cup {[mock |-> m, number |-> n + 1]}
    /\ UNCHANGED <<composeVars, pc, gone, met, askVars, checkVars, reportVars>>

\* The subject calls a mock, and meets an expectation.
Call(g, e) ==
    /\ Runs(g)
    /\ ~Locked(e.mock)
    /\ met' = met \cup {e}
    /\ UNCHANGED <<composeVars, pc, gone, declared, askVars, checkVars, reportVars>>

\* A call nobody expected, or once more than expected, begins to report.
CallUnexpected(g, m) ==
    /\ Runs(g)
    /\ ~Locked(m)
    /\ report' = [report EXCEPT ![g] = Errorf(m)]
    /\ UNCHANGED <<composeVars, pc, gone, mockVars, askVars, checkVars, fails, told>>

\* reporter.Errorf under the reporter's lock: the lines kept so far come along.
Take(g) ==
    /\ report[g].at = "take"
    /\ LET p == report[g].mock.place
       IN  /\ report' = [report EXCEPT ![g].at = "tell", ![g].lines = fails[p]]
           /\ fails' = [fails EXCEPT ![p] = <<>>]
    /\ UNCHANGED <<composeVars, pc, gone, mockVars, askVars, checkVars, told>>

\* TB.Errorf, outside that lock.  After an unexpected call FailNow ends the
\* goroutine; after a check the next cleanup runs.
Tell(g) ==
    /\ report[g].at = "tell"
    /\ report' = [report EXCEPT ![g] = NoReport]
    /\ told' = told \o report[g].lines
    /\ IF g = "stray" THEN gone' = TRUE /\ UNCHANGED <<pc, toCheck>>
       ELSE /\ pc' = "cleanup"
            /\ toCheck' = IF pc = "logging" THEN Front(toCheck) ELSE toCheck
            /\ UNCHANGED gone
    /\ UNCHANGED <<composeVars, mockVars, askVars, toLog, due, fails>>

-----------------------------------------------------------------------------
\* Satisfied resolves the expectations, which the first container with mocks has.
\* (In a stage without any it panics, and fails the chain as an error does.)
SatisfiedBegins ==
    /\ Runs("test")
    /\ \E p \in DOMAIN Scopes :
          /\ Scopes[p].mocks # <<>>
          /\ \A q \in 1..(p - 1) : Scopes[q].mocks = <<>>
          /\ toAsk' = Scopes[p].mocks
    /\ failures' = FALSE
    /\ pc' = "asking"
    /\ UNCHANGED <<composeVars, gone, mockVars, vouched, checkVars, reportVars>>

\* One mock's AssertExpectations, to a collectingT.
SatisfiedAsks ==
    /\ pc = "asking"
    /\ toAsk # <<>>
    /\ ~Locked(Head(toAsk))
    /\ failures' = (failures \/ Unmet(Head(toAsk)) # {})
    /\ toAsk' = Tail(toAsk)
    /\ UNCHANGED <<composeVars, pc, gone, mockVars, vouched, checkVars, reportVars>>

\* The step passes, or its error fails the chain: softly, or the test is over.
SatisfiedEnds ==
    /\ pc = "asking"
    /\ toAsk = <<>>
    /\ pc' \in IF failures THEN {"body", "cleanup"} ELSE {"body"}
    /\ vouched' = IF failures THEN vouched ELSE declared
    /\ UNCHANGED <<composeVars, gone, mockVars, toAsk, failures, checkVars, reportVars>>

-----------------------------------------------------------------------------
BodyEnds ==
    /\ Runs("test")
    /\ pc' = "cleanup"
    /\ UNCHANGED <<composeVars, gone, mockVars, askVars, checkVars, reportVars>>

\* The cleanup registered last: a mock's AssertExpectations, under its lock.
CheckBegins ==
    /\ pc = "cleanup"
    /\ toCheck # <<>>
    /\ ~Locked(Last(toCheck))
    /\ LET es == Unmet(Last(toCheck))
       IN  /\ due' = due \cup es
           /\ toLog' \in InOrder(es)
           /\ IF es = {} THEN toCheck' = Front(toCheck) /\ UNCHANGED pc
              ELSE pc' = "logging" /\ UNCHANGED toCheck
    /\ UNCHANGED <<composeVars, gone, mockVars, askVars, reportVars>>

\* reporter.Logf keeps a FAIL line; after the last comes the mock's Errorf.
Logf ==
    /\ pc = "logging"
    /\ toLog # <<>>
    /\ fails' = [fails EXCEPT ![Last(toCheck).place] = Append(@, Head(toLog))]
    /\ toLog' = Tail(toLog)
    /\ report' = IF Len(toLog) > 1 THEN report
                 ELSE [report EXCEPT !["test"] = Errorf(Last(toCheck))]
    /\ UNCHANGED <<composeVars, pc, gone, mockVars, askVars, toCheck, due, told>>

TestOver ==
    /\ pc = "cleanup"
    /\ toCheck = <<>>
    /\ pc' = "over"
    /\ UNCHANGED <<composeVars, gone, mockVars, askVars, checkVars, reportVars>>

-----------------------------------------------------------------------------
Calls(g) ==
    \/ \E e \in declared \ met : Call(g, e)
    \/ \E m \in ToSet(Mocks) : CallUnexpected(g, m)
    \/ Take(g)
    \/ Tell(g)

Satisfied == SatisfiedBegins \/ SatisfiedAsks \/ SatisfiedEnds
Cleanup == CheckBegins \/ Logf \/ TestOver

\* Nobody is obliged to compose any further, or to enter.
Finished ==
    /\ \/ pc = "compose" /\ todo = <<>>
       \/ pc = "over" /\ \A g \in Goroutines : report[g] = NoReport
    /\ UNCHANGED vars

Next ==
    \/ pc = "compose" /\ Compose /\ UNCHANGED useVars
    \/ Enter
    \/ \E m \in ToSet(Mocks) : Declare(m)
    \/ \E g \in Goroutines : Calls(g)
    \/ Satisfied
    \/ BodyEnds
    \/ Cleanup
    \/ Finished

Spec == Init /\ [][Next]_vars

-----------------------------------------------------------------------------
Expectation == [mock : ToSet(Mocks), number : 1..MaxExpected]
Report == [at : {"take", "tell"}, mock : ToSet(Mocks), lines : Seq(Expectation)]

TypeOK ==
    /\ ComposeTypeOK
    /\ pc \in {"compose", "body", "asking", "cleanup", "logging", "over"}
    /\ gone \in BOOLEAN
    /\ declared \subseteq Expectation
    /\ met \subseteq declared
    /\ toAsk \in Seq(ToSet(Mocks))
    /\ failures \in BOOLEAN
    /\ toCheck \in Seq(ToSet(Mocks))
    /\ toLog \in Seq(Expectation)
    /\ fails \in Seq(Seq(Expectation))
    /\ \A g \in Goroutines : report[g] = NoReport \/ report[g] \in Report
    /\ vouched \subseteq declared
    /\ due \subseteq declared
    /\ told \in Seq(Expectation)

\* "Satisfied is an Inspect step asserting that every expectation declared so far
\* has been met by the time the chain reaches it" (mokkitmockery.go:160-161), with
\* a stray goroutine calling while the mocks are asked, one after the other.  A
\* stage has one mockery container for this: Satisfied finds the first one's mocks.
SatisfiedMeansMet ==
    Cardinality({p \in DOMAIN Scopes : Scopes[p].mocks # <<>>}) = 1 => vouched \subseteq met

\* The reporter attaches the lines that name the missing calls "to the next
\* Errorf, so the test's failure names the calls" (mokkitmockery.go:46-47): once
\* the cleanups have run, each expectation found unmet has been named, once and no
\* other, though mocks and goroutines share one reporter's lines.
EveryMissingCallIsNamed ==
    /\ ToSet(told) \subseteq due
    /\ IsInjective(told)
    /\ pc = "over" /\ (\A g \in Goroutines : report[g] = NoReport) => due \subseteq ToSet(told)
=============================================================================
