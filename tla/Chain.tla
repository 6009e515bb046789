------------------------------- MODULE Chain -------------------------------
(***************************************************************************)
(* One test driving its stage through chains (chain.go, do.go,             *)
(* executor.go, observer.go): steps added one at a time or run together by *)
(* All, each ending in success, an error, a panic or a Goexit; how that is *)
(* observed, reported to the test, and handed back by Get, Try and         *)
(* Attempt.                                                                *)
(*                                                                         *)
(* Runner 0 is the test's own goroutine; runners 1.. are All's branches.   *)
(***************************************************************************)
EXTENDS Naturals, Sequences, FiniteSets

CONSTANTS
    MaxBranches,    \* bound: branches of one All
    MaxBodies,      \* bound: steps sequenced by one Group
    MaxOps          \* bound: calls of Add or All in one test

ASSUME BoundsAssumption ==
    /\ MaxBranches \in Nat
    /\ MaxBodies \in Nat \ {0}
    /\ MaxOps \in Nat

Branches == 1..MaxBranches
Runners  == 0..MaxBranches
Modes    == {"fast", "soft"}                \* FailFast, FailSoft
Kinds    == {"step", "get", "try"}          \* Add and Do; Get; Try and Attempt
Contexts == {"stage", "own"}                \* the stage's context; WithContext's

\* How a step ends: nil, an error, a panic the executor turned into an error,
\* or a Goexit that nothing turns into anything.
Errs    == {"nil", "error", "panic"}
Endings == Errs \cup {"goexit"}

\* A step is named by the call that added it and the runner it ran on.
Ids == (1..MaxOps) \X Runners

VARIABLES
    pc,         \* where the test's goroutine is
    mode,       \* Chain.mode of the chain it is on
    ctx,        \* Chain.ctx of that chain
    ops,        \* calls of Add and All so far
    width,      \* branches of the All in progress
    next,       \* the branch whose error All looks at next
    run,        \* run[r]: the step runner r is executing
    failed,     \* t.Failed()
    begun,      \* history: the steps that have begun
    ended,      \* history: how steps ended
    events,     \* what the observers were told, in order
    reports,    \* what Chain.fail reported, in order
    handed,     \* history: what Get, Try and Attempt handed back
    verdict     \* what StageClosed said: "none", "passed" or "failed"

vars == <<pc, mode, ctx, ops, width, next, run, failed, begun, ended, events, reports,
          handed, verdict>>
chainVars   == <<mode, ctx>>
historyVars == <<handed, verdict>>

\* A runner's step: its place, the bodies a Group has left, the error it came
\* to, whether a value was assigned, whose step it is, and the context it runs with.
RunState ==
    [at    : {"idle", "run", "emit", "done", "gone"},
     left  : 0..MaxBodies,
     err   : Errs,
     value : BOOLEAN,
     kind  : Kinds,
     ctx   : Contexts]

Ending == [id : Ids, kind : Kinds, mode : Modes, how : Endings]

IdleRun == [at |-> "idle", left |-> 0, err |-> "nil", value |-> FALSE, kind |-> "step",
            ctx |-> "stage"]
Start(k, n) == [at |-> "run", left |-> n, err |-> "nil", value |-> FALSE, kind |-> k, ctx |-> ctx]

Id(r) == <<ops, r>>

Ends(r, how) ==
    ended' = ended \cup {[id |-> Id(r), kind |-> run[r].kind, mode |-> mode, how |-> how]}

Init ==
    /\ pc = "body"
    /\ mode \in Modes
    /\ ctx = "stage"
    /\ ops = 0
    /\ width = 0
    /\ next = 0
    /\ run = [r \in Runners |-> IdleRun]
    /\ failed = FALSE
    /\ begun = {}
    /\ ended = {}
    /\ events = <<>>
    /\ reports = <<>>
    /\ handed = {}
    /\ verdict = "none"

-----------------------------------------------------------------------------
(***************************************************************************)
(* Plausible bugs, none of them in the code: see Resolution.               *)
(***************************************************************************)

\* All without its early return for a single step.
BugAllOfOne(bodies) ==
    /\ pc = "body"
    /\ ops < MaxOps
    /\ ops' = ops + 1
    /\ pc' = "all"
    /\ width' = Len(bodies)
    /\ run' = [r \in Runners |-> IF r \in 1..Len(bodies) THEN Start("step", bodies[r]) ELSE IdleRun]
    /\ begun' = begun \cup {<<ops', r>> : r \in 1..Len(bodies)}
    /\ UNCHANGED <<chainVars, next, failed, ended, events, reports, historyVars>>

\* All without wg.Wait.
BugAllDoesNotWait ==
    /\ pc = "all"
    /\ pc' = "report"
    /\ next' = 1
    /\ UNCHANGED <<chainVars, ops, width, run, failed, begun, ended, events, reports, historyVars>>

\* wg.Done called at the end of the branch instead of deferred.
BugDoneNotDeferred ==
    /\ pc = "all"
    /\ \A r \in 1..width : run[r].at = "done"
    /\ pc' = "report"
    /\ next' = 1
    /\ UNCHANGED <<chainVars, ops, width, run, failed, begun, ended, events, reports, historyVars>>

\* All reports its first failure and stops looking, whatever the mode.
BugFirstOnly ==
    /\ pc = "report"
    /\ next <= width
    /\ IF run[next].err = "nil"
       THEN /\ next' = next + 1
            /\ UNCHANGED <<pc, failed, reports>>
       ELSE /\ failed' = TRUE
            /\ reports' = Append(reports, Id(next))
            /\ pc' = IF mode = "fast" THEN "unwound" ELSE "body"
            /\ UNCHANGED next
    /\ UNCHANGED <<chainVars, ops, width, run, begun, ended, events, historyVars>>

\* fail reports through t.Error under either mode.
BugFailCarriesOn ==
    /\ pc = "step"
    /\ run[0].at = "done"
    /\ run[0].err # "nil"
    /\ failed' = TRUE
    /\ reports' = Append(reports, Id(0))
    /\ pc' = "handBack"
    /\ UNCHANGED <<chainVars, ops, width, next, run, begun, ended, events, historyVars>>

\* observe tells the observers about steps that passed only.
BugObserveSuccessOnly(r) ==
    /\ run[r].at = "emit"
    /\ events' = IF run[r].err = "nil"
                 THEN Append(events, [id |-> Id(r), err |-> "nil"])
                 ELSE events
    /\ run' = [run EXCEPT ![r].at = "done"]
    /\ UNCHANGED <<pc, chainVars, ops, width, next, failed, begun, ended, reports, historyVars>>

\* Run does not turn a recovered panic into an error.
BugPanicSwallowed(r) ==
    /\ run[r].at = "run"
    /\ run' = [run EXCEPT ![r].at = "emit"]
    /\ Ends(r, "panic")
    /\ UNCHANGED <<pc, chainVars, ops, width, next, failed, begun, events, reports, historyVars>>

-----------------------------------------------------------------------------
(***************************************************************************)
(* The test body: a new chain, a step, an All.                             *)
(***************************************************************************)

\* Arrange and Act start a chain that fails fast, Inspect one that fails soft,
\* with the stage's context.
StartChain(m) ==
    /\ pc = "body"
    /\ mode # m \/ ctx # "stage"
    /\ mode' = m
    /\ ctx' = "stage"
    /\ UNCHANGED <<pc, ops, width, next, run, failed, begun, ended, events, reports, historyVars>>

\* WithContext, for the steps from here on.
WithContext ==
    /\ pc = "body"
    /\ ctx = "stage"
    /\ ctx' = "own"
    /\ UNCHANGED <<pc, mode, ops, width, next, run, failed, begun, ended, events, reports, historyVars>>

\* Add, And, Do, Get, Try or Attempt: one step on the test's own goroutine.
Add(k, n) ==
    /\ pc = "body"
    /\ ops < MaxOps
    /\ k = "step" \/ n = 1
    /\ ops' = ops + 1
    /\ pc' = "step"
    /\ run' = [run EXCEPT ![0] = Start(k, n)]
    /\ begun' = begun \cup {<<ops', 0>>}
    /\ UNCHANGED <<chainVars, width, next, failed, ended, events, reports, historyVars>>

\* All with two steps or more: a goroutine each.  With fewer it is And.
All(bodies) ==
    /\ pc = "body"
    /\ ops < MaxOps
    /\ Len(bodies) >= 2
    /\ ops' = ops + 1
    /\ pc' = "all"
    /\ width' = Len(bodies)
    /\ run' = [r \in Runners |-> IF r \in 1..Len(bodies) THEN Start("step", bodies[r]) ELSE IdleRun]
    /\ begun' = begun \cup {<<ops', r>> : r \in 1..Len(bodies)}
    /\ UNCHANGED <<chainVars, next, failed, ended, events, reports, historyVars>>

(***************************************************************************)
(* A runner inside inlineExecutor.Run.                                     *)
(***************************************************************************)

\* One body passes; a Group goes on with the next.  A body may also have failed
\* the test softly, an assert on TB, and pass all the same.
Passes(r, soft) ==
    /\ run[r].at = "run"
    /\ failed' = (failed \/ soft)
    /\ IF run[r].left > 1
       THEN /\ run' = [run EXCEPT ![r].left = @ - 1]
            /\ UNCHANGED ended
       ELSE /\ run' = [run EXCEPT ![r].at = "emit", ![r].value = TRUE]
            /\ Ends(r, "nil")
    /\ UNCHANGED <<pc, chainVars, ops, width, next, begun, events, reports, historyVars>>

\* The body returns an error, Get's and Try's perhaps a value beside it; a Group
\* stops there.
Fails(r, value) ==
    /\ run[r].at = "run"
    /\ run[r].kind # "try"
    /\ run' = [run EXCEPT ![r].at = "emit", ![r].err = "error",
                          ![r].value = value /\ run[r].kind = "get"]
    /\ Ends(r, "error")
    /\ UNCHANGED <<pc, chainVars, ops, width, next, failed, begun, events, reports, historyVars>>

\* Try and Attempt keep the error for their caller: the step passes.
Refuses(r, value) ==
    /\ run[r].at = "run"
    /\ run[r].kind = "try"
    /\ run' = [run EXCEPT ![r].at = "emit", ![r].value = value]
    /\ Ends(r, "error")
    /\ UNCHANGED <<pc, chainVars, ops, width, next, failed, begun, events, reports, historyVars>>

\* The body panics: Run recovers, and the step's error is a PanicError.
Panics(r) ==
    /\ run[r].at = "run"
    /\ run' = [run EXCEPT ![r].at = "emit", ![r].err = "panic"]
    /\ Ends(r, "panic")
    /\ UNCHANGED <<pc, chainVars, ops, width, next, failed, begun, events, reports, historyVars>>

\* The body calls the test's own Fatal: `require' on TB(), or Tokens.Of on a
\* role nobody arranged.  recover sees nothing; a branch still runs wg.Done.
Goexits(r) ==
    /\ run[r].at = "run"
    /\ failed' = TRUE
    /\ run' = [run EXCEPT ![r].at = "gone"]
    /\ pc' = IF r = 0 THEN "unwound" ELSE pc
    /\ Ends(r, "goexit")
    /\ UNCHANGED <<chainVars, ops, width, next, begun, events, reports, historyVars>>

\* observe: the executor has returned, the observers are told.
Observe(r) ==
    /\ run[r].at = "emit"
    /\ events' = Append(events, [id |-> Id(r), err |-> run[r].err])
    /\ run' = [run EXCEPT ![r].at = "done"]
    /\ UNCHANGED <<pc, chainVars, ops, width, next, failed, begun, ended, reports, historyVars>>

(***************************************************************************)
(* What becomes of the error.                                              *)
(***************************************************************************)

StepPasses ==
    /\ pc = "step"
    /\ run[0].at = "done"
    /\ run[0].err = "nil"
    /\ pc' = "handBack"
    /\ UNCHANGED <<chainVars, ops, width, next, run, failed, begun, ended, events, reports, historyVars>>

\* run calls fail: t.Error and on, or t.Fatal and no further.
StepFails ==
    /\ pc = "step"
    /\ run[0].at = "done"
    /\ run[0].err # "nil"
    /\ failed' = TRUE
    /\ reports' = Append(reports, Id(0))
    /\ pc' = IF mode = "soft" THEN "handBack" ELSE "unwound"
    /\ UNCHANGED <<chainVars, ops, width, next, run, begun, ended, events, historyVars>>

\* The verb returns; Get, Try and Attempt hand back what the step assigned.
HandBack ==
    /\ pc = "handBack"
    /\ pc' = "body"
    /\ handed' = IF run[0].kind = "step" THEN handed
                 ELSE handed \cup
                      {[kind |-> e.kind, mode |-> mode, how |-> e.how, value |-> run[0].value,
                        err |-> run[0].kind = "try" /\ e.how = "error"]
                           : e \in {x \in ended : x.id = Id(0)}}
    /\ run' = [run EXCEPT ![0] = IdleRun]
    /\ UNCHANGED <<chainVars, ops, width, next, failed, begun, ended, events, reports, verdict>>

\* wg.Wait: every branch has called wg.Done, by returning or by unwinding.
AllWaits ==
    /\ pc = "all"
    /\ \A r \in 1..width : run[r].at \in {"done", "gone"}
    /\ pc' = "report"
    /\ next' = 1
    /\ UNCHANGED <<chainVars, ops, width, run, failed, begun, ended, events, reports, historyVars>>

\* The loop over errs, in the branches' order.
AllReports ==
    /\ pc = "report"
    /\ next <= width
    /\ IF run[next].err = "nil"
       THEN /\ next' = next + 1
            /\ UNCHANGED <<pc, failed, reports>>
       ELSE /\ failed' = TRUE
            /\ reports' = Append(reports, Id(next))
            /\ IF mode = "fast"
               THEN pc' = "unwound" /\ UNCHANGED next
               ELSE next' = next + 1 /\ UNCHANGED pc
    /\ UNCHANGED <<chainVars, ops, width, run, begun, ended, events, historyVars>>

AllReturns ==
    /\ pc = "report"
    /\ next > width
    /\ pc' = "body"
    /\ width' = 0
    /\ run' = [r \in Runners |-> IdleRun]
    /\ UNCHANGED <<chainVars, ops, next, failed, begun, ended, events, reports, historyVars>>

\* The test function returns.
BodyReturns ==
    /\ pc = "body"
    /\ pc' = "returned"
    /\ UNCHANGED <<chainVars, ops, width, next, run, failed, begun, ended, events, reports, historyVars>>

\* t.Cleanup runs Stage.Close: StageClosed with the verdict of that moment.
CloseStage ==
    /\ pc \in {"returned", "unwound"}
    /\ pc' = "closed"
    /\ verdict' = IF failed THEN "failed" ELSE "passed"
    /\ UNCHANGED <<chainVars, ops, width, next, run, failed, begun, ended, events, reports, handed>>

Over == pc = "closed" /\ UNCHANGED vars

-----------------------------------------------------------------------------
Running(r) ==
    \/ \E b \in BOOLEAN : Passes(r, b) \/ Fails(r, b) \/ Refuses(r, b)
    \/ Panics(r) \/ Goexits(r) \/ Observe(r)

Chains == StepPasses \/ StepFails \/ HandBack \/ AllWaits \/ AllReports \/ AllReturns

TestBody ==
    \/ \E m \in Modes : StartChain(m)
    \/ WithContext
    \/ \E k \in Kinds, n \in 1..MaxBodies : Add(k, n)
    \/ \E w \in 0..MaxBranches : \E bodies \in [1..w -> 1..MaxBodies] : All(bodies)
    \/ BodyReturns

Next ==
    \/ TestBody
    \/ \E r \in Runners : Running(r)
    \/ Chains
    \/ CloseStage
    \/ Over

Spec == Init /\ [][Next]_vars

\* A step's own code is assumed to end; a test body is not.
Fairness ==
    /\ \A r \in Runners : WF_vars(Running(r))
    /\ WF_vars(Chains \/ CloseStage)

FairSpec == Spec /\ Fairness

-----------------------------------------------------------------------------
TypeOK ==
    /\ pc \in {"body", "step", "handBack", "all", "report", "returned", "unwound", "closed"}
    /\ mode \in Modes
    /\ ctx \in Contexts
    /\ ops \in 0..MaxOps
    /\ width \in {0} \cup 2..MaxBranches
    /\ next \in 0..(MaxBranches + 1)
    /\ run \in [Runners -> RunState]
    /\ failed \in BOOLEAN
    /\ begun \subseteq Ids
    /\ ended \subseteq Ending
    /\ events \in Seq([id : Ids, err : Errs])
    /\ reports \in Seq(Ids)
    /\ handed \subseteq [kind : Kinds, mode : Modes, how : Endings, value : BOOLEAN, err : BOOLEAN]
    /\ verdict \in {"none", "passed", "failed"}

Times(id, seq) == Cardinality({i \in DOMAIN seq : seq[i] = id})
EventsOf(id) == {i \in DOMAIN events : events[i].id = id}

\* A group is ordered against its neighbours (chain.go:108-110): outside All no
\* branch is running or still to be observed, whatever its siblings did, so
\* nothing the test's goroutine does next, Stage.Close included, meets one; and
\* WithContext "does not affect steps already run" (chain.go:155).
AllJoins ==
    /\ pc # "all" => \A r \in Branches : run[r].at \notin {"run", "emit"}
    /\ \A r \in Runners : run[r].at \in {"run", "emit"} => run[r].ctx = ctx

\* Steps that fail the chain: not a refusal that Try or Attempt caught.
Failing == {e \in ended : /\ e.how \in {"error", "panic"}
                          /\ ~ (e.how = "error" /\ e.kind = "try")}

\* FailFast: when a step has come back with an error or a panic, no later step
\* begins, in this chain or in another (chain.go:14-16).
FailFastStops ==
    \A e \in Failing : e.mode = "fast" => \A b \in begun : b[1] <= e.id[1]

\* FailSoft: once the test is past a step that failed, its failure has been
\* reported once, and every failing branch of an All has (chain.go:19-21, 113).
FailSoftReportsAll ==
    \A e \in Failing :
        e.mode = "soft" /\ (pc = "closed" \/ e.id[1] < ops) => Times(e.id, reports) = 1

\* What is reported was observed before, so the step that kills the chain is in
\* the report (observer_test.go, TestAFatalStepIsObservedBeforeTheChainDies), and
\* the observers hear of each step once, with the error it was reported with.
ObservedBeforeReported ==
    /\ \A i \in DOMAIN reports : EventsOf(reports[i]) # {}
    /\ \A i, j \in DOMAIN events : events[i].id = events[j].id => i = j

\* No failure is lost between a step and the verdict, except those that Try and
\* Attempt were asked to keep, and those are not reported as failures either.
VerdictTellsFailure ==
    verdict # "none" =>
        /\ Failing # {} \/ (\E e \in ended : e.how = "goexit") => verdict = "failed"
        /\ \A i \in DOMAIN reports : \E e \in Failing : e.id = reports[i]

\* On a chain that fails fast, what is handed back means what it says: Get comes
\* back only without an error, Try and Attempt with the error fn returned or else
\* with the value it returned (do.go:71-72, 111-112).  On a soft chain all three
\* come back after a failure, with whatever fn had assigned.
HandedBackIsMeaningful ==
    \A h \in handed :
        h.mode = "fast" =>
            /\ h.how # "nil" => h.kind = "try" /\ h.how = "error" /\ h.err
            /\ h.how = "nil" => h.value /\ ~h.err

\* All comes to an end however its branches end, Goexit included.
AllReturnsInTheEnd == pc = "all" ~> pc # "all"

-----------------------------------------------------------------------------
(* What the documentation says and the code does otherwise.                *)

\* observer.go:20-21: an Observer hears "every step that ran".
EveryStepThatRanIsObserved ==
    verdict # "none" => \A id \in begun : EventsOf(id) # {}
=============================================================================
