----------------------------- MODULE Lifecycle -----------------------------
(***************************************************************************)
(* A Setup, the stages tests enter from it and what ends them (stage.go,   *)
(* observer.go): scopes opened one after the other, an opening that fails  *)
(* part-way, the test's cleanups run last-registered-first, Stage.Close,   *)
(* and the checks the mock containers leave with the test.                 *)
(*                                                                         *)
(* What a stage does while it is open is modelled in Resolution and Chain. *)
(***************************************************************************)
EXTENDS Naturals, Sequences, FiniteSets, SequencesExt

CONSTANTS
    Tests,          \* tests sharing the setup, each on its own goroutine
    Observers,      \* what may be registered with Setup.Observe
    MaxContainers,  \* bound: containers of the setup
    MaxStages,      \* bound: stages entered, all tests together
    Endings         \* how a BeginScope may end

ASSUME BoundsAssumption == MaxContainers \in Nat /\ MaxStages \in Nat
ASSUME EndingsAssumption == Endings \subseteq {"opens", "fails", "unwinds"}

\* bag, do and dig scopes are released by Close, which may fail; gomock, mockery
\* and minimock scopes have an empty Close and a check left with the test.
Kinds == {"owns", "checks"}

Stages == 1..MaxStages
Places == 1..MaxContainers

VARIABLES
    containers, \* Setup.containers
    observers,  \* Setup.observers
    stages,     \* the stages entered so far
    pc,         \* where a test's goroutine is
    current,    \* the stage EnterStage or Close is at work on; 0 if none
    after,      \* what Close goes back to
    cleanups,   \* t.Cleanup's functions, last registered last
    failed,     \* t.Failed()
    story,      \* history: what observers heard
    freed,      \* history: the scopes closed, in order
    checked,    \* history: the stages whose expectations have been checked
    troubled    \* history: the stages a cleanup closed with an error

vars == <<containers, observers, stages, pc, current, after, cleanups, failed,
          story, freed, checked, troubled>>
historyVars == <<story, freed, checked, troubled>>

Stage ==
    [test      : Tests,
     observers : SUBSET Observers,
     scopes    : Seq(Places),       \* Stage.scopes
     closed    : BOOLEAN,
     toClose   : Seq(Places),       \* what Close took from scopes
     erred     : BOOLEAN,           \* errs of Close
     unwound   : BOOLEAN]           \* history: a BeginScope ended the goroutine

Event == [what : {"entered", "closed"}, stage : Stages, to : SUBSET Observers, failed : BOOLEAN]

Cleanup == [what : {"close", "check"}, stage : Stages]

Init ==
    /\ containers \in UNION {[1..n -> Kinds] : n \in 0..MaxContainers}
    /\ observers = {}
    /\ stages = <<>>
    /\ pc = [t \in Tests |-> "body"]
    /\ current = [t \in Tests |-> 0]
    /\ after = [t \in Tests |-> "body"]
    /\ cleanups = [t \in Tests |-> <<>>]
    /\ failed = [t \in Tests |-> FALSE]
    /\ story = <<>>
    /\ freed = <<>>
    /\ checked = {}
    /\ troubled = {}

Here(t) == stages[current[t]]
Goto(t, place) == pc' = [pc EXCEPT ![t] = place]
Defer(t, what) == cleanups' = [cleanups EXCEPT ![t] = Append(@, [what |-> what, stage |-> current[t]])]
Fail(t) == failed' = [failed EXCEPT ![t] = TRUE]

Tell(t, what, whom) ==
    story' = Append(story, [what |-> what, stage |-> current[t], to |-> whom, failed |-> failed[t]])

\* The container whose scope is opened next.
NextPlace(t) == Len(Here(t).scopes) + 1

-----------------------------------------------------------------------------
(***************************************************************************)
(* Plausible bugs, none of them in the code: see Resolution.               *)
(***************************************************************************)

\* t.Cleanup(stage.Close) registered before the scopes are opened.
BugCleanupFirst(t) ==
    /\ pc[t] = "body"
    /\ Len(stages) < MaxStages
    /\ stages' = Append(stages, [test |-> t, observers |-> observers, scopes |-> <<>>,
                                 closed |-> FALSE, toClose |-> <<>>, erred |-> FALSE,
                                 unwound |-> FALSE])
    /\ current' = [current EXCEPT ![t] = Len(stages')]
    /\ cleanups' = [cleanups EXCEPT ![t] = Append(@, [what |-> "close", stage |-> Len(stages')])]
    /\ Goto(t, "opening")
    /\ UNCHANGED <<containers, observers, after, failed, historyVars>>

\* EnterStage gives up without closing what did open.
BugScopesAbandoned(t) ==
    /\ "fails" \in Endings
    /\ pc[t] = "opening"
    /\ NextPlace(t) <= Len(containers)
    /\ containers[NextPlace(t)] = "owns"
    /\ Goto(t, "cleanup")
    /\ Fail(t)
    /\ current' = [current EXCEPT ![t] = 0]
    /\ UNCHANGED <<containers, observers, stages, after, cleanups, historyVars>>

\* Close tells the observers the setup has by then.
BugLateObserversHear(t) ==
    /\ pc[t] = "shut"
    /\ ~Here(t).closed
    /\ stages' = [stages EXCEPT ![current[t]].closed = TRUE,
                                ![current[t]].scopes = <<>>,
                                ![current[t]].toClose = Here(t).scopes]
    /\ Tell(t, "closed", observers)
    /\ Goto(t, "closing")
    /\ UNCHANGED <<containers, observers, current, after, cleanups, failed, freed, checked, troubled>>

\* Close goes through the scopes in the order they were opened.
BugOldestFirst(t) ==
    /\ pc[t] = "closing"
    /\ Here(t).toClose # <<>>
    /\ freed' = Append(freed, <<current[t], Head(Here(t).toClose)>>)
    /\ \E err \in BOOLEAN :
        /\ err => containers[Head(Here(t).toClose)] = "owns"
        /\ stages' = [stages EXCEPT ![current[t]].toClose = Tail(@), ![current[t]].erred = @ \/ err]
    /\ UNCHANGED <<containers, observers, pc, current, after, cleanups, failed, story, checked, troubled>>

\* Close returns the last scope's error, not all of them joined.
BugLastErrorOnly(t) ==
    /\ pc[t] = "closing"
    /\ Here(t).toClose # <<>>
    /\ freed' = Append(freed, <<current[t], Last(Here(t).toClose)>>)
    /\ \E err \in BOOLEAN :
        /\ err => containers[Last(Here(t).toClose)] = "owns"
        /\ stages' = [stages EXCEPT ![current[t]].toClose = Front(@), ![current[t]].erred = err]
        /\ troubled' = IF err /\ after[t] = "cleanup" THEN troubled \cup {current[t]} ELSE troubled
    /\ UNCHANGED <<containers, observers, pc, current, after, cleanups, failed, story, checked>>

\* EnterStage has no `return nil' after Fatalf: where Fatalf returns, it goes on
\* with a scope that is not there.
BugCarriesOnAfterFatal(t) ==
    /\ pc[t] = "closing"
    /\ Here(t).toClose = <<>>
    /\ after[t] = "fatal"
    /\ Fail(t)
    /\ stages' = [stages EXCEPT ![current[t]].scopes = Append(@, 0)]
    /\ Goto(t, "opening")
    /\ UNCHANGED <<containers, observers, current, after, cleanups, historyVars>>

-----------------------------------------------------------------------------
\* Setup.Observe, at any moment: it affects the stages entered afterwards.
Observe(o) ==
    /\ o \notin observers
    /\ observers' = observers \cup {o}
    /\ UNCHANGED <<containers, stages, pc, current, after, cleanups, failed, historyVars>>

\* EnterStageContext as far as the loop over the containers.
EnterStage(t) ==
    /\ pc[t] = "body"
    /\ Len(stages) < MaxStages
    /\ stages' = Append(stages, [test |-> t, observers |-> observers, scopes |-> <<>>,
                                 closed |-> FALSE, toClose |-> <<>>, erred |-> FALSE,
                                 unwound |-> FALSE])
    /\ current' = [current EXCEPT ![t] = Len(stages')]
    /\ Goto(t, "opening")
    /\ UNCHANGED <<containers, observers, after, cleanups, failed, historyVars>>

\* A fixture's Enter over builders of its own, one of which cannot be built: Fatalf,
\* before there is a stage.  Where it returns, the test has no fixture.
EnterUnbuilt(t) ==
    /\ pc[t] = "body"
    /\ Fail(t)
    /\ Goto(t, "cleanup") \/ Goto(t, "body")
    /\ UNCHANGED <<containers, observers, stages, current, after, cleanups, historyVars>>

\* The next container's BeginScope hands back a scope.  A mock container's has
\* bound a controller, or each mock, to the test's cleanups.
ScopeOpens(t) ==
    /\ "opens" \in Endings
    /\ pc[t] = "opening"
    /\ NextPlace(t) <= Len(containers)
    /\ stages' = [stages EXCEPT ![current[t]].scopes = Append(@, NextPlace(t))]
    /\ IF containers[NextPlace(t)] = "checks" THEN Defer(t, "check") ELSE UNCHANGED cleanups
    /\ UNCHANGED <<containers, observers, pc, current, after, failed, historyVars>>

\* It hands back an error: EnterStage closes what did open.  A mock container
\* errs only where the stage has no test, which EnterStage never brings about.
ScopeFails(t) ==
    /\ "fails" \in Endings
    /\ pc[t] = "opening"
    /\ NextPlace(t) <= Len(containers)
    /\ containers[NextPlace(t)] = "owns"
    /\ after' = [after EXCEPT ![t] = "fatal"]
    /\ Goto(t, "shut")
    /\ UNCHANGED <<containers, observers, stages, current, cleanups, failed, historyVars>>

\* It ends the goroutine: T.Fatalf on the stage's test, or a panic in a mock's
\* constructor or a DI registration.  Nothing of EnterStage is deferred.
ScopeUnwinds(t) ==
    /\ "unwinds" \in Endings
    /\ pc[t] = "opening"
    /\ NextPlace(t) <= Len(containers)
    /\ \/ containers[NextPlace(t)] = "checks" /\ Defer(t, "check")
       \/ UNCHANGED cleanups
    /\ stages' = [stages EXCEPT ![current[t]].unwound = TRUE]
    /\ Fail(t)
    /\ Goto(t, "cleanup")
    /\ current' = [current EXCEPT ![t] = 0]
    /\ UNCHANGED <<containers, observers, after, historyVars>>

\* Every scope is open: Close joins the test's cleanups, the observers are told.
StageEntered(t) ==
    /\ pc[t] = "opening"
    /\ NextPlace(t) > Len(containers)
    /\ Defer(t, "close")
    /\ Tell(t, "entered", Here(t).observers)
    /\ Goto(t, "body")
    /\ current' = [current EXCEPT ![t] = 0]
    /\ UNCHANGED <<containers, observers, stages, after, failed, freed, checked, troubled>>

-----------------------------------------------------------------------------
\* A soft failure.
Errorf(t) ==
    /\ pc[t] = "body"
    /\ ~failed[t]
    /\ Fail(t)
    /\ UNCHANGED <<containers, observers, stages, pc, current, after, cleanups, historyVars>>

\* The test closes a stage itself, a stage it was given: once, or twice.
CloseByHand(t, s) ==
    /\ pc[t] = "body"
    /\ [what |-> "close", stage |-> s] \in ToSet(cleanups[t])
    /\ current' = [current EXCEPT ![t] = s]
    /\ after' = [after EXCEPT ![t] = "body"]
    /\ Goto(t, "shut")
    /\ UNCHANGED <<containers, observers, stages, cleanups, failed, historyVars>>

\* The test function returns, or a hard failure unwinds it.
BodyEnds(t) ==
    /\ pc[t] = "body"
    /\ Goto(t, "cleanup")
    /\ \E hard \in BOOLEAN : failed' = [failed EXCEPT ![t] = @ \/ hard]
    /\ UNCHANGED <<containers, observers, stages, current, after, cleanups, historyVars>>

\* testing runs the cleanup registered last.
RunCleanup(t) ==
    /\ pc[t] = "cleanup"
    /\ cleanups[t] # <<>>
    /\ Last(cleanups[t]).what = "close"
    /\ cleanups' = [cleanups EXCEPT ![t] = Front(@)]
    /\ current' = [current EXCEPT ![t] = Last(cleanups[t]).stage]
    /\ after' = [after EXCEPT ![t] = "cleanup"]
    /\ Goto(t, "shut")
    /\ UNCHANGED <<containers, observers, stages, failed, historyVars>>

\* A controller, or a mock, checks its expectations and fails the test for those
\* that were not met.
CheckExpectations(t) ==
    /\ pc[t] = "cleanup"
    /\ cleanups[t] # <<>>
    /\ Last(cleanups[t]).what = "check"
    /\ cleanups' = [cleanups EXCEPT ![t] = Front(@)]
    /\ checked' = checked \cup {Last(cleanups[t]).stage}
    /\ \E unmet \in BOOLEAN : failed' = [failed EXCEPT ![t] = @ \/ unmet]
    /\ UNCHANGED <<containers, observers, stages, pc, current, after, story, freed, troubled>>

TestOver(t) ==
    /\ pc[t] = "cleanup"
    /\ cleanups[t] = <<>>
    /\ Goto(t, "over")
    /\ UNCHANGED <<containers, observers, stages, current, after, cleanups, failed, historyVars>>

-----------------------------------------------------------------------------
\* Close on a stage that is closed already.
CloseAgain(t) ==
    /\ pc[t] = "shut"
    /\ Here(t).closed
    /\ Goto(t, after[t])
    /\ current' = [current EXCEPT ![t] = 0]
    /\ UNCHANGED <<containers, observers, stages, after, cleanups, failed, historyVars>>

\* Close under the stage's mutex, then the observers, told the verdict so far.
CloseBegins(t) ==
    /\ pc[t] = "shut"
    /\ ~Here(t).closed
    /\ stages' = [stages EXCEPT ![current[t]].closed = TRUE,
                                ![current[t]].scopes = <<>>,
                                ![current[t]].toClose = Here(t).scopes]
    /\ Tell(t, "closed", Here(t).observers)
    /\ Goto(t, "closing")
    /\ UNCHANGED <<containers, observers, current, after, cleanups, failed, freed, checked, troubled>>

\* One scope's Close; its error is kept, and the loop goes on.
CloseScope(t) ==
    /\ pc[t] = "closing"
    /\ Here(t).toClose # <<>>
    /\ freed' = Append(freed, <<current[t], Last(Here(t).toClose)>>)
    /\ \E err \in BOOLEAN :
        /\ err => containers[Last(Here(t).toClose)] = "owns"
        /\ stages' = [stages EXCEPT ![current[t]].toClose = Front(@), ![current[t]].erred = @ \/ err]
        /\ troubled' = IF err /\ after[t] = "cleanup" THEN troubled \cup {current[t]} ELSE troubled
    /\ UNCHANGED <<containers, observers, pc, current, after, cleanups, failed, story, checked>>

\* Close returns to the test, which may ignore its error, or to the cleanup,
\* which reports it.
CloseEnds(t) ==
    /\ pc[t] = "closing"
    /\ Here(t).toClose = <<>>
    /\ after[t] \in {"body", "cleanup"}
    /\ failed' = [failed EXCEPT ![t] = @ \/ (after[t] = "cleanup" /\ Here(t).erred)]
    /\ Goto(t, after[t])
    /\ current' = [current EXCEPT ![t] = 0]
    /\ UNCHANGED <<containers, observers, stages, after, cleanups, historyVars>>

\* Close returns to EnterStage, which drops its error and fails the test.  Where
\* Fatalf returns, a fake TB's, the test goes on without a stage.
GiveUp(t) ==
    /\ pc[t] = "closing"
    /\ Here(t).toClose = <<>>
    /\ after[t] = "fatal"
    /\ Fail(t)
    /\ Goto(t, "cleanup") \/ Goto(t, "body")
    /\ current' = [current EXCEPT ![t] = 0]
    /\ UNCHANGED <<containers, observers, stages, after, cleanups, historyVars>>

-----------------------------------------------------------------------------
Enter(t) ==
    \/ EnterStage(t) \/ EnterUnbuilt(t)
    \/ ScopeOpens(t) \/ ScopeFails(t) \/ ScopeUnwinds(t) \/ StageEntered(t)
Body(t)  == Errorf(t) \/ (\E s \in Stages : CloseByHand(t, s)) \/ BodyEnds(t)
Clean(t) == RunCleanup(t) \/ CheckExpectations(t) \/ TestOver(t)
Close(t) == CloseAgain(t) \/ CloseBegins(t) \/ CloseScope(t) \/ CloseEnds(t) \/ GiveUp(t)

Over == (\A t \in Tests : pc[t] = "over") /\ UNCHANGED vars

Next ==
    \/ \E o \in Observers : Observe(o)
    \/ \E t \in Tests : Enter(t) \/ Body(t) \/ Clean(t) \/ Close(t)
    \/ Over

Spec == Init /\ [][Next]_vars

-----------------------------------------------------------------------------
TypeOK ==
    /\ containers \in Seq(Kinds)
    /\ observers \subseteq Observers
    /\ stages \in Seq(Stage)
    /\ Len(stages) <= MaxStages
    /\ pc \in [Tests -> {"body", "opening", "shut", "closing", "cleanup", "over"}]
    /\ current \in [Tests -> 0..Len(stages)]
    /\ after \in [Tests -> {"body", "cleanup", "fatal"}]
    /\ cleanups \in [Tests -> Seq(Cleanup)]
    /\ failed \in [Tests -> BOOLEAN]
    /\ story \in Seq(Event)
    /\ freed \in Seq(Stages \X Places)
    /\ checked \subseteq Stages
    /\ troubled \subseteq Stages

Told(s, what) == {i \in DOMAIN story : story[i].stage = s /\ story[i].what = what}
Freed(s) == {freed[i][2] : i \in {j \in DOMAIN freed : freed[j][1] = s}}

\* "Close releases every scope, newest first" (stage.go:224), and each once,
\* whether a cleanup, the test itself or a failed EnterStage closed the stage.
NewestFirstAndOnce ==
    \A i, j \in DOMAIN freed :
        i < j /\ freed[i][1] = freed[j][1] => freed[i][2] > freed[j][2]

\* "Scopes are released before expectations are checked" (mokkitgomock.go:147,
\* mokkitmockery.go:218, mokkitminimock.go:146; DESIGN.md:609): once a stage's
\* expectations have been checked, none of its scopes is closed any more.
ReleasedBeforeChecked ==
    [][\A t \in Tests : current[t] \in checked => ~CloseScope(t)]_vars

\* A test leaves no scope open behind it, a half-opened stage's included
\* (stage.go:37-39, 65), unless a BeginScope unwound the goroutine: nothing is
\* registered with the test by then.
NothingLeaks ==
    \A s \in 1..Len(stages) :
        pc[stages[s].test] = "over" /\ ~stages[s].unwound =>
            stages[s].scopes = <<>> /\ stages[s].toClose = <<>>

\* The observers a stage was entered with hear of its end once, and nobody else
\* does, whoever was registered in between (observer.go:43-51).
SameAudience ==
    \A s \in 1..Len(stages) :
        /\ Cardinality(Told(s, "closed")) <= 1
        /\ \A i \in Told(s, "entered") \cup Told(s, "closed") : story[i].to = stages[s].observers

\* A scope that a cleanup could not close fails the test, however many closed
\* after it without trouble (stage.go:75-79, 246-259).
CloseErrorsFailTheTest ==
    \A s \in troubled : pc[stages[s].test] = "over" => failed[stages[s].test]

-----------------------------------------------------------------------------
(* What the documentation says and the code does otherwise.                *)

\* observer.go:21-22: "the stage closing with the test's verdict".
ClosedWithTheTestsVerdict ==
    \A i \in DOMAIN story :
        LET t == stages[story[i].stage].test
        IN  story[i].what = "closed" /\ pc[t] = "over" => story[i].failed = failed[t]
=============================================================================
