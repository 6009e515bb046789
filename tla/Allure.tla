------------------------------- MODULE Allure -------------------------------
(***************************************************************************)
(* The Allure reporter (report/allure/allure.go): an Observer of several   *)
(* stages at once, which keeps what each was heard to do and writes one    *)
(* result file when the stage closes.                                      *)
(*                                                                         *)
(* What stages tell it is what Chain and Lifecycle find they do: a stage   *)
(* may close without having been entered, its steps arrive in any order,   *)
(* and a step that ended badly has failed its test by the time it closes.  *)
(***************************************************************************)
EXTENDS Naturals, Sequences, FiniteSets, SequencesExt

CONSTANTS
    Stages,     \* stage ids
    Tests,      \* test names; stages of one test share its name
    MaxSteps    \* bound: steps told of a stage

ASSUME BoundsAssumption == MaxSteps \in Nat

Errs == {"nil", "error", "panic"}
Statuses == {"passed", "failed", "broken"}

VARIABLES
    name,       \* the test a stage belongs to
    inflight,   \* Reporter.inflight: the steps heard, of the stages entered
    writing,    \* the results StageClosed is writing, of the stages closed
    files,      \* the results directory
    errs,       \* Reporter.errs: the stages whose result could not be written
    alive,      \* whether the test binary is running
    phase,      \* how far a stage is; refused: closed, never entered
    failed,     \* the verdict a stage closed with
    told        \* history: the steps told of a stage while it was open

vars == <<name, inflight, writing, files, errs, alive, phase, failed, told>>
environment == <<name, phase, failed, told>>

Step == [stage : Stages, err : Errs]
Result == [stage : Stages, status : Statuses, steps : Seq(Step), whole : BOOLEAN]

Init ==
    /\ name \in [Stages -> Tests]
    /\ inflight = [s \in {} |-> <<>>]
    /\ writing = {}
    /\ files = {}
    /\ errs = {}
    /\ alive = TRUE
    /\ phase = [s \in Stages |-> "new"]
    /\ failed = [s \in Stages |-> FALSE]
    /\ told = [s \in Stages |-> <<>>]

Put(s, steps) == [t \in DOMAIN inflight \cup {s} |-> IF t = s THEN steps ELSE inflight[t]]
Without(s) == [t \in DOMAIN inflight \ {s} |-> inflight[t]]

stepStatus(err) ==
    CASE err = "nil" -> "passed" [] err = "panic" -> "broken" [] OTHER -> "failed"

-----------------------------------------------------------------------------
(***************************************************************************)
(* Plausible bugs, none of them in the code: see Resolution.               *)
(***************************************************************************)

\* The first bad step decides, be it failed or broken.
BugFirstBadStepDecides(steps) ==
    LET bad == SelectSeq(steps, LAMBDA x : x.err # "nil")
    IN  IF bad = <<>> THEN "failed" ELSE stepStatus(bad[1].err)

\* A step is filed with some stage of the same test.
BugFiledByTest(s, e) ==
    /\ alive
    /\ phase[s] = "open"
    /\ Len(told[s]) < MaxSteps
    /\ LET t == CHOOSE t \in DOMAIN inflight : name[t] = name[s]
       IN  inflight' = Put(t, Append(inflight[t], [stage |-> s, err |-> e]))
    /\ told' = [told EXCEPT ![s] = Append(@, [stage |-> s, err |-> e])]
    /\ UNCHANGED <<writing, files, errs, alive, name, phase, failed>>

\* StageClosed reads its stage's entry and leaves it there.
BugEntryStays(s, f) ==
    /\ alive
    /\ phase[s] \in {"new", "open"}
    /\ (\E i \in DOMAIN told[s] : told[s][i].err # "nil") => f
    /\ phase' = [phase EXCEPT ![s] = IF @ = "new" THEN "refused" ELSE "closed"]
    /\ failed' = [failed EXCEPT ![s] = f]
    /\ writing' = IF s \in DOMAIN inflight
                  THEN writing \cup {[stage |-> s, steps |-> inflight[s], failed |-> f, made |-> FALSE]}
                  ELSE writing
    /\ UNCHANGED <<inflight, files, errs, alive, name, told>>

\* A write error is dropped: an Observer must not fail a test.
BugErrorDropped(w) ==
    /\ alive
    /\ writing' = writing \ {w}
    /\ UNCHANGED <<inflight, files, errs, alive, environment>>

\* A stage that closed without having been entered gets a result all the same.
BugResultForNobody(s, f) ==
    /\ alive
    /\ phase[s] \in {"new", "open"}
    /\ (\E i \in DOMAIN told[s] : told[s][i].err # "nil") => f
    /\ phase' = [phase EXCEPT ![s] = IF @ = "new" THEN "refused" ELSE "closed"]
    /\ failed' = [failed EXCEPT ![s] = f]
    /\ inflight' = Without(s)
    /\ writing' = writing \cup
                  {[stage |-> s, steps |-> IF s \in DOMAIN inflight THEN inflight[s] ELSE <<>>,
                    failed |-> f, made |-> FALSE]}
    /\ UNCHANGED <<files, errs, alive, name, told>>

-----------------------------------------------------------------------------
\* verdict of a failed test: broken outranks failed, wherever it came.
verdict(steps) ==
    IF \E i \in DOMAIN steps : stepStatus(steps[i].err) = "broken" THEN "broken" ELSE "failed"

buildResult(w) ==
    [stage |-> w.stage, steps |-> w.steps, whole |-> TRUE,
     status |-> IF w.failed THEN verdict(w.steps) ELSE "passed"]

StageEntered(s) ==
    /\ alive
    /\ phase[s] = "new"
    /\ phase' = [phase EXCEPT ![s] = "open"]
    /\ inflight' = Put(s, <<>>)
    /\ UNCHANGED <<writing, files, errs, alive, name, failed, told>>

StepRan(s, e) ==
    /\ alive
    /\ phase[s] = "open"
    /\ Len(told[s]) < MaxSteps
    /\ inflight' = IF s \in DOMAIN inflight
                   THEN Put(s, Append(inflight[s], [stage |-> s, err |-> e]))
                   ELSE inflight
    /\ told' = [told EXCEPT ![s] = Append(@, [stage |-> s, err |-> e])]
    /\ UNCHANGED <<writing, files, errs, alive, name, phase, failed>>

\* A chain kept in use after its stage was closed by hand: the step is dropped.
StepRanLate(s, e) ==
    /\ alive
    /\ phase[s] \in {"closed", "refused"}
    /\ inflight' = IF s \in DOMAIN inflight
                   THEN Put(s, Append(inflight[s], [stage |-> s, err |-> e]))
                   ELSE inflight
    /\ s \in DOMAIN inflight => Len(inflight[s]) < MaxSteps
    /\ UNCHANGED <<writing, files, errs, alive, environment>>

\* StageClosed under the lock: the entry is taken, if there is one.
StageClosed(s, f) ==
    /\ alive
    /\ phase[s] \in {"new", "open"}
    /\ (\E i \in DOMAIN told[s] : told[s][i].err # "nil") => f
    /\ phase' = [phase EXCEPT ![s] = IF @ = "new" THEN "refused" ELSE "closed"]
    /\ failed' = [failed EXCEPT ![s] = f]
    /\ inflight' = Without(s)
    /\ writing' = IF s \in DOMAIN inflight
                  THEN writing \cup {[stage |-> s, steps |-> inflight[s], failed |-> f, made |-> FALSE]}
                  ELSE writing
    /\ UNCHANGED <<files, errs, alive, name, told>>

\* os.WriteFile, outside the lock: the file is created, then written.
WriteCreates(w) ==
    /\ alive
    /\ ~w.made
    /\ writing' = (writing \ {w}) \cup {[w EXCEPT !.made = TRUE]}
    /\ files' = files \cup {[buildResult(w) EXCEPT !.whole = FALSE]}
    /\ UNCHANGED <<inflight, errs, alive, environment>>

WriteFills(w) ==
    /\ alive
    /\ w.made
    /\ writing' = writing \ {w}
    /\ files' = (files \ {[buildResult(w) EXCEPT !.whole = FALSE]}) \cup {buildResult(w)}
    /\ UNCHANGED <<inflight, errs, alive, environment>>

\* The file could not be created, or not written: the error is kept for Err.
WriteFails(w) ==
    /\ alive
    /\ writing' = writing \ {w}
    /\ errs' = errs \cup {w.stage}
    /\ UNCHANGED <<inflight, files, alive, environment>>

\* The binary dies under the reporter: a timeout, a panic outside every step.
Dies ==
    /\ alive
    /\ alive' = FALSE
    /\ UNCHANGED <<inflight, writing, files, errs, environment>>

Over == (~alive \/ (writing = {} /\ \A s \in Stages : phase[s] \in {"closed", "refused"})) /\ UNCHANGED vars

Next ==
    \/ \E s \in Stages : StageEntered(s)
    \/ \E s \in Stages, e \in Errs : StepRan(s, e) \/ StepRanLate(s, e)
    \/ \E s \in Stages, f \in BOOLEAN : StageClosed(s, f)
    \/ \E w \in writing : WriteCreates(w) \/ WriteFills(w) \/ WriteFails(w)
    \/ Dies
    \/ Over

Spec == Init /\ [][Next]_vars

-----------------------------------------------------------------------------
\* The reporter's state: an entry for exactly the stages that are open, of the
\* steps they told; and a stage has one result at most, none before it closes and
\* none at all if it was never entered (allure.go:54-58, 133-134).
OneResultPerStage ==
    /\ DOMAIN inflight = {s \in Stages : phase[s] = "open"}
    /\ \A s \in DOMAIN inflight : inflight[s] \in Seq(Step)
    /\ files \subseteq Result
    /\ \A f \in files : phase[f.stage] = "closed"
    /\ \A f, g \in files : f.stage = g.stage => f = g

\* A result tells its own stage's steps, every one told while the stage was open,
\* in the order they arrived, and of no other stage (observer.go:26-28); and a
\* crash is the louder fact: a failed test with a panic among its steps is broken,
\* whatever failed before it, a test that passed is passed (allure.go:188-190).
ResultTellsTheStage ==
    \A f \in files :
        LET outcomes == {told[f.stage][i].err : i \in DOMAIN told[f.stage]}
        IN  /\ f.steps = told[f.stage]
            /\ (f.status = "passed") <=> ~failed[f.stage]
            /\ failed[f.stage] => ((f.status = "broken") <=> ("panic" \in outcomes))

\* A stage that was entered and has closed is in the results, in the making, or
\* in what Err reports: no result is missing unnoticed (allure.go:57-58, 90-93);
\* and a part of one is left behind by a write that Err reports, or by a binary
\* that died in it, and by nothing else (allure.go:133-134).
NothingMissingUnnoticed ==
    /\ \A s \in Stages :
          phase[s] = "closed" =>
              \/ \E f \in files : f.stage = s /\ f.whole
              \/ \E w \in writing : w.stage = s
              \/ s \in errs
    /\ \A f \in files :
          \/ f.whole
          \/ f.stage \in errs
          \/ \E w \in writing : w.stage = f.stage /\ w.made

=============================================================================
