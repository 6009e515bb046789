---------------------------- MODULE AllureProofs ----------------------------
(***************************************************************************)
(* Proofs about Allure, for any stages, test names and number of steps.    *)
(***************************************************************************)
EXTENDS Allure, SequenceTheorems, TLAPS

Writing == [stage : Stages, steps : Seq(Step), failed : BOOLEAN, made : BOOLEAN]

\* What is heard of a stage while it is open is what it is told of.
HeardOK ==
    /\ phase \in [Stages -> {"new", "open", "closed", "refused"}]
    /\ failed \in [Stages -> BOOLEAN]
    /\ told \in [Stages -> Seq(Step)]
    /\ \A s \in Stages : phase[s] = "new" => told[s] = <<>>
    /\ errs \subseteq Stages
    /\ DOMAIN inflight = {s \in Stages : phase[s] = "open"}
    /\ \A s \in DOMAIN inflight : inflight[s] = told[s]

\* A result in the making is of a closed stage, and has its steps and verdict.
WritingOK ==
    /\ writing \subseteq Writing
    /\ \A w \in writing : /\ phase[w.stage] = "closed"
                          /\ w.steps = told[w.stage]
                          /\ w.failed = failed[w.stage]
    /\ \A w, x \in writing : w.stage = x.stage => w = x

FilesOK ==
    /\ files \subseteq Result
    /\ \A f \in files : /\ phase[f.stage] = "closed"
                        /\ f.steps = told[f.stage]
                        /\ f.status = IF failed[f.stage] THEN verdict(told[f.stage]) ELSE "passed"
    /\ \A f, g \in files : f.stage = g.stage => f = g

\* A stage whose result is in the making has a file once one was created, a part
\* of it until it is written.
MakingOK ==
    \A w \in writing : \A f \in files : f.stage = w.stage => w.made /\ ~f.whole

IInv == /\ HeardOK
        /\ WritingOK
        /\ FilesOK
        /\ MakingOK
        /\ NothingMissingUnnoticed

-----------------------------------------------------------------------------
LEMMA VerdictFacts ==
    ASSUME NEW steps \in Seq(Step)
    PROVE  /\ verdict(steps) \in {"failed", "broken"}
           /\ verdict(steps) = "broken" <=> "panic" \in {steps[i].err : i \in DOMAIN steps}
  <1>1. \A i \in DOMAIN steps : steps[i].err \in Errs
    <2>1. DOMAIN steps = 1..Len(steps)
      BY LenProperties
    <2>2. \A i \in 1..Len(steps) : steps[i] \in Step
      BY ElementOfSeq
    <2> QED BY <2>1, <2>2 DEF Step
  <1>2. \A e \in Errs : stepStatus(e) = "broken" <=> e = "panic"
    BY DEF Errs, stepStatus
  <1>3. (\E i \in DOMAIN steps : stepStatus(steps[i].err) = "broken")
           <=> (\E i \in DOMAIN steps : steps[i].err = "panic")
    BY <1>1, <1>2
  <1> QED BY <1>3 DEF verdict

\* What a file says of the stage it is being written for.
LEMMA BuildFacts ==
    ASSUME HeardOK, WritingOK, NEW w \in writing
    PROVE  /\ buildResult(w) \in Result
           /\ buildResult(w).stage = w.stage
           /\ buildResult(w).steps = told[w.stage]
           /\ buildResult(w).status = IF failed[w.stage] THEN verdict(told[w.stage]) ELSE "passed"
           /\ buildResult(w).whole
  <1>1. w \in Writing /\ w.stage \in Stages /\ w.steps \in Seq(Step) /\ w.failed \in BOOLEAN
    BY DEF WritingOK, Writing
  <1>2. w.steps = told[w.stage] /\ w.failed = failed[w.stage]
    BY DEF WritingOK
  <1>3. verdict(w.steps) \in {"failed", "broken"}
    BY <1>1, VerdictFacts
  <1>4. (IF w.failed THEN verdict(w.steps) ELSE "passed") \in Statuses
    BY <1>3 DEF Statuses
  <1>5. buildResult(w) = [stage |-> w.stage, steps |-> w.steps, whole |-> TRUE,
                          status |-> IF w.failed THEN verdict(w.steps) ELSE "passed"]
    BY DEF buildResult
  <1>6. buildResult(w) \in Result
    BY <1>1, <1>4, <1>5 DEF Result
  <1> QED BY <1>2, <1>5, <1>6

LEMMA InitIInv == Init => IInv
  BY DEF Init, IInv, HeardOK, WritingOK, FilesOK, MakingOK, NothingMissingUnnoticed

\* A step that changes nothing a file or a result in the making speaks of.
LEMMA ResultsKept ==
    ASSUME IInv, UNCHANGED <<writing, files, errs, failed>>,
           \A s \in Stages : phase[s] = "closed" <=> phase'[s] = "closed",
           \A s \in Stages : phase[s] = "closed" => told'[s] = told[s]
    PROVE  WritingOK' /\ FilesOK' /\ MakingOK' /\ NothingMissingUnnoticed'
  <1>1. /\ \A w \in writing : w.stage \in Stages
        /\ \A f \in files : f.stage \in Stages
    BY DEF IInv, WritingOK, FilesOK, Writing, Result
  <1>2. WritingOK' /\ MakingOK' /\ NothingMissingUnnoticed'
    BY <1>1 DEF IInv, WritingOK, MakingOK, NothingMissingUnnoticed
  <1>3. FilesOK'
    BY <1>1 DEF IInv, FilesOK, verdict
  <1> QED BY <1>2, <1>3

LEMMA StageEnteredKeeps ==
    ASSUME IInv, NEW s \in Stages, StageEntered(s)
    PROVE  IInv'
  <1>1. /\ UNCHANGED <<writing, files, errs, failed, told>>
        /\ phase[s] = "new" /\ phase' = [phase EXCEPT ![s] = "open"]
        /\ inflight' = [t \in DOMAIN inflight \cup {s} |-> IF t = s THEN <<>> ELSE inflight[t]]
    BY DEF StageEntered, Put
  <1>2. /\ DOMAIN inflight' = DOMAIN inflight \cup {s}
        /\ \A t \in DOMAIN inflight' : inflight'[t] = IF t = s THEN <<>> ELSE inflight[t]
        /\ \A t \in Stages : phase'[t] = IF t = s THEN "open" ELSE phase[t]
    BY <1>1 DEF IInv, HeardOK
  <1>3. HeardOK'
    BY <1>1, <1>2 DEF IInv, HeardOK
  <1>4. \A t \in Stages : phase[t] = "closed" <=> phase'[t] = "closed"
    BY <1>1, <1>2
  <1> QED BY <1>1, <1>3, <1>4, ResultsKept DEF IInv

LEMMA StepRanKeeps ==
    ASSUME IInv, NEW s \in Stages, NEW e \in Errs, StepRan(s, e)
    PROVE  IInv'
  <1> DEFINE x == [stage |-> s, err |-> e]
  <1>1. /\ UNCHANGED <<writing, files, errs, phase, failed>>
        /\ phase[s] = "open" /\ s \in DOMAIN inflight
        /\ inflight' = [t \in DOMAIN inflight \cup {s} |-> IF t = s THEN Append(inflight[s], x) ELSE inflight[t]]
        /\ told' = [told EXCEPT ![s] = Append(@, x)]
    BY DEF StepRan, Put, IInv, HeardOK
  <1>2. x \in Step /\ told[s] \in Seq(Step)
    BY DEF Step, IInv, HeardOK
  <1> HIDE DEF x
  <1>3. Append(told[s], x) \in Seq(Step)
    BY <1>2
  <1>4. /\ told' \in [Stages -> Seq(Step)]
        /\ \A t \in Stages : told'[t] = IF t = s THEN Append(told[s], x) ELSE told[t]
    BY <1>1, <1>3 DEF IInv, HeardOK
  <1>5. /\ DOMAIN inflight' = DOMAIN inflight
        /\ \A t \in DOMAIN inflight : inflight'[t] = IF t = s THEN Append(inflight[s], x) ELSE inflight[t]
    BY <1>1
  <1>6. HeardOK'
    BY <1>1, <1>4, <1>5 DEF IInv, HeardOK
  <1>7. \A t \in Stages : phase[t] = "closed" => told'[t] = told[t]
    BY <1>1, <1>4
  <1> QED BY <1>1, <1>6, <1>7, ResultsKept DEF IInv

LEMMA StepRanLateKeeps ==
    ASSUME IInv, NEW s \in Stages, NEW e \in Errs, StepRanLate(s, e)
    PROVE  IInv'
  <1>1. s \notin DOMAIN inflight
    BY DEF StepRanLate, IInv, HeardOK
  <1>2. UNCHANGED <<writing, files, errs, phase, failed, told, inflight>>
    BY <1>1 DEF StepRanLate, environment
  <1>3. HeardOK'
    BY <1>2 DEF IInv, HeardOK
  <1> QED BY <1>2, <1>3, ResultsKept DEF IInv

\* The entry goes, and the result of a stage that had one is in the making.
LEMMA StageClosedKeeps ==
    ASSUME IInv, NEW s \in Stages, NEW f \in BOOLEAN, StageClosed(s, f)
    PROVE  IInv'
  <1> DEFINE x == [stage |-> s, steps |-> inflight[s], failed |-> f, made |-> FALSE]
  <1>1. /\ UNCHANGED <<files, errs, told>>
        /\ phase[s] \in {"new", "open"}
        /\ phase' = [phase EXCEPT ![s] = IF @ = "new" THEN "refused" ELSE "closed"]
        /\ failed' = [failed EXCEPT ![s] = f]
        /\ inflight' = [t \in DOMAIN inflight \ {s} |-> inflight[t]]
        /\ writing' = IF s \in DOMAIN inflight THEN writing \cup {x} ELSE writing
    BY DEF StageClosed, Without
  <1>2. /\ \A t \in Stages : /\ phase'[t] = IF t = s THEN (IF phase[s] = "new" THEN "refused" ELSE "closed") ELSE phase[t]
                             /\ failed'[t] = IF t = s THEN f ELSE failed[t]
        /\ s \in DOMAIN inflight <=> phase[s] = "open"
        /\ s \in DOMAIN inflight => inflight[s] = told[s]
        /\ told[s] \in Seq(Step)
    BY <1>1 DEF IInv, HeardOK
  <1>3. HeardOK'
    BY <1>1, <1>2 DEF IInv, HeardOK
  <1>4. s \in DOMAIN inflight => x \in Writing
    BY <1>2 DEF Writing
  <1>5. x.stage = s /\ x.steps = inflight[s] /\ x.failed = f /\ ~x.made
    OBVIOUS
  <1> HIDE DEF x
  <1>6. /\ \A w \in writing : w \in Writing /\ w.stage \in Stages /\ w.stage # s
        /\ \A g \in files : g.stage \in Stages /\ g.stage # s
    BY <1>1 DEF IInv, WritingOK, FilesOK, Writing, Result
  <1>7. WritingOK'
    <2>1. \A w \in writing' : w \in writing \/ (w = x /\ s \in DOMAIN inflight)
      BY <1>1
    <2>2. ASSUME NEW w \in writing'
          PROVE  w \in Writing /\ phase'[w.stage] = "closed" /\ w.steps = told[w.stage] /\ w.failed = failed'[w.stage]
      <3>1. CASE w \in writing
        BY <1>2, <1>6, <3>1 DEF IInv, WritingOK
      <3>2. CASE w = x /\ s \in DOMAIN inflight
        BY <1>2, <1>4, <1>5, <3>2
      <3> QED BY <2>1, <3>1, <3>2
    <2>3. \A w, y \in writing' : w.stage = y.stage => w = y
      BY <1>5, <1>6, <2>1 DEF IInv, WritingOK
    <2> QED BY <1>1, <2>2, <2>3 DEF WritingOK
  <1>8. FilesOK'
    BY <1>1, <1>2, <1>6 DEF IInv, FilesOK, verdict
  <1>9. MakingOK'
    BY <1>1, <1>5, <1>6 DEF IInv, MakingOK
  <1>10. NothingMissingUnnoticed'
    <2>1. \A t \in Stages : phase'[t] = "closed" => phase[t] = "closed" \/ (t = s /\ x \in writing')
      BY <1>1, <1>2
    <2>2. writing \subseteq writing'
      BY <1>1
    <2>3. ASSUME NEW t \in Stages, phase'[t] = "closed"
          PROVE  \/ \E g \in files : g.stage = t /\ g.whole
                 \/ \E w \in writing' : w.stage = t
                 \/ t \in errs
      BY <1>5, <2>1, <2>2, <2>3 DEF IInv, NothingMissingUnnoticed
    <2>4. \A g \in files : g.whole \/ g.stage \in errs \/ \E w \in writing' : w.stage = g.stage /\ w.made
      BY <2>2 DEF IInv, NothingMissingUnnoticed
    <2> QED BY <1>1, <2>3, <2>4 DEF NothingMissingUnnoticed
  <1> QED BY <1>3, <1>7, <1>8, <1>9, <1>10 DEF IInv

-----------------------------------------------------------------------------
LEMMA WriteCreatesKeeps ==
    ASSUME IInv, NEW w \in writing, WriteCreates(w)
    PROVE  IInv'
  <1> DEFINE y == [w EXCEPT !.made = TRUE]
             g == [buildResult(w) EXCEPT !.whole = FALSE]
  <1>1. /\ UNCHANGED <<inflight, errs, phase, failed, told>> /\ ~w.made
        /\ writing' = (writing \ {w}) \cup {y} /\ files' = files \cup {g}
    BY DEF WriteCreates, environment
  <1>2. /\ w \in Writing /\ w.stage \in Stages
        /\ y \in Writing /\ y.stage = w.stage /\ y.steps = w.steps /\ y.failed = w.failed /\ y.made
    BY DEF IInv, WritingOK, Writing
  <1>3. /\ g \in Result /\ g.stage = w.stage /\ g.steps = told[w.stage] /\ ~g.whole
        /\ g.status = IF failed[w.stage] THEN verdict(told[w.stage]) ELSE "passed"
    <2> DEFINE r == buildResult(w)
    <2>1. /\ r \in Result /\ r.stage = w.stage /\ r.steps = told[w.stage]
          /\ r.status = IF failed[w.stage] THEN verdict(told[w.stage]) ELSE "passed"
      BY BuildFacts DEF IInv
    <2> HIDE DEF r
    <2>2. /\ [r EXCEPT !.whole = FALSE] \in Result /\ [r EXCEPT !.whole = FALSE].stage = r.stage
          /\ [r EXCEPT !.whole = FALSE].steps = r.steps /\ [r EXCEPT !.whole = FALSE].status = r.status
          /\ [r EXCEPT !.whole = FALSE].whole = FALSE
      BY <2>1 DEF Result
    <2> QED BY <2>1, <2>2 DEF r
  <1> HIDE DEF y, g
  <1>4. HeardOK'
    BY <1>1 DEF IInv, HeardOK
  <1>5. \A f \in files : f.stage # w.stage
    BY <1>1 DEF IInv, MakingOK
  <1>6. WritingOK'
    BY <1>1, <1>2 DEF IInv, WritingOK
  <1>7. FilesOK'
    <2>1. phase[w.stage] = "closed"
      BY DEF IInv, WritingOK
    <2>2. verdict(told[w.stage])' = verdict(told[w.stage])
      BY <1>1 DEF verdict
    <2>3. files' \subseteq Result
      BY <1>1, <1>3 DEF IInv, FilesOK
    <2>4. \A f \in files' : /\ phase[f.stage] = "closed" /\ f.steps = told[f.stage]
                            /\ f.status = IF failed[f.stage] THEN verdict(told[f.stage]) ELSE "passed"
      BY <1>1, <1>3, <2>1 DEF IInv, FilesOK
    <2>5. \A f, h \in files' : f.stage = h.stage => f = h
      BY <1>1, <1>3, <1>5 DEF IInv, FilesOK
    <2> QED BY <1>1, <2>3, <2>4, <2>5 DEF FilesOK, verdict
  <1>8. MakingOK'
    BY <1>1, <1>2, <1>3, <1>5 DEF IInv, MakingOK, WritingOK
  <1>9. NothingMissingUnnoticed'
    BY <1>1, <1>2, <1>3 DEF IInv, NothingMissingUnnoticed
  <1> QED BY <1>4, <1>6, <1>7, <1>8, <1>9 DEF IInv

LEMMA WriteFillsKeeps ==
    ASSUME IInv, NEW w \in writing, WriteFills(w)
    PROVE  IInv'
  <1> DEFINE r == buildResult(w)
             g == [r EXCEPT !.whole = FALSE]
  <1>1. /\ UNCHANGED <<inflight, errs, phase, failed, told>> /\ w.made
        /\ writing' = writing \ {w} /\ files' = (files \ {g}) \cup {r}
    BY DEF WriteFills, environment
  <1>2. /\ r \in Result /\ r.stage = w.stage /\ r.steps = told[w.stage] /\ r.whole
        /\ r.status = IF failed[w.stage] THEN verdict(told[w.stage]) ELSE "passed"
    BY BuildFacts DEF IInv
  <1> HIDE DEF r
  <1>3. g \in Result /\ g.stage = r.stage /\ g.steps = r.steps /\ g.status = r.status /\ g.whole = FALSE
    BY <1>2 DEF Result
  <1>4. \A f \in files : f.stage = w.stage => f = g
    <2> SUFFICES ASSUME NEW f \in files, f.stage = w.stage PROVE f = g
      OBVIOUS
    <2>1. f \in Result /\ f.steps = r.steps /\ f.status = r.status /\ ~f.whole
      BY <1>2 DEF IInv, FilesOK, MakingOK
    <2>2. f.whole = FALSE
      BY <2>1 DEF Result
    <2> HIDE DEF g
    <2> QED BY <1>2, <1>3, <2>1, <2>2 DEF Result
  <1> HIDE DEF g
  <1>5. HeardOK'
    BY <1>1 DEF IInv, HeardOK
  <1>6. WritingOK'
    BY <1>1 DEF IInv, WritingOK
  <1>7. \A f \in files' : f = r \/ (f \in files /\ f.stage # w.stage)
    BY <1>1, <1>4
  <1>8. FilesOK'
    <2>1. phase[w.stage] = "closed"
      BY DEF IInv, WritingOK
    <2>2. files' \subseteq Result
      BY <1>2, <1>7 DEF IInv, FilesOK
    <2>3. \A f \in files' : /\ phase[f.stage] = "closed" /\ f.steps = told[f.stage]
                            /\ f.status = IF failed[f.stage] THEN verdict(told[f.stage]) ELSE "passed"
      BY <1>2, <1>7, <2>1 DEF IInv, FilesOK
    <2>4. \A f, h \in files' : f.stage = h.stage => f = h
      BY <1>2, <1>7 DEF IInv, FilesOK
    <2> QED BY <1>1, <2>2, <2>3, <2>4 DEF FilesOK, verdict
  <1>9. \A x \in writing' : x \in writing /\ x.stage # w.stage
    BY <1>1 DEF IInv, WritingOK
  <1>10. MakingOK'
    BY <1>2, <1>7, <1>9 DEF IInv, MakingOK
  <1>11. NothingMissingUnnoticed'
    <2>1. ASSUME NEW s \in Stages, phase[s] = "closed"
          PROVE  \/ \E f \in files' : f.stage = s /\ f.whole
                 \/ \E x \in writing' : x.stage = s
                 \/ s \in errs
      <3>1. CASE s = w.stage
        BY <1>1, <1>2, <3>1
      <3>2. CASE s # w.stage
        BY <1>1, <1>2, <1>3, <2>1, <3>2 DEF IInv, NothingMissingUnnoticed
      <3> QED BY <3>1, <3>2
    <2>2. \A f \in files' : f.whole \/ f.stage \in errs \/ \E x \in writing' : x.stage = f.stage /\ x.made
      BY <1>1, <1>2, <1>7 DEF IInv, NothingMissingUnnoticed
    <2> QED BY <1>1, <2>1, <2>2 DEF NothingMissingUnnoticed
  <1> QED BY <1>5, <1>6, <1>8, <1>10, <1>11 DEF IInv

LEMMA WriteFailsKeeps ==
    ASSUME IInv, NEW w \in writing, WriteFails(w)
    PROVE  IInv'
  <1>1. /\ UNCHANGED <<inflight, files, phase, failed, told>>
        /\ writing' = writing \ {w} /\ errs' = errs \cup {w.stage}
    BY DEF WriteFails, environment
  <1>2. w.stage \in Stages
    BY DEF IInv, WritingOK, Writing
  <1>3. HeardOK' /\ WritingOK' /\ MakingOK'
    BY <1>1, <1>2 DEF IInv, HeardOK, WritingOK, MakingOK
  <1>4. FilesOK'
    BY <1>1 DEF IInv, FilesOK, verdict
  <1>5. NothingMissingUnnoticed'
    BY <1>1 DEF IInv, NothingMissingUnnoticed
  <1> QED BY <1>3, <1>4, <1>5 DEF IInv

LEMMA NothingElseKeeps ==
    ASSUME IInv, Dies \/ UNCHANGED vars
    PROVE  IInv'
  <1>1. UNCHANGED <<inflight, writing, files, errs, phase, failed, told>>
    BY DEF Dies, vars, environment
  <1>2. HeardOK'
    BY <1>1 DEF IInv, HeardOK
  <1> QED BY <1>1, <1>2, ResultsKept DEF IInv

LEMMA NextKeeps == IInv /\ [Next]_vars => IInv'
  <1> SUFFICES ASSUME IInv, [Next]_vars PROVE IInv'
    OBVIOUS
  <1>1. ASSUME NEW s \in Stages, StageEntered(s) PROVE IInv'
    BY <1>1, StageEnteredKeeps
  <1>2. ASSUME NEW s \in Stages, NEW e \in Errs, StepRan(s, e) \/ StepRanLate(s, e) PROVE IInv'
    BY <1>2, StepRanKeeps, StepRanLateKeeps
  <1>3. ASSUME NEW s \in Stages, NEW f \in BOOLEAN, StageClosed(s, f) PROVE IInv'
    BY <1>3, StageClosedKeeps
  <1>4. ASSUME NEW w \in writing, WriteCreates(w) \/ WriteFills(w) \/ WriteFails(w) PROVE IInv'
    BY <1>4, WriteCreatesKeeps, WriteFillsKeeps, WriteFailsKeeps
  <1>5. CASE Dies \/ UNCHANGED vars
    BY <1>5, NothingElseKeeps
  <1> QED BY <1>1, <1>2, <1>3, <1>4, <1>5 DEF Next, Over

-----------------------------------------------------------------------------
\* The invariant holds of every behaviour, whatever the stages do, the disk does
\* and whenever the binary dies.
THEOREM Invariance == Spec => []IInv
  BY InitIInv, NextKeeps, PTL DEF Spec

\* A stage has one result at most, and none before it closes: StageClosed takes
\* the entry under the lock, so it is never taken twice.
THEOREM OneResultPerStageHolds == Spec => []OneResultPerStage
  <1>1. IInv => OneResultPerStage
    BY DEF IInv, HeardOK, FilesOK, OneResultPerStage
  <1> QED BY Invariance, <1>1, PTL

\* A result has its own stage's steps, all of them and in order, and the status
\* its verdict and its steps call for.
THEOREM ResultTellsTheStageHolds == Spec => []ResultTellsTheStage
  <1>1. IInv => ResultTellsTheStage
    <2> SUFFICES ASSUME IInv, NEW f \in files
                 PROVE  /\ f.steps = told[f.stage]
                        /\ (f.status = "passed") <=> ~failed[f.stage]
                        /\ failed[f.stage] =>
                              ((f.status = "broken")
                                 <=> ("panic" \in {told[f.stage][i].err : i \in DOMAIN told[f.stage]}))
      BY DEF ResultTellsTheStage
    <2>1. f.stage \in Stages
      BY DEF IInv, FilesOK, Result
    <2>2. told[f.stage] \in Seq(Step) /\ failed[f.stage] \in BOOLEAN
      BY <2>1 DEF IInv, HeardOK
    <2>3. /\ f.steps = told[f.stage]
          /\ f.status = IF failed[f.stage] THEN verdict(told[f.stage]) ELSE "passed"
      BY DEF IInv, FilesOK
    <2> QED BY <2>2, <2>3, VerdictFacts
  <1> QED BY Invariance, <1>1, PTL

\* No result is missing, or in pieces, without Err or the binary's death to show
\* for it.
THEOREM NothingMissingUnnoticedHolds == Spec => []NothingMissingUnnoticed
  <1>1. IInv => NothingMissingUnnoticed
    BY DEF IInv
  <1> QED BY Invariance, <1>1, PTL
=============================================================================
