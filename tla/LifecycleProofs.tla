--------------------------- MODULE LifecycleProofs ---------------------------
(***************************************************************************)
(* Proofs about Lifecycle, for any tests, observers, containers and number *)
(* of stages.                                                              *)
(***************************************************************************)
EXTENDS Lifecycle, SequenceTheorems, FiniteSetTheorems, TLAPS

AtWork == {"opening", "shut", "closing"}

CleanupAt(t, i, what, s) == cleanups[t][i].what = what /\ cleanups[t][i].stage = s

HasClose(t, s) == \E i \in 1..Len(cleanups[t]) : CleanupAt(t, i, "close", s)

\* A test is at work on one stage at a time, one of its own.
WorkOK ==
    /\ Len(containers) <= MaxContainers
    /\ \A t \in Tests :
        /\ pc[t] \in AtWork <=> current[t] # 0
        /\ current[t] # 0 => Here(t).test = t
        /\ pc[t] = "opening" => ~Here(t).closed /\ ~HasClose(t, current[t])
        /\ pc[t] = "shut" /\ after[t] = "fatal" => ~Here(t).closed
        /\ pc[t] = "closing" => Here(t).closed
        /\ pc[t] = "over" => cleanups[t] = <<>>

CleanupsOK ==
    \A t \in Tests : \A i \in 1..Len(cleanups[t]) :
        /\ cleanups[t][i].stage \in 1..Len(stages)
        /\ stages[cleanups[t][i].stage].test = t

\* A stage's scopes are in the order they were opened in, and stay until Close
\* takes them, which somebody is about to call.
ScopesOK(s) ==
    LET g == stages[s] IN
    /\ \A i \in 1..Len(g.scopes) : g.scopes[i] = i
    /\ \A i \in 1..Len(g.toClose) : g.toClose[i] = i
    /\ g.closed => g.scopes = <<>>
    /\ ~g.closed => g.toClose = <<>>
    /\ g.toClose # <<>> => current[g.test] = s /\ pc[g.test] = "closing"
    /\ g.scopes # <<>> => g.unwound \/ current[g.test] = s \/ HasClose(g.test, s)

StagesOK == \A s \in 1..Len(stages) : ScopesOK(s)

\* What is still to be closed was opened before what has been.
FreedOK ==
    /\ \A j \in 1..Len(freed) : /\ freed[j][1] \in 1..Len(stages)
                                /\ stages[freed[j][1]].closed
                                /\ freed[j][2] > Len(stages[freed[j][1]].toClose)
    /\ \A i, j \in 1..Len(freed) : i < j /\ freed[i][1] = freed[j][1] => freed[i][2] > freed[j][2]

\* A stage's checks were left with the test before its Close was.
ChecksOK ==
    /\ \A t \in Tests, s \in Stages : \A i, j \in 1..Len(cleanups[t]) :
          CleanupAt(t, i, "close", s) /\ CleanupAt(t, j, "check", s) => j < i
    /\ \A s \in checked : /\ s \in 1..Len(stages)
                          /\ current[stages[s].test] # s
                          /\ ~HasClose(stages[s].test, s)

TroubleOK ==
    \A s \in troubled :
        /\ s \in 1..Len(stages)
        /\ LET t == stages[s].test IN
           failed[t] \/ (current[t] = s /\ pc[t] = "closing" /\ after[t] = "cleanup" /\ stages[s].erred)

StoryOK ==
    /\ \A i \in 1..Len(story) : /\ story[i].stage \in 1..Len(stages)
                                /\ story[i].to = stages[story[i].stage].observers
                                /\ story[i].what = "closed" => stages[story[i].stage].closed
    /\ \A i, j \in 1..Len(story) :
          story[i].what = "closed" /\ story[j].what = "closed" /\ story[i].stage = story[j].stage => i = j

IInv == /\ TypeOK
        /\ WorkOK
        /\ CleanupsOK
        /\ StagesOK
        /\ FreedOK
        /\ ChecksOK
        /\ TroubleOK
        /\ StoryOK

-----------------------------------------------------------------------------
LEMMA AppendFacts ==
    ASSUME NEW S, NEW q \in Seq(S), NEW x \in S
    PROVE  /\ Append(q, x) \in Seq(S)
           /\ Len(q) \in Nat
           /\ Len(Append(q, x)) = Len(q) + 1
           /\ Append(q, x)[Len(q) + 1] = x
           /\ \A i \in 1..Len(q) : Append(q, x)[i] = q[i]
           /\ \A i \in 1..(Len(q) + 1) : i \in 1..Len(q) \/ i = Len(q) + 1
  OBVIOUS

LEMMA FrontFacts ==
    ASSUME NEW S, NEW q \in Seq(S), q # <<>>
    PROVE  /\ Len(q) \in Nat \ {0} /\ Last(q) = q[Len(q)] /\ Last(q) \in S
           /\ Front(q) \in Seq(S) /\ Len(Front(q)) = Len(q) - 1
           /\ \A i \in 1..Len(Front(q)) : i \in 1..Len(q) /\ i < Len(q) /\ Front(q)[i] = q[i]
           /\ \A i \in 1..Len(q) : i \in 1..Len(Front(q)) \/ i = Len(q)
  <1> DEFINE n == Len(q) - 1
  <1>1. Len(q) \in Nat \ {0} /\ \A i \in 1..Len(q) : q[i] \in S
    BY EmptySeq, LenProperties, ElementOfSeq
  <1>2. n \in Nat /\ 1 \in Int /\ n \in Int /\ \A i \in 1..n : q[i] \in S
    BY <1>1
  <1>3. /\ SubSeq(q, 1, n) \in Seq(S)
        /\ Len(SubSeq(q, 1, n)) = IF 1 <= n THEN n - 1 + 1 ELSE 0
        /\ \A i \in 1..(n - 1 + 1) : SubSeq(q, 1, n)[i] = q[1 + i - 1]
    <2> HIDE DEF n
    <2> QED BY <1>2, SubSeqProperties
  <1>4. Len(SubSeq(q, 1, n)) = n
    <2> HIDE DEF n
    <2> QED BY <1>2, <1>3
  <1>5. \A i \in 1..n : SubSeq(q, 1, n)[i] = q[i]
    <2> HIDE DEF n
    <2>1. \A i \in 1..n : i \in 1..(n - 1 + 1) /\ 1 + i - 1 = i
      BY <1>2
    <2> QED BY <1>3, <2>1
  <1>6. Front(q) = SubSeq(q, 1, n) /\ Last(q) = q[Len(q)]
    BY DEF Front, Last
  <1>7. \A i \in 1..n : i \in 1..Len(q) /\ i < Len(q)
    BY <1>1
  <1>8. \A i \in 1..Len(q) : i \in 1..n \/ i = Len(q)
    BY <1>1
  <1>9. q[Len(q)] \in S
    BY <1>1
  <1> HIDE DEF n
  <1>10. n = Len(q) - 1
    BY DEF n
  <1> QED BY <1>1, <1>3, <1>4, <1>5, <1>6, <1>7, <1>8, <1>9, <1>10

LEMMA InitIInv == Init => IInv
  <1> SUFFICES ASSUME Init PROVE IInv
    OBVIOUS
  <1>1. containers \in Seq(Kinds) /\ Len(containers) <= MaxContainers
    <2>1. PICK n \in 0..MaxContainers : containers \in [1..n -> Kinds]
      BY DEF Init
    <2>2. n \in Nat /\ n <= MaxContainers
      BY BoundsAssumption
    <2>3. containers \in Seq(Kinds) /\ DOMAIN containers = 1..n
      BY <2>1, <2>2, SeqDef
    <2>4. Len(containers) \in Nat /\ 1..Len(containers) = 1..n
      BY <2>3, LenProperties
    <2> QED BY <2>2, <2>3, <2>4
  <1>2. TypeOK
    BY <1>1, BoundsAssumption DEF Init, TypeOK
  <1>3. WorkOK /\ CleanupsOK /\ StagesOK /\ FreedOK /\ ChecksOK /\ TroubleOK /\ StoryOK
    BY <1>1 DEF Init, WorkOK, CleanupsOK, StagesOK, FreedOK, ChecksOK, TroubleOK, StoryOK, AtWork
  <1> QED BY <1>2, <1>3 DEF IInv

LEMMA StageFacts ==
    ASSUME TypeOK, NEW s \in 1..Len(stages)
    PROVE  /\ s \in Stages /\ Len(stages) \in Nat /\ Len(stages) <= MaxStages
           /\ stages[s] \in Stage
           /\ stages[s].test \in Tests /\ stages[s].observers \subseteq Observers
           /\ stages[s].scopes \in Seq(Places) /\ stages[s].toClose \in Seq(Places)
           /\ stages[s].closed \in BOOLEAN /\ stages[s].erred \in BOOLEAN
           /\ stages[s].unwound \in BOOLEAN
  <1>1. stages \in Seq(Stage) /\ Len(stages) \in Nat /\ Len(stages) <= MaxStages
    BY DEF TypeOK
  <1>2. stages[s] \in Stage
    BY <1>1, ElementOfSeq
  <1>3. s \in Stages
    BY <1>1, BoundsAssumption DEF Stages
  <1> QED BY <1>1, <1>2, <1>3 DEF Stage

\* A step of one test that leaves every stage as it is.
LEMMA MoveKeeps ==
    ASSUME IInv, TypeOK', NEW t \in Tests,
           UNCHANGED <<containers, stages, story, freed, troubled>>,
           \A u \in Tests \ {t} : /\ pc'[u] = pc[u] /\ current'[u] = current[u]
                                  /\ after'[u] = after[u] /\ cleanups'[u] = cleanups[u],
           \A u \in Tests : failed[u] => failed'[u],
           pc'[t] \in {"body", "shut", "cleanup", "over"},
           pc'[t] = "shut" <=> current'[t] # 0,
           pc'[t] = "shut" /\ after'[t] = "fatal" => ~stages[current'[t]].closed,
           pc'[t] = "over" => cleanups'[t] = <<>>,
           current'[t] # 0 => stages[current'[t]].test = t,
           current[t] # 0 /\ current'[t] # current[t] =>
               /\ stages[current[t]].closed
               /\ stages[current[t]].toClose = <<>>,
           pc[t] = "closing" => /\ stages[current[t]].toClose = <<>>
                                /\ after[t] = "cleanup" /\ stages[current[t]].erred => failed'[t],
           \A i \in 1..Len(cleanups'[t]) : i \in 1..Len(cleanups[t]) /\ cleanups'[t][i] = cleanups[t][i],
           \A s \in Stages : HasClose(t, s) => HasClose(t, s)' \/ current'[t] = s,
           \A s \in checked' : /\ s \in 1..Len(stages)
                               /\ current'[t] # s
                               /\ s \in checked \/ (stages[s].test = t /\ ~HasClose(t, s))
    PROVE  IInv'
  <1> DEFINE Close1(u, s) == \E i \in 1..Len(cleanups'[u]) :
                                cleanups'[u][i].what = "close" /\ cleanups'[u][i].stage = s
  <1>1. /\ \A u, s : HasClose(u, s)' <=> Close1(u, s)
        /\ \A s \in 1..Len(stages) : s \in Stages /\ stages[s].test \in Tests
    BY StageFacts DEF HasClose, CleanupAt, IInv
  <1>2. \A u \in Tests : \A s : Close1(u, s) => HasClose(u, s)
    BY DEF HasClose, CleanupAt
  <1>3. WorkOK'
    <2>1. \A u \in Tests \ {t} :
            /\ pc'[u] \in AtWork <=> current'[u] # 0
            /\ current'[u] # 0 => stages'[current'[u]].test = u
            /\ pc'[u] = "opening" => ~stages'[current'[u]].closed /\ ~Close1(u, current'[u])
            /\ pc'[u] = "shut" /\ after'[u] = "fatal" => ~stages'[current'[u]].closed
            /\ pc'[u] = "closing" => stages'[current'[u]].closed
            /\ pc'[u] = "over" => cleanups'[u] = <<>>
      BY <1>2 DEF IInv, WorkOK, Here
    <2>2. /\ pc'[t] \in AtWork <=> current'[t] # 0
          /\ current'[t] # 0 => stages'[current'[t]].test = t
          /\ pc'[t] = "shut" /\ after'[t] = "fatal" => ~stages'[current'[t]].closed
          /\ pc'[t] # "opening" /\ pc'[t] # "closing"
          /\ pc'[t] = "over" => cleanups'[t] = <<>>
      BY DEF AtWork
    <2> QED BY <1>1, <2>1, <2>2 DEF IInv, WorkOK, Here
  <1>4. CleanupsOK'
    BY DEF IInv, CleanupsOK
  <1>5. StagesOK'
    <2> SUFFICES ASSUME NEW s \in 1..Len(stages) PROVE ScopesOK(s)'
      BY DEF StagesOK
    <2> DEFINE u == stages[s].test
    <2>1. ScopesOK(s) /\ u \in Tests /\ s \in Stages
      BY <1>1 DEF IInv, StagesOK
    <2>2. CASE u # t
      <3>1. pc'[u] = pc[u] /\ current'[u] = current[u] /\ (HasClose(u, s) => Close1(u, s))
        BY <2>1, <2>2 DEF HasClose, CleanupAt
      <3> QED BY <1>1, <2>1, <3>1 DEF ScopesOK
    <2>3. CASE u = t
      <3>1. stages[s].toClose = <<>>
        BY <2>1, <2>3 DEF ScopesOK
      <3>2. stages[s].scopes # <<>> => stages[s].unwound \/ current'[t] = s \/ Close1(t, s)
        <4>1. current[t] = s /\ current'[t] # s => stages[s].closed
          BY <2>1
        <4> QED BY <1>1, <2>1, <2>3, <4>1 DEF ScopesOK
      <3> QED BY <1>1, <2>1, <2>3, <3>1, <3>2 DEF ScopesOK
    <2> QED BY <2>2, <2>3
  <1>6. FreedOK' /\ StoryOK'
    BY DEF IInv, FreedOK, StoryOK
  <1>7. ChecksOK'
    <2>1. \A u \in Tests : \A i \in 1..Len(cleanups'[u]) :
              i \in 1..Len(cleanups[u]) /\ cleanups'[u][i] = cleanups[u][i]
      OBVIOUS
    <2>2. \A u \in Tests, s \in Stages : \A i, j \in 1..Len(cleanups'[u]) :
              CleanupAt(u, i, "close", s)' /\ CleanupAt(u, j, "check", s)' => j < i
      BY <2>1 DEF IInv, ChecksOK, CleanupAt
    <2>3. ASSUME NEW s \in checked'
          PROVE  /\ s \in 1..Len(stages)
                 /\ current'[stages[s].test] # s
                 /\ ~Close1(stages[s].test, s)
      <3>1. s \in 1..Len(stages) /\ stages[s].test \in Tests
        BY <1>1
      <3>2. CASE s \in checked
        BY <1>2, <3>1, <3>2 DEF IInv, ChecksOK
      <3>3. CASE stages[s].test = t /\ ~HasClose(t, s)
        BY <1>2, <3>1, <3>3
      <3> QED BY <3>1, <3>2, <3>3
    <2> QED BY <1>1, <2>2, <2>3 DEF ChecksOK
  <1>8. TroubleOK'
    <2> SUFFICES ASSUME NEW s \in troubled
                 PROVE  LET u == stages[s].test IN
                        failed'[u] \/ (current'[u] = s /\ pc'[u] = "closing" /\ after'[u] = "cleanup" /\ stages[s].erred)
      BY DEF IInv, TroubleOK
    <2>1. /\ s \in 1..Len(stages) /\ stages[s].test \in Tests
          /\ LET u == stages[s].test IN
             failed[u] \/ (current[u] = s /\ pc[u] = "closing" /\ after[u] = "cleanup" /\ stages[s].erred)
      BY <1>1 DEF IInv, TroubleOK
    <2> QED BY <2>1
  <1> QED BY <1>3, <1>4, <1>5, <1>6, <1>7, <1>8 DEF IInv

-----------------------------------------------------------------------------
(* The actions that are such steps.                                        *)

\* What a test may say of the stage it is at work on.
LEMMA CurrentFacts ==
    ASSUME IInv, NEW t \in Tests, pc[t] \in AtWork
    PROVE  /\ current[t] \in 1..Len(stages) /\ current[t] \in Stages /\ current[t] # 0
           /\ stages[current[t]] = Here(t) /\ Here(t) \in Stage /\ Here(t).test = t
           /\ current[t] \notin checked
           /\ ScopesOK(current[t])
  <1>1. current[t] \in 0..Len(stages) /\ current[t] # 0 /\ Len(stages) \in Nat
    BY DEF IInv, TypeOK, WorkOK
  <1>2. current[t] \in 1..Len(stages)
    BY <1>1
  <1>3. Here(t).test = t /\ stages[current[t]] = Here(t)
    BY <1>1 DEF IInv, WorkOK, Here
  <1>4. Here(t) \in Stage /\ current[t] \in Stages
    BY <1>2, <1>3, StageFacts DEF IInv
  <1>5. current[t] \notin checked
    BY <1>3 DEF IInv, ChecksOK
  <1> QED BY <1>1, <1>2, <1>3, <1>4, <1>5 DEF IInv, StagesOK

LEMMA EnterUnbuiltKeeps ==
    ASSUME IInv, NEW t \in Tests, EnterUnbuilt(t)
    PROVE  IInv'
  <1>1. /\ UNCHANGED <<containers, observers, stages, current, after, cleanups, story, freed, checked, troubled>>
        /\ failed' = [failed EXCEPT ![t] = TRUE]
        /\ pc[t] = "body" /\ (pc' = [pc EXCEPT ![t] = "cleanup"] \/ pc' = [pc EXCEPT ![t] = "body"])
    BY DEF EnterUnbuilt, Fail, Goto, historyVars
  <1>2. TypeOK'
    BY <1>1 DEF IInv, TypeOK
  <1>3. current[t] = 0
    BY <1>1 DEF IInv, WorkOK, AtWork
  <1>4. \A s : HasClose(t, s)' <=> HasClose(t, s)
    BY <1>1 DEF HasClose, CleanupAt
  <1>5. \A s \in checked : s \in 1..Len(stages) /\ s # 0
    BY DEF IInv, ChecksOK
  <1> QED BY <1>1, <1>2, <1>3, <1>4, <1>5, MoveKeeps DEF IInv, TypeOK

LEMMA ScopeFailsKeeps ==
    ASSUME IInv, NEW t \in Tests, ScopeFails(t)
    PROVE  IInv'
  <1>1. /\ UNCHANGED <<containers, observers, stages, current, cleanups, failed, story, freed, checked, troubled>>
        /\ after' = [after EXCEPT ![t] = "fatal"]
        /\ pc[t] = "opening" /\ pc' = [pc EXCEPT ![t] = "shut"]
    BY DEF ScopeFails, Goto, historyVars
  <1>2. TypeOK'
    BY <1>1 DEF IInv, TypeOK
  <1>3. /\ current[t] # 0 /\ current[t] \notin checked /\ stages[current[t]].test = t
        /\ ~stages[current[t]].closed
    BY <1>1, CurrentFacts DEF AtWork, IInv, WorkOK
  <1>4. \A s : HasClose(t, s)' <=> HasClose(t, s)
    BY <1>1 DEF HasClose, CleanupAt
  <1>5. pc'[t] = "shut" /\ current' = current
    BY <1>1 DEF IInv, TypeOK
  <1>6. \A s \in checked' : s \in 1..Len(stages) /\ current'[t] # s /\ s \in checked
    BY <1>1, <1>3 DEF IInv, ChecksOK
  <1>7. \A u \in Tests \ {t} : pc'[u] = pc[u] /\ after'[u] = after[u]
    BY <1>1 DEF IInv, TypeOK
  <1> QED BY <1>1, <1>2, <1>3, <1>4, <1>5, <1>6, <1>7, MoveKeeps

LEMMA ErrorfKeeps ==
    ASSUME IInv, NEW t \in Tests, Errorf(t)
    PROVE  IInv'
  <1>1. /\ UNCHANGED <<containers, observers, stages, pc, current, after, cleanups, story, freed, checked, troubled>>
        /\ failed' = [failed EXCEPT ![t] = TRUE] /\ pc[t] = "body"
    BY DEF Errorf, Fail, historyVars
  <1>2. TypeOK'
    BY <1>1 DEF IInv, TypeOK
  <1>3. current[t] = 0
    BY <1>1 DEF IInv, WorkOK, AtWork
  <1>4. \A s : HasClose(t, s)' <=> HasClose(t, s)
    BY <1>1 DEF HasClose, CleanupAt
  <1>5. \A s \in checked : s \in 1..Len(stages) /\ s # 0
    BY DEF IInv, ChecksOK
  <1> QED BY <1>1, <1>2, <1>3, <1>4, <1>5, MoveKeeps DEF IInv, TypeOK

LEMMA CloseByHandKeeps ==
    ASSUME IInv, NEW t \in Tests, NEW s \in Stages, CloseByHand(t, s)
    PROVE  IInv'
  <1>1. /\ UNCHANGED <<containers, observers, stages, cleanups, failed, story, freed, checked, troubled>>
        /\ pc[t] = "body" /\ pc' = [pc EXCEPT ![t] = "shut"]
        /\ current' = [current EXCEPT ![t] = s] /\ after' = [after EXCEPT ![t] = "body"]
        /\ [what |-> "close", stage |-> s] \in ToSet(cleanups[t])
    BY DEF CloseByHand, Goto, historyVars
  <1>2. PICK i \in 1..Len(cleanups[t]) : cleanups[t][i] = [what |-> "close", stage |-> s]
    BY <1>1 DEF ToSet, IInv, TypeOK
  <1>3. s \in 1..Len(stages) /\ stages[s].test = t /\ HasClose(t, s)
    BY <1>2 DEF IInv, CleanupsOK, HasClose, CleanupAt
  <1>4. TypeOK'
    BY <1>1, <1>3 DEF IInv, TypeOK
  <1>5. current[t] = 0 /\ s # 0 /\ s \notin checked
    BY <1>1, <1>3 DEF IInv, WorkOK, AtWork, ChecksOK
  <1>6. \A u : HasClose(t, u)' <=> HasClose(t, u)
    BY <1>1 DEF HasClose, CleanupAt
  <1>7. current'[t] = s /\ pc'[t] = "shut" /\ after'[t] # "fatal"
    BY <1>1 DEF IInv, TypeOK
  <1>8. \A q \in checked' : q \in 1..Len(stages) /\ current'[t] # q /\ q \in checked
    BY <1>1, <1>5, <1>7 DEF IInv, ChecksOK
  <1>9. \A u \in Tests \ {t} : pc'[u] = pc[u] /\ current'[u] = current[u] /\ after'[u] = after[u]
    BY <1>1 DEF IInv, TypeOK
  <1> QED BY <1>1, <1>3, <1>4, <1>5, <1>6, <1>7, <1>8, <1>9, MoveKeeps

LEMMA BodyEndsKeeps ==
    ASSUME IInv, NEW t \in Tests, BodyEnds(t)
    PROVE  IInv'
  <1>1. /\ UNCHANGED <<containers, observers, stages, current, after, cleanups, story, freed, checked, troubled>>
        /\ pc[t] = "body" /\ pc' = [pc EXCEPT ![t] = "cleanup"]
    BY DEF BodyEnds, Goto, historyVars
  <1>2. PICK hard \in BOOLEAN : failed' = [failed EXCEPT ![t] = @ \/ hard]
    BY DEF BodyEnds
  <1>3. failed' \in [Tests -> BOOLEAN] /\ \A u \in Tests : failed[u] => failed'[u]
    BY <1>2 DEF IInv, TypeOK
  <1>4. TypeOK'
    BY <1>1, <1>3 DEF IInv, TypeOK
  <1>5. current[t] = 0
    BY <1>1 DEF IInv, WorkOK, AtWork
  <1>6. \A s : HasClose(t, s)' <=> HasClose(t, s)
    BY <1>1 DEF HasClose, CleanupAt
  <1>7. \A s \in checked : s \in 1..Len(stages) /\ s # 0
    BY DEF IInv, ChecksOK
  <1> QED BY <1>1, <1>3, <1>4, <1>5, <1>6, <1>7, MoveKeeps DEF IInv, TypeOK

LEMMA TestOverKeeps ==
    ASSUME IInv, NEW t \in Tests, TestOver(t)
    PROVE  IInv'
  <1>1. /\ UNCHANGED <<containers, observers, stages, current, after, cleanups, failed, story, freed, checked, troubled>>
        /\ pc[t] = "cleanup" /\ pc' = [pc EXCEPT ![t] = "over"] /\ cleanups[t] = <<>>
    BY DEF TestOver, Goto, historyVars
  <1>2. TypeOK'
    BY <1>1 DEF IInv, TypeOK
  <1>3. current[t] = 0
    BY <1>1 DEF IInv, WorkOK, AtWork
  <1>4. \A s : HasClose(t, s)' <=> HasClose(t, s)
    BY <1>1 DEF HasClose, CleanupAt
  <1>5. \A s \in checked : s \in 1..Len(stages) /\ s # 0
    BY DEF IInv, ChecksOK
  <1> QED BY <1>1, <1>2, <1>3, <1>4, <1>5, MoveKeeps DEF IInv, TypeOK

\* testing takes the cleanup registered last.
LEMMA PopFacts ==
    ASSUME IInv, NEW t \in Tests, cleanups[t] # <<>>,
           cleanups' = [cleanups EXCEPT ![t] = Front(@)]
    PROVE  /\ cleanups' \in [Tests -> Seq(Cleanup)]
           /\ cleanups'[t] = Front(cleanups[t])
           /\ Len(cleanups[t]) \in 1..Len(cleanups[t])
           /\ Last(cleanups[t]) = cleanups[t][Len(cleanups[t])] /\ Last(cleanups[t]) \in Cleanup
           /\ Last(cleanups[t]).stage \in 1..Len(stages)
           /\ stages[Last(cleanups[t]).stage].test = t
           /\ \A i \in 1..Len(cleanups'[t]) :
                  i \in 1..Len(cleanups[t]) /\ cleanups'[t][i] = cleanups[t][i]
           /\ \A i \in 1..Len(cleanups[t]) : i \in 1..Len(cleanups'[t]) \/ i = Len(cleanups[t])
  <1>1. cleanups[t] \in Seq(Cleanup) /\ cleanups'[t] = Front(cleanups[t])
    BY DEF IInv, TypeOK
  <1>2. /\ Len(cleanups[t]) \in Nat \ {0} /\ Last(cleanups[t]) = cleanups[t][Len(cleanups[t])]
        /\ Last(cleanups[t]) \in Cleanup /\ Front(cleanups[t]) \in Seq(Cleanup)
        /\ \A i \in 1..Len(Front(cleanups[t])) :
              i \in 1..Len(cleanups[t]) /\ Front(cleanups[t])[i] = cleanups[t][i]
        /\ \A i \in 1..Len(cleanups[t]) : i \in 1..Len(Front(cleanups[t])) \/ i = Len(cleanups[t])
    BY <1>1, FrontFacts
  <1>3. Len(cleanups[t]) \in 1..Len(cleanups[t])
    BY <1>2
  <1>4. cleanups' \in [Tests -> Seq(Cleanup)]
    BY <1>2 DEF IInv, TypeOK
  <1> QED BY <1>1, <1>2, <1>3, <1>4 DEF IInv, CleanupsOK

LEMMA RunCleanupKeeps ==
    ASSUME IInv, NEW t \in Tests, RunCleanup(t)
    PROVE  IInv'
  <1> DEFINE s == Last(cleanups[t]).stage
  <1>1. /\ UNCHANGED <<containers, observers, stages, failed, story, freed, checked, troubled>>
        /\ pc[t] = "cleanup" /\ pc' = [pc EXCEPT ![t] = "shut"]
        /\ cleanups[t] # <<>> /\ Last(cleanups[t]).what = "close"
        /\ cleanups' = [cleanups EXCEPT ![t] = Front(@)]
        /\ current' = [current EXCEPT ![t] = s] /\ after' = [after EXCEPT ![t] = "cleanup"]
    BY DEF RunCleanup, Goto, historyVars
  <1>2. /\ cleanups' \in [Tests -> Seq(Cleanup)]
        /\ s \in 1..Len(stages) /\ stages[s].test = t
        /\ Len(cleanups[t]) \in 1..Len(cleanups[t]) /\ Last(cleanups[t]) = cleanups[t][Len(cleanups[t])]
        /\ \A i \in 1..Len(cleanups'[t]) :
               i \in 1..Len(cleanups[t]) /\ cleanups'[t][i] = cleanups[t][i]
        /\ \A i \in 1..Len(cleanups[t]) : i \in 1..Len(cleanups'[t]) \/ i = Len(cleanups[t])
    BY <1>1, PopFacts
  <1> HIDE DEF s
  <1>3. HasClose(t, s)
    BY <1>1, <1>2 DEF s, HasClose, CleanupAt
  <1>4. TypeOK'
    BY <1>1, <1>2 DEF IInv, TypeOK
  <1>5. current[t] = 0 /\ s # 0 /\ s \notin checked
    BY <1>1, <1>2, <1>3 DEF IInv, WorkOK, AtWork, ChecksOK
  <1>6. current'[t] = s /\ pc'[t] = "shut" /\ after'[t] # "fatal"
    BY <1>1 DEF IInv, TypeOK
  <1>7. \A q : HasClose(t, q) => HasClose(t, q)' \/ q = s
    BY <1>1, <1>2 DEF s, HasClose, CleanupAt
  <1>8. \A q \in checked' : q \in 1..Len(stages) /\ current'[t] # q /\ q \in checked
    BY <1>1, <1>5, <1>6 DEF IInv, ChecksOK
  <1>9. \A u \in Tests \ {t} : /\ pc'[u] = pc[u] /\ current'[u] = current[u]
                               /\ after'[u] = after[u] /\ cleanups'[u] = cleanups[u]
    BY <1>1 DEF IInv, TypeOK
  <1> QED BY <1>1, <1>2, <1>4, <1>5, <1>6, <1>7, <1>8, <1>9, MoveKeeps

LEMMA CheckExpectationsKeeps ==
    ASSUME IInv, NEW t \in Tests, CheckExpectations(t)
    PROVE  IInv'
  <1> DEFINE s == Last(cleanups[t]).stage
             n == Len(cleanups[t])
  <1>1. /\ UNCHANGED <<containers, observers, stages, pc, current, after, story, freed, troubled>>
        /\ pc[t] = "cleanup" /\ cleanups[t] # <<>> /\ Last(cleanups[t]).what = "check"
        /\ cleanups' = [cleanups EXCEPT ![t] = Front(@)]
        /\ checked' = checked \cup {s}
    BY DEF CheckExpectations
  <1>2. PICK unmet \in BOOLEAN : failed' = [failed EXCEPT ![t] = @ \/ unmet]
    BY DEF CheckExpectations
  <1>3. failed' \in [Tests -> BOOLEAN] /\ \A u \in Tests : failed[u] => failed'[u]
    BY <1>2 DEF IInv, TypeOK
  <1>4. /\ cleanups' \in [Tests -> Seq(Cleanup)]
        /\ s \in 1..Len(stages) /\ stages[s].test = t
        /\ n \in 1..n /\ Last(cleanups[t]) = cleanups[t][n]
        /\ \A i \in 1..Len(cleanups'[t]) :
               i \in 1..n /\ cleanups'[t][i] = cleanups[t][i]
        /\ \A i \in 1..n : i \in 1..Len(cleanups'[t]) \/ i = n
    BY <1>1, PopFacts
  <1>5. CleanupAt(t, n, "check", s)
    BY <1>1, <1>4 DEF CleanupAt
  <1> HIDE DEF s, n
  <1>6. s \in Stages
    BY <1>4, StageFacts DEF IInv
  <1>7. ~HasClose(t, s)
    <2> SUFFICES ASSUME NEW i \in 1..n, CleanupAt(t, i, "close", s) PROVE FALSE
      BY DEF HasClose, n
    <2>1. n < i
      BY <1>4, <1>5, <1>6 DEF IInv, ChecksOK, n
    <2>2. n \in Nat
      BY <1>4
    <2> QED BY <2>1, <2>2
  <1>8. TypeOK'
    BY <1>1, <1>3, <1>4, <1>6 DEF IInv, TypeOK
  <1>9. current[t] = 0
    BY <1>1 DEF IInv, WorkOK, AtWork
  <1>10. \A q : HasClose(t, q) => HasClose(t, q)'
    BY <1>1, <1>4, <1>5 DEF n, HasClose, CleanupAt
  <1>11. \A q \in checked' : /\ q \in 1..Len(stages) /\ current'[t] # q
                             /\ q \in checked \/ (stages[q].test = t /\ ~HasClose(t, q))
    BY <1>1, <1>4, <1>7, <1>9 DEF IInv, ChecksOK
  <1>12. \A u \in Tests \ {t} : cleanups'[u] = cleanups[u]
    BY <1>1 DEF IInv, TypeOK
  <1> QED BY <1>1, <1>3, <1>4, <1>8, <1>9, <1>10, <1>11, <1>12, MoveKeeps DEF n

\* Close coming back to whoever called it.
LEMMA CloseReturnsKeeps ==
    ASSUME IInv, NEW t \in Tests,
           \/ pc[t] = "shut" /\ Here(t).closed
           \/ pc[t] = "closing" /\ Here(t).toClose = <<>>,
           NEW place \in {"body", "cleanup"}, Goto(t, place),
           current' = [current EXCEPT ![t] = 0],
           failed' \in [Tests -> BOOLEAN], \A u \in Tests : failed[u] => failed'[u],
           pc[t] = "closing" /\ after[t] = "cleanup" /\ Here(t).erred => failed'[t],
           UNCHANGED <<containers, observers, stages, after, cleanups, historyVars>>
    PROVE  IInv'
  <1>1. /\ UNCHANGED <<containers, observers, stages, after, cleanups, story, freed, checked, troubled>>
        /\ pc' = [pc EXCEPT ![t] = place]
    BY DEF Goto, historyVars
  <1>2. /\ current[t] # 0 /\ Here(t) = stages[current[t]] /\ Here(t).closed
        /\ ScopesOK(current[t]) /\ Here(t).test = t
    BY CurrentFacts DEF AtWork, IInv, WorkOK
  <1>3. Here(t).toClose = <<>>
    BY <1>2 DEF ScopesOK
  <1>4. TypeOK'
    BY <1>1 DEF IInv, TypeOK
  <1>5. pc'[t] = place /\ current'[t] = 0
    BY <1>1 DEF IInv, TypeOK
  <1>6. \A u \in Tests \ {t} : pc'[u] = pc[u] /\ current'[u] = current[u]
    BY <1>1 DEF IInv, TypeOK
  <1>7. \A q : HasClose(t, q)' <=> HasClose(t, q)
    BY <1>1 DEF HasClose, CleanupAt
  <1>8. \A q \in checked' : q \in 1..Len(stages) /\ q # 0 /\ q \in checked
    BY <1>1 DEF IInv, ChecksOK
  <1> QED BY <1>1, <1>2, <1>3, <1>4, <1>5, <1>6, <1>7, <1>8, MoveKeeps

-----------------------------------------------------------------------------
(* A step of a test at the stage it is at work on.                         *)

\* It leaves the other tests and stages as they are.
OthersRest(t, c) ==
    /\ \A u \in Tests \ {t} : /\ pc'[u] = pc[u] /\ current'[u] = current[u]
                              /\ after'[u] = after[u] /\ cleanups'[u] = cleanups[u]
    /\ Len(stages') = Len(stages)
    /\ \A s \in 1..Len(stages) : s # c => stages'[s] = stages[s]

\* At most this is left with the test's cleanups.
LeavesWith(t, c, what) ==
    /\ \A i \in 1..Len(cleanups'[t]) :
          \/ i \in 1..Len(cleanups[t]) /\ cleanups'[t][i] = cleanups[t][i]
          \/ i = Len(cleanups[t]) + 1 /\ cleanups'[t][i].what = what /\ cleanups'[t][i].stage = c
    /\ \A i \in 1..Len(cleanups[t]) : i \in 1..Len(cleanups'[t]) /\ cleanups'[t][i] = cleanups[t][i]

\* What ScopesOK says of a stage by itself.
Shape(g) ==
    /\ \A i \in 1..Len(g.scopes) : g.scopes[i] = i
    /\ \A i \in 1..Len(g.toClose) : g.toClose[i] = i
    /\ g.closed => g.scopes = <<>>
    /\ ~g.closed => g.toClose = <<>>

\* The stage is somebody's to close.
Minded(t, c) ==
    /\ stages'[c].toClose # <<>> => current'[t] = c /\ pc'[t] = "closing"
    /\ stages'[c].scopes # <<>> =>
          \/ stages'[c].unwound
          \/ current'[t] = c
          \/ \E i \in 1..Len(cleanups'[t]) :
                cleanups'[t][i].what = "close" /\ cleanups'[t][i].stage = c

LEMMA WorkKeeps ==
    ASSUME IInv, TypeOK', NEW t \in Tests, pc[t] \in AtWork, NEW c, c = current[t], NEW what,
           UNCHANGED <<containers, checked>>,
           OthersRest(t, c),
           LeavesWith(t, c, what),
           Shape(stages'[c]), stages'[c].test = t,
           Minded(t, c),
           current'[t] \in {0, c}, pc'[t] \notin {"shut", "over"},
           pc'[t] \in AtWork <=> current'[t] # 0,
           pc'[t] = "opening" => ~stages'[c].closed /\ what # "close" /\ pc[t] = "opening",
           pc'[t] = "closing" => stages'[c].closed,
           what = "check" => pc[t] = "opening"
    PROVE  WorkOK' /\ CleanupsOK' /\ StagesOK' /\ ChecksOK'
  <1>0. /\ \A u \in Tests \ {t} : /\ pc'[u] = pc[u] /\ current'[u] = current[u]
                                  /\ after'[u] = after[u] /\ cleanups'[u] = cleanups[u]
        /\ Len(stages') = Len(stages)
        /\ \A s \in 1..Len(stages) : s # c => stages'[s] = stages[s]
        /\ \A i \in 1..Len(cleanups'[t]) :
              \/ i \in 1..Len(cleanups[t]) /\ cleanups'[t][i] = cleanups[t][i]
              \/ i = Len(cleanups[t]) + 1 /\ cleanups'[t][i].what = what /\ cleanups'[t][i].stage = c
        /\ \A i \in 1..Len(cleanups[t]) : i \in 1..Len(cleanups'[t]) /\ cleanups'[t][i] = cleanups[t][i]
    BY DEF OthersRest, LeavesWith
  <1> DEFINE Close1(u, s) == \E i \in 1..Len(cleanups'[u]) :
                                cleanups'[u][i].what = "close" /\ cleanups'[u][i].stage = s
  <1>1. /\ c \in 1..Len(stages) /\ c \in Stages /\ c # 0 /\ c \notin checked
        /\ stages[c].test = t /\ ScopesOK(c)
        /\ pc[t] = "opening" => ~HasClose(t, c)
    BY <1>0, CurrentFacts DEF IInv, WorkOK
  <1>2. /\ \A u, s : HasClose(u, s)' <=> Close1(u, s)
        /\ \A s \in 1..Len(stages) : /\ s \in Stages /\ stages[s].test \in Tests
                                      /\ stages'[s].test = stages[s].test
    BY <1>0, <1>1, StageFacts DEF HasClose, CleanupAt, IInv
  <1>3. /\ \A s : HasClose(t, s) => Close1(t, s)
        /\ \A s : Close1(t, s) => HasClose(t, s) \/ (s = c /\ what = "close")
        /\ \A u \in Tests \ {t} : \A s : Close1(u, s) <=> HasClose(u, s)
    BY <1>0 DEF HasClose, CleanupAt
  <1>4. WorkOK'
    <2>1. \A u \in Tests \ {t} :
            /\ pc'[u] \in AtWork <=> current'[u] # 0
            /\ pc'[u] = "over" => cleanups'[u] = <<>>
      BY <1>0 DEF IInv, WorkOK
    <2>2. ASSUME NEW u \in Tests \ {t}, current[u] # 0
          PROVE  /\ stages'[current[u]].test = u
                 /\ pc[u] = "opening" => ~stages'[current[u]].closed /\ ~Close1(u, current[u])
                 /\ pc[u] = "shut" /\ after[u] = "fatal" => ~stages'[current[u]].closed
                 /\ pc[u] = "closing" => stages'[current[u]].closed
      <3>1. pc[u] \in AtWork
        BY <1>0, <2>2 DEF IInv, WorkOK
      <3>2. current[u] \in 1..Len(stages) /\ stages[current[u]].test = u
        BY <1>0, <3>1, CurrentFacts
      <3>3. stages'[current[u]] = stages[current[u]]
        BY <1>0, <1>1, <3>2
      <3> QED BY <1>0, <1>3, <2>2, <3>2, <3>3 DEF IInv, WorkOK, Here
    <2>3. \A u \in Tests \ {t} : pc[u] \in {"opening", "shut", "closing"} => current[u] # 0
      BY <1>0 DEF IInv, WorkOK, AtWork
    <2>4. /\ current'[t] # 0 => stages'[current'[t]].test = t
          /\ pc'[t] = "opening" => ~stages'[current'[t]].closed /\ ~Close1(t, current'[t])
          /\ pc'[t] = "closing" => stages'[current'[t]].closed
          /\ pc'[t] # "shut" /\ pc'[t] # "over"
      BY <1>0, <1>1, <1>3 DEF AtWork
    <2> HIDE DEF Close1
    <2>5. ASSUME NEW u \in Tests \ {t}
          PROVE  /\ pc'[u] \in AtWork <=> current'[u] # 0
                 /\ current'[u] # 0 => stages'[current'[u]].test = u
                 /\ pc'[u] = "opening" => ~stages'[current'[u]].closed /\ ~Close1(u, current'[u])
                 /\ pc'[u] = "shut" /\ after'[u] = "fatal" => ~stages'[current'[u]].closed
                 /\ pc'[u] = "closing" => stages'[current'[u]].closed
                 /\ pc'[u] = "over" => cleanups'[u] = <<>>
      <3>1. pc'[u] = pc[u] /\ current'[u] = current[u] /\ after'[u] = after[u]
        BY <1>0
      <3>2. pc[u] \in {"opening", "shut", "closing"} => current[u] # 0
        BY <2>3
      <3>3. CASE current[u] # 0
        BY <2>1, <2>2, <3>1, <3>3
      <3>4. CASE current[u] = 0
        BY <2>1, <3>1, <3>2, <3>4
      <3> QED BY <3>3, <3>4
    <2>6. Len(containers') <= MaxContainers
      BY DEF IInv, WorkOK
    <2> QED BY <1>2, <2>4, <2>5, <2>6 DEF WorkOK, Here
  <1>5. CleanupsOK'
    <2> SUFFICES ASSUME NEW u \in Tests, NEW i \in 1..Len(cleanups'[u])
                 PROVE  /\ cleanups'[u][i].stage \in 1..Len(stages)
                        /\ stages'[cleanups'[u][i].stage].test = u
      BY <1>0 DEF CleanupsOK
    <2>1. CASE u # t
      <3>1. i \in 1..Len(cleanups[u]) /\ cleanups'[u] = cleanups[u]
        BY <1>0, <2>1
      <3>2. cleanups[u][i].stage \in 1..Len(stages) /\ stages[cleanups[u][i].stage].test = u
        BY <1>0, <3>1 DEF IInv, CleanupsOK
      <3> QED BY <1>0, <1>2, <3>1, <3>2
    <2>2. CASE u = t /\ i \in 1..Len(cleanups[t]) /\ cleanups'[t][i] = cleanups[t][i]
      <3>1. cleanups[t][i].stage \in 1..Len(stages) /\ stages[cleanups[t][i].stage].test = t
        BY <1>0, <2>2 DEF IInv, CleanupsOK
      <3> QED BY <1>0, <1>2, <2>2, <3>1
    <2>3. CASE u = t /\ cleanups'[t][i].stage = c
      BY <1>0, <1>1, <2>3
    <2> QED BY <1>0, <2>1, <2>2, <2>3
  <1>6. StagesOK'
    <2>0. ScopesOK(c)'
      BY <1>0, <1>2 DEF ScopesOK, Shape, Minded
    <2> SUFFICES ASSUME NEW s \in 1..Len(stages), s # c PROVE ScopesOK(s)'
      BY <1>0, <2>0 DEF StagesOK
    <2> DEFINE u == stages[s].test
    <2>1. ScopesOK(s) /\ u \in Tests /\ s \in Stages /\ stages'[s] = stages[s]
      BY <1>0, <1>2 DEF IInv, StagesOK
    <2>2. CASE u # t
      <3>0. u \in Tests \ {t}
        BY <2>1, <2>2
      <3> HIDE DEF Close1, u
      <3>1. pc'[u] = pc[u] /\ current'[u] = current[u] /\ (HasClose(u, s) => Close1(u, s))
        BY <1>0, <1>3, <3>0
      <3> USE DEF Close1, u
      <3> QED BY <1>0, <1>2, <2>1, <3>1 DEF ScopesOK
    <2>3. CASE u = t
      <3>1. current[t] # s /\ (HasClose(t, s) => Close1(t, s)) /\ stages[s].toClose = <<>>
        BY <1>0, <1>3, <2>1, <2>3 DEF ScopesOK
      <3> QED BY <1>0, <1>2, <2>1, <2>3, <3>1 DEF ScopesOK
    <2> QED BY <1>0, <2>2, <2>3
  <1>7. ChecksOK'
    <2>1. ASSUME NEW u \in Tests, NEW s \in Stages,
                 NEW i \in 1..Len(cleanups'[u]), NEW j \in 1..Len(cleanups'[u]),
                 cleanups'[u][i].what = "close", cleanups'[u][i].stage = s,
                 cleanups'[u][j].what = "check", cleanups'[u][j].stage = s
          PROVE  j < i
      <3>1. CASE u # t
        BY <1>0, <2>1, <3>1 DEF IInv, ChecksOK, CleanupAt
      <3>2. CASE u = t /\ i \in 1..Len(cleanups[t]) /\ j \in 1..Len(cleanups[t])
        <4>1. cleanups'[t][i] = cleanups[t][i] /\ cleanups'[t][j] = cleanups[t][j]
          BY <1>0, <3>2
        <4> QED BY <1>0, <2>1, <3>2, <4>1 DEF IInv, ChecksOK, CleanupAt
      <3>3. CASE u = t /\ i = Len(cleanups[t]) + 1
        <4>1. what = "close"
          BY <1>0, <2>1, <3>3
        <4>2. j # Len(cleanups[t]) + 1
          BY <1>0, <2>1, <3>3
        <4>3. j \in 1..Len(cleanups[t])
          BY <1>0, <2>1, <3>3, <4>2
        <4>4. Len(cleanups[t]) \in Nat
          BY <1>0 DEF IInv, TypeOK
        <4> QED BY <1>0, <3>3, <4>3, <4>4
      <3>4. CASE u = t /\ i \in 1..Len(cleanups[t]) /\ j = Len(cleanups[t]) + 1
        <4>1. what = "check" /\ s = c
          BY <1>0, <2>1, <3>4
        <4>2. HasClose(t, c)
          BY <1>0, <2>1, <3>4, <4>1 DEF HasClose, CleanupAt
        <4> QED BY <1>0, <1>1, <4>1, <4>2
      <3> QED BY <1>0, <2>1, <3>1, <3>2, <3>3, <3>4
    <2>2. ASSUME NEW s \in checked
          PROVE  /\ s \in 1..Len(stages)
                 /\ current'[stages'[s].test] # s
                 /\ ~Close1(stages'[s].test, s)
      <3>1. s \in 1..Len(stages) /\ s # c /\ current[stages[s].test] # s /\ ~HasClose(stages[s].test, s)
        BY <1>0, <1>1 DEF IInv, ChecksOK
      <3>2. stages[s].test \in Tests /\ stages'[s].test = stages[s].test /\ s # 0
        BY <1>0, <1>2, <3>1
      <3> QED BY <1>0, <1>3, <3>1, <3>2
    <2> QED BY <1>0, <1>1, <2>1, <2>2 DEF ChecksOK, HasClose, CleanupAt
  <1> QED BY <1>4, <1>5, <1>6, <1>7

\* What has been freed, and what went wrong, is of stages that are closed.
LEMMA HistoryKeeps ==
    ASSUME IInv, NEW t \in Tests, NEW c \in 1..Len(stages), ~stages[c].closed, pc[t] # "closing",
           stages[c].test = t,
           UNCHANGED <<freed, troubled>>,
           Len(stages') = Len(stages),
           \A s \in 1..Len(stages) : s # c => stages'[s] = stages[s],
           stages'[c].test = t,
           \A u \in Tests \ {t} : /\ pc'[u] = pc[u] /\ current'[u] = current[u]
                                  /\ after'[u] = after[u],
           \A u \in Tests : failed[u] => failed'[u]
    PROVE  FreedOK' /\ TroubleOK'
  <1>1. FreedOK'
    <2>1. \A j \in 1..Len(freed) : freed[j][1] \in 1..Len(stages) /\ freed[j][1] # c
      BY DEF IInv, FreedOK
    <2> QED BY <2>1 DEF IInv, FreedOK
  <1>2. TroubleOK'
    <2> SUFFICES ASSUME NEW s \in troubled
                 PROVE  /\ s \in 1..Len(stages')
                        /\ LET u == stages'[s].test IN
                           failed'[u] \/ (current'[u] = s /\ pc'[u] = "closing" /\ after'[u] = "cleanup" /\ stages'[s].erred)
      BY DEF TroubleOK
    <2>1. /\ s \in 1..Len(stages) /\ stages[s].test \in Tests
          /\ LET u == stages[s].test IN
             failed[u] \/ (current[u] = s /\ pc[u] = "closing" /\ after[u] = "cleanup" /\ stages[s].erred)
      BY StageFacts DEF IInv, TroubleOK
    <2>2. CASE stages[s].test = t
      <3>1. failed'[t] /\ stages'[s].test = t
        BY <2>1, <2>2
      <3> QED BY <2>1, <3>1
    <2>3. CASE stages[s].test # t
      <3>1. stages'[s] = stages[s]
        BY <2>1, <2>3
      <3> QED BY <2>1, <2>3, <3>1
    <2> QED BY <2>2, <2>3
  <1> QED BY <1>1, <1>2

\* An update of the stage a test is at work on.
LEMMA UpdateFacts ==
    ASSUME IInv, NEW t \in Tests, pc[t] \in AtWork, NEW g \in Stage,
           stages' = [stages EXCEPT ![current[t]] = g]
    PROVE  /\ stages' \in Seq(Stage) /\ Len(stages') = Len(stages)
           /\ stages'[current[t]] = g
           /\ \A s \in 1..Len(stages) : s # current[t] => stages'[s] = stages[s]
  <1>1. stages \in Seq(Stage) /\ current[t] \in 1..Len(stages)
    BY CurrentFacts DEF IInv, TypeOK
  <1> QED BY <1>1, ExceptSeq

\* Something left with the test's cleanups.
LEMMA DeferFacts ==
    ASSUME IInv, NEW t \in Tests, pc[t] \in AtWork, NEW what \in {"close", "check"}, Defer(t, what)
    PROVE  /\ cleanups' \in [Tests -> Seq(Cleanup)]
           /\ \A i \in 1..Len(cleanups'[t]) :
                 \/ i \in 1..Len(cleanups[t]) /\ cleanups'[t][i] = cleanups[t][i]
                 \/ /\ i = Len(cleanups[t]) + 1
                    /\ cleanups'[t][i].what = what /\ cleanups'[t][i].stage = current[t]
           /\ \A i \in 1..Len(cleanups[t]) :
                 i \in 1..Len(cleanups'[t]) /\ cleanups'[t][i] = cleanups[t][i]
           /\ what = "close" => \E i \in 1..Len(cleanups'[t]) :
                 cleanups'[t][i].what = "close" /\ cleanups'[t][i].stage = current[t]
           /\ \A u \in Tests \ {t} : cleanups'[u] = cleanups[u]
  <1> DEFINE x == [what |-> what, stage |-> current[t]]
  <1>1. cleanups[t] \in Seq(Cleanup) /\ x \in Cleanup
    BY CurrentFacts DEF IInv, TypeOK, Cleanup
  <1>2. cleanups'[t] = Append(cleanups[t], x) /\ cleanups' = [cleanups EXCEPT ![t] = Append(@, x)]
    BY DEF Defer, IInv, TypeOK
  <1>3. x.what = what /\ x.stage = current[t]
    OBVIOUS
  <1> HIDE DEF x
  <1>4. /\ Append(cleanups[t], x) \in Seq(Cleanup)
        /\ Len(cleanups[t]) \in Nat
        /\ Len(cleanups'[t]) = Len(cleanups[t]) + 1
        /\ cleanups'[t][Len(cleanups[t]) + 1] = x
        /\ \A i \in 1..Len(cleanups[t]) : cleanups'[t][i] = cleanups[t][i]
        /\ \A i \in 1..(Len(cleanups[t]) + 1) : i \in 1..Len(cleanups[t]) \/ i = Len(cleanups[t]) + 1
    BY <1>1, <1>2, AppendFacts
  <1>5. cleanups' \in [Tests -> Seq(Cleanup)] /\ \A u \in Tests \ {t} : cleanups'[u] = cleanups[u]
    BY <1>2, <1>4 DEF IInv, TypeOK
  <1>6. /\ \A i \in 1..Len(cleanups'[t]) :
              \/ i \in 1..Len(cleanups[t]) /\ cleanups'[t][i] = cleanups[t][i]
              \/ i = Len(cleanups[t]) + 1 /\ cleanups'[t][i] = x
        /\ \A i \in 1..Len(cleanups[t]) : i \in 1..Len(cleanups'[t]) /\ cleanups'[t][i] = cleanups[t][i]
    BY <1>4
  <1>7. what = "close" => \E i \in 1..Len(cleanups'[t]) :
                             cleanups'[t][i].what = "close" /\ cleanups'[t][i].stage = current[t]
    BY <1>3, <1>4
  <1> QED BY <1>3, <1>5, <1>6, <1>7

LEMMA ScopeOpensKeeps ==
    ASSUME IInv, NEW t \in Tests, ScopeOpens(t)
    PROVE  IInv'
  <1> DEFINE c == current[t]
             p == Len(Here(t).scopes) + 1
             g == [Here(t) EXCEPT !.scopes = Append(@, p)]
  <1>1. /\ UNCHANGED <<containers, observers, pc, current, after, failed, story, freed, checked, troubled>>
        /\ pc[t] = "opening" /\ p <= Len(containers)
        /\ stages' = [stages EXCEPT ![c] = g]
        /\ Defer(t, "check") \/ UNCHANGED cleanups
    BY DEF ScopeOpens, historyVars, NextPlace, Here
  <1>2. /\ c \in 1..Len(stages) /\ c # 0 /\ stages[c] = Here(t) /\ Here(t) \in Stage
        /\ Here(t).test = t /\ ScopesOK(c) /\ c \in Stages
        /\ Here(t).scopes \in Seq(Places)
    BY <1>1, CurrentFacts DEF AtWork, Stage
  <1>3. ~Here(t).closed /\ Len(containers) <= MaxContainers /\ Len(containers) \in Nat
    BY <1>1 DEF IInv, WorkOK, TypeOK
  <1>4. p \in Places
    BY <1>1, <1>2, <1>3, BoundsAssumption DEF Places
  <1>5. /\ Append(Here(t).scopes, p) \in Seq(Places)
        /\ \A i \in 1..Len(Append(Here(t).scopes, p)) : Append(Here(t).scopes, p)[i] = i
    <2>1. \A i \in 1..Len(Here(t).scopes) : Here(t).scopes[i] = i
      BY <1>2 DEF ScopesOK
    <2> DEFINE q == Here(t).scopes
    <2>2. q \in Seq(Places) /\ p \in Places /\ p = Len(q) + 1 /\ \A i \in 1..Len(q) : q[i] = i
      BY <1>2, <1>4, <2>1
    <2> HIDE DEF q, p
    <2>3. /\ Append(q, p) \in Seq(Places)
          /\ \A i \in 1..Len(Append(q, p)) : Append(q, p)[i] = i
      BY <2>2, AppendFacts
    <2> QED BY <2>3 DEF q
  <1>6. /\ g \in Stage /\ g.test = t /\ g.scopes = Append(Here(t).scopes, p)
        /\ g.closed = Here(t).closed /\ g.toClose = Here(t).toClose
        /\ g.observers = Here(t).observers
    BY <1>2, <1>5 DEF Stage
  <1> HIDE DEF p, g
  <1>7. /\ stages' \in Seq(Stage) /\ Len(stages') = Len(stages) /\ stages'[c] = g
        /\ \A s \in 1..Len(stages) : s # c => stages'[s] = stages[s]
    BY <1>1, <1>6, UpdateFacts DEF AtWork
  <1>8. /\ cleanups' \in [Tests -> Seq(Cleanup)]
        /\ \A i \in 1..Len(cleanups'[t]) :
              \/ i \in 1..Len(cleanups[t]) /\ cleanups'[t][i] = cleanups[t][i]
              \/ i = Len(cleanups[t]) + 1 /\ cleanups'[t][i].what = "check" /\ cleanups'[t][i].stage = c
        /\ \A i \in 1..Len(cleanups[t]) :
              i \in 1..Len(cleanups'[t]) /\ cleanups'[t][i] = cleanups[t][i]
        /\ \A u \in Tests \ {t} : cleanups'[u] = cleanups[u]
    <2>1. CASE Defer(t, "check")
      BY <1>1, <2>1, DeferFacts DEF AtWork
    <2>2. CASE UNCHANGED cleanups
      BY <2>2 DEF IInv, TypeOK
    <2> QED BY <1>1, <2>1, <2>2
  <1>9. TypeOK'
    BY <1>1, <1>7, <1>8 DEF IInv, TypeOK
  <1>10. /\ \A i \in 1..Len(g.scopes) : g.scopes[i] = i
         /\ g.toClose = <<>> /\ ~g.closed /\ g.test = t
    BY <1>2, <1>3, <1>5, <1>6 DEF ScopesOK
  <1>11. WorkOK' /\ CleanupsOK' /\ StagesOK' /\ ChecksOK'
    <2>1. /\ pc[t] \in AtWork /\ pc'[t] \in AtWork /\ pc'[t] = "opening" /\ current'[t] = c /\ c # 0
          /\ stages'[c].test = t /\ ~stages'[c].closed
      BY <1>1, <1>2, <1>3, <1>6, <1>7 DEF AtWork
    <2>2. OthersRest(t, c) /\ LeavesWith(t, c, "check")
      BY <1>1, <1>7, <1>8 DEF OthersRest, LeavesWith
    <2>3. Shape(stages'[c]) /\ Minded(t, c)
      <3>1. Shape(g)
        BY <1>10 DEF Shape
      <3> QED BY <1>7, <1>10, <2>1, <3>1 DEF Minded
    <2> QED BY <1>1, <1>9, <2>1, <2>2, <2>3, WorkKeeps
  <1>12. FreedOK' /\ TroubleOK'
    BY <1>1, <1>2, <1>3, <1>6, <1>7, HistoryKeeps
  <1>13. \A s \in 1..Len(stages) :
            stages'[s].observers = stages[s].observers /\ stages'[s].closed = stages[s].closed
    BY <1>2, <1>6, <1>7
  <1>14. StoryOK'
    BY <1>1, <1>7, <1>13 DEF IInv, StoryOK
  <1> QED BY <1>9, <1>11, <1>12, <1>14 DEF IInv

LEMMA ScopeUnwindsKeeps ==
    ASSUME IInv, NEW t \in Tests, ScopeUnwinds(t)
    PROVE  IInv'
  <1>0. PICK c \in Stages : c = current[t]
    BY CurrentFacts DEF ScopeUnwinds, AtWork
  <1> DEFINE g == [Here(t) EXCEPT !.unwound = TRUE]
  <1>1. /\ UNCHANGED <<containers, observers, after, story, freed, checked, troubled>>
        /\ pc[t] = "opening"
        /\ stages' = [stages EXCEPT ![current[t]] = g]
        /\ failed' = [failed EXCEPT ![t] = TRUE]
        /\ pc' = [pc EXCEPT ![t] = "cleanup"]
        /\ current' = [current EXCEPT ![t] = 0]
        /\ Defer(t, "check") \/ UNCHANGED cleanups
    BY DEF ScopeUnwinds, historyVars, Here, Fail, Goto
  <1>2. /\ c \in 1..Len(stages) /\ c # 0 /\ stages[c] = Here(t) /\ Here(t) \in Stage
        /\ Here(t).test = t /\ ScopesOK(c) /\ c \in Stages
    BY <1>0, <1>1, CurrentFacts DEF AtWork
  <1>3. ~Here(t).closed
    BY <1>1 DEF IInv, WorkOK
  <1>4. /\ g \in Stage /\ g.test = t /\ g.scopes = Here(t).scopes
        /\ g.closed = Here(t).closed /\ g.toClose = Here(t).toClose
        /\ g.observers = Here(t).observers /\ g.unwound
    BY <1>2 DEF Stage
  <1> HIDE DEF g
  <1>5. /\ stages' \in Seq(Stage) /\ Len(stages') = Len(stages) /\ stages'[c] = g
        /\ \A s \in 1..Len(stages) : s # c => stages'[s] = stages[s]
    <2>1. /\ stages' \in Seq(Stage) /\ Len(stages') = Len(stages) /\ stages'[current[t]] = g
          /\ \A s \in 1..Len(stages) : s # current[t] => stages'[s] = stages[s]
      BY <1>1, <1>4, UpdateFacts DEF AtWork
    <2> QED BY <1>0, <2>1
  <1>6. /\ cleanups' \in [Tests -> Seq(Cleanup)]
        /\ \A i \in 1..Len(cleanups'[t]) :
              \/ i \in 1..Len(cleanups[t]) /\ cleanups'[t][i] = cleanups[t][i]
              \/ i = Len(cleanups[t]) + 1 /\ cleanups'[t][i].what = "check" /\ cleanups'[t][i].stage = c
        /\ \A i \in 1..Len(cleanups[t]) :
              i \in 1..Len(cleanups'[t]) /\ cleanups'[t][i] = cleanups[t][i]
        /\ \A u \in Tests \ {t} : cleanups'[u] = cleanups[u]
    <2>1. CASE Defer(t, "check")
      BY <1>1, <2>1, <1>0, DeferFacts DEF AtWork
    <2>2. CASE UNCHANGED cleanups
      BY <2>2 DEF IInv, TypeOK
    <2> QED BY <1>1, <2>1, <2>2
  <1>7. /\ pc'[t] = "cleanup" /\ current'[t] = 0
        /\ \A u \in Tests \ {t} : /\ pc'[u] = pc[u] /\ current'[u] = current[u] /\ after'[u] = after[u]
        /\ \A u \in Tests : failed[u] => failed'[u]
        /\ pc' \in [Tests -> {"body", "opening", "shut", "closing", "cleanup", "over"}]
        /\ current' \in [Tests -> 0..Len(stages)]
        /\ failed' \in [Tests -> BOOLEAN]
    BY <1>1 DEF IInv, TypeOK
  <1>8. TypeOK'
    BY <1>1, <1>5, <1>6, <1>7 DEF IInv, TypeOK
  <1>9. /\ \A i \in 1..Len(g.scopes) : g.scopes[i] = i
        /\ g.toClose = <<>> /\ ~g.closed /\ g.test = t /\ g.unwound
    BY <1>2, <1>3, <1>4 DEF ScopesOK
  <1>10. WorkOK' /\ CleanupsOK' /\ StagesOK' /\ ChecksOK'
    <2>1. /\ pc[t] \in AtWork /\ pc'[t] \notin AtWork /\ stages'[c].test = t
          /\ pc'[t] \notin {"shut", "over"} /\ pc'[t] # "opening" /\ pc'[t] # "closing" /\ current'[t] \in {0, c}
          /\ (pc'[t] \in AtWork <=> current'[t] # 0)
      BY <1>1, <1>4, <1>5, <1>7 DEF AtWork
    <2>2. OthersRest(t, c) /\ LeavesWith(t, c, "check")
      BY <1>5, <1>6, <1>7 DEF OthersRest, LeavesWith
    <2>3. Shape(stages'[c]) /\ Minded(t, c)
      BY <1>5, <1>9 DEF Shape, Minded
    <2> QED BY <1>0, <1>1, <1>8, <2>1, <2>2, <2>3, WorkKeeps
  <1>11. FreedOK' /\ TroubleOK'
    BY <1>1, <1>2, <1>3, <1>4, <1>5, <1>7, <1>0, HistoryKeeps
  <1>12. \A s \in 1..Len(stages) :
            stages'[s].observers = stages[s].observers /\ stages'[s].closed = stages[s].closed
    BY <1>2, <1>4, <1>5
  <1>13. StoryOK'
    BY <1>1, <1>5, <1>12 DEF IInv, StoryOK
  <1> QED BY <1>8, <1>10, <1>11, <1>13 DEF IInv

\* What an observer hears is of the stage the test is at work on.
LEMMA TellFacts ==
    ASSUME IInv, NEW t \in Tests, pc[t] \in AtWork,
           NEW what \in {"entered", "closed"}, Tell(t, what, Here(t).observers)
    PROVE  /\ story' \in Seq(Event)
           /\ \A i \in 1..Len(story) : i \in 1..Len(story') /\ story'[i] = story[i]
           /\ \A i \in 1..Len(story') :
                 \/ i \in 1..Len(story) /\ story'[i] = story[i]
                 \/ /\ i = Len(story) + 1 /\ story'[i].what = what /\ story'[i].stage = current[t]
                    /\ story'[i].to = Here(t).observers
  <1> DEFINE x == [what |-> what, stage |-> current[t], to |-> Here(t).observers, failed |-> failed[t]]
  <1>1. /\ story \in Seq(Event) /\ x \in Event /\ story' = Append(story, x)
        /\ x.what = what /\ x.stage = current[t] /\ x.to = Here(t).observers
    BY CurrentFacts DEF IInv, TypeOK, Event, Tell, Stage
  <1> HIDE DEF x
  <1>2. /\ story' \in Seq(Event) /\ Len(story) \in Nat /\ Len(story') = Len(story) + 1
        /\ story'[Len(story) + 1] = x
        /\ \A i \in 1..Len(story) : story'[i] = story[i]
        /\ \A i \in 1..(Len(story) + 1) : i \in 1..Len(story) \/ i = Len(story) + 1
    BY <1>1, AppendFacts
  <1> QED BY <1>1, <1>2

LEMMA StageEnteredKeeps ==
    ASSUME IInv, NEW t \in Tests, StageEntered(t)
    PROVE  IInv'
  <1>0. PICK c \in Stages : c = current[t]
    BY CurrentFacts DEF StageEntered, AtWork
  <1>1. /\ UNCHANGED <<containers, observers, stages, after, failed, freed, checked, troubled>>
        /\ pc[t] = "opening" /\ Defer(t, "close") /\ Tell(t, "entered", Here(t).observers)
        /\ pc' = [pc EXCEPT ![t] = "body"]
        /\ current' = [current EXCEPT ![t] = 0]
    BY DEF StageEntered, Goto
  <1>2. /\ c \in 1..Len(stages) /\ c # 0 /\ stages[c] = Here(t) /\ Here(t) \in Stage
        /\ Here(t).test = t /\ ScopesOK(c) /\ c \in Stages
    BY <1>0, <1>1, CurrentFacts DEF AtWork
  <1>3. ~Here(t).closed
    BY <1>1 DEF IInv, WorkOK
  <1>4. /\ cleanups' \in [Tests -> Seq(Cleanup)]
        /\ \A i \in 1..Len(cleanups'[t]) :
              \/ i \in 1..Len(cleanups[t]) /\ cleanups'[t][i] = cleanups[t][i]
              \/ i = Len(cleanups[t]) + 1 /\ cleanups'[t][i].what = "close" /\ cleanups'[t][i].stage = c
        /\ \A i \in 1..Len(cleanups[t]) :
              i \in 1..Len(cleanups'[t]) /\ cleanups'[t][i] = cleanups[t][i]
        /\ \A u \in Tests \ {t} : cleanups'[u] = cleanups[u]
        /\ \E i \in 1..Len(cleanups'[t]) : cleanups'[t][i].what = "close" /\ cleanups'[t][i].stage = c
    BY <1>1, <1>0, DeferFacts DEF AtWork
  <1>5. /\ story' \in Seq(Event)
        /\ \A i \in 1..Len(story) : i \in 1..Len(story') /\ story'[i] = story[i]
        /\ \A i \in 1..Len(story') :
              \/ i \in 1..Len(story) /\ story'[i] = story[i]
              \/ /\ i = Len(story) + 1 /\ story'[i].what = "entered" /\ story'[i].stage = c
                 /\ story'[i].to = Here(t).observers
    BY <1>1, <1>0, TellFacts DEF AtWork
  <1>6. /\ pc'[t] = "body" /\ current'[t] = 0
        /\ \A u \in Tests \ {t} : /\ pc'[u] = pc[u] /\ current'[u] = current[u] /\ after'[u] = after[u]
        /\ \A u \in Tests : failed[u] => failed'[u]
        /\ pc' \in [Tests -> {"body", "opening", "shut", "closing", "cleanup", "over"}]
        /\ current' \in [Tests -> 0..Len(stages)]
    BY <1>1 DEF IInv, TypeOK
  <1>7. TypeOK'
    BY <1>1, <1>4, <1>5, <1>6 DEF IInv, TypeOK
  <1>8. /\ \A i \in 1..Len(stages'[c].scopes) : stages'[c].scopes[i] = i
        /\ stages'[c].toClose = <<>> /\ ~stages'[c].closed
    BY <1>1, <1>2, <1>3 DEF ScopesOK
  <1>9. WorkOK' /\ CleanupsOK' /\ StagesOK' /\ ChecksOK'
    <2>1. /\ pc[t] \in AtWork /\ pc'[t] \notin AtWork /\ stages'[c].test = t
          /\ pc'[t] \notin {"shut", "over"} /\ pc'[t] # "opening" /\ pc'[t] # "closing" /\ current'[t] \in {0, c}
          /\ (pc'[t] \in AtWork <=> current'[t] # 0)
          /\ Len(stages') = Len(stages) /\ \A s \in 1..Len(stages) : s # c => stages'[s] = stages[s]
      BY <1>1, <1>2, <1>6 DEF AtWork
    <2>2. OthersRest(t, c) /\ LeavesWith(t, c, "close")
      BY <1>4, <1>6, <2>1 DEF OthersRest, LeavesWith
    <2>3. Shape(stages'[c]) /\ Minded(t, c)
      BY <1>4, <1>8 DEF Shape, Minded
    <2> QED BY <1>0, <1>1, <1>7, <2>1, <2>2, <2>3, WorkKeeps
  <1>10. FreedOK' /\ TroubleOK'
    BY <1>1, <1>2, <1>3, <1>6, <1>0, HistoryKeeps
  <1>11. StoryOK'
    BY <1>1, <1>2, <1>5 DEF IInv, StoryOK
  <1> QED BY <1>7, <1>9, <1>10, <1>11 DEF IInv

LEMMA CloseBeginsKeeps ==
    ASSUME IInv, NEW t \in Tests, CloseBegins(t)
    PROVE  IInv'
  <1> DEFINE c == current[t]
             g == [Here(t) EXCEPT !.closed = TRUE, !.scopes = <<>>, !.toClose = Here(t).scopes]
  <1>1. /\ UNCHANGED <<containers, observers, current, after, cleanups, failed, freed, checked, troubled>>
        /\ pc[t] = "shut" /\ ~Here(t).closed
        /\ stages' = [stages EXCEPT ![c].closed = TRUE, ![c].scopes = <<>>, ![c].toClose = Here(t).scopes]
        /\ Tell(t, "closed", Here(t).observers)
        /\ pc' = [pc EXCEPT ![t] = "closing"]
    BY DEF CloseBegins, Goto
  <1>2. /\ c \in 1..Len(stages) /\ c # 0 /\ stages[c] = Here(t) /\ Here(t) \in Stage
        /\ Here(t).test = t /\ ScopesOK(c) /\ c \in Stages
    BY <1>1, CurrentFacts DEF AtWork
  <1>3. stages' = [stages EXCEPT ![c] = g]
    BY <1>1, <1>2 DEF IInv, TypeOK
  <1>4. /\ g \in Stage /\ g.test = t /\ g.scopes = <<>> /\ g.toClose = Here(t).scopes
        /\ g.closed /\ g.observers = Here(t).observers
    <2> DEFINE a == [Here(t) EXCEPT !.closed = TRUE]
               b == [a EXCEPT !.scopes = <<>>]
    <2>1. /\ a \in Stage /\ a.test = t /\ a.closed /\ a.observers = Here(t).observers
      BY <1>2 DEF Stage
    <2>2. Here(t).scopes \in Seq(Places) /\ <<>> \in Seq(Places)
      BY <1>2 DEF Stage
    <2>3. g = [b EXCEPT !.toClose = Here(t).scopes]
      OBVIOUS
    <2> HIDE DEF a, g
    <2>4. /\ b \in Stage /\ b.test = t /\ b.closed /\ b.observers = Here(t).observers
          /\ b.scopes = <<>>
      BY <2>1, <2>2 DEF Stage
    <2> HIDE DEF b
    <2> QED BY <2>2, <2>3, <2>4 DEF Stage
  <1> HIDE DEF g
  <1>5. /\ stages' \in Seq(Stage) /\ Len(stages') = Len(stages) /\ stages'[c] = g
        /\ \A s \in 1..Len(stages) : s # c => stages'[s] = stages[s]
    BY <1>1, <1>3, <1>4, UpdateFacts DEF AtWork
  <1>6. /\ story' \in Seq(Event)
        /\ \A i \in 1..Len(story') :
              \/ i \in 1..Len(story) /\ story'[i] = story[i]
              \/ /\ i = Len(story) + 1 /\ story'[i].what = "closed" /\ story'[i].stage = c
                 /\ story'[i].to = Here(t).observers
    BY <1>1, TellFacts DEF AtWork
  <1>7. /\ pc'[t] = "closing" /\ current'[t] = c
        /\ \A u \in Tests \ {t} : /\ pc'[u] = pc[u] /\ current'[u] = current[u]
                                  /\ cleanups'[u] = cleanups[u] /\ after'[u] = after[u]
        /\ \A u \in Tests : failed[u] => failed'[u]
        /\ pc' \in [Tests -> {"body", "opening", "shut", "closing", "cleanup", "over"}]
    BY <1>1 DEF IInv, TypeOK
  <1>8. TypeOK'
    BY <1>1, <1>5, <1>6, <1>7 DEF IInv, TypeOK
  <1>9. /\ \A i \in 1..Len(g.toClose) : g.toClose[i] = i
        /\ \A i \in 1..Len(g.scopes) : g.scopes[i] = i
    <2>1. \A i \in 1..Len(g.toClose) : g.toClose[i] = i
      BY <1>2, <1>4 DEF ScopesOK
    <2>2. Len(g.scopes) = 0
      BY <1>4
    <2> QED BY <2>1, <2>2
  <1>10. WorkOK' /\ CleanupsOK' /\ StagesOK' /\ ChecksOK'
    <2>1. pc[t] \in AtWork /\ pc'[t] \in AtWork /\ stages'[c].test = t /\ stages'[c].closed
      BY <1>1, <1>4, <1>5, <1>7 DEF AtWork
    <2>2. /\ \A i \in 1..Len(cleanups'[t]) : i \in 1..Len(cleanups[t]) /\ cleanups'[t][i] = cleanups[t][i]
          /\ \A i \in 1..Len(cleanups[t]) : i \in 1..Len(cleanups'[t]) /\ cleanups'[t][i] = cleanups[t][i]
      BY <1>1
    <2>3. OthersRest(t, c) /\ LeavesWith(t, c, "nothing")
      BY <1>5, <1>7, <2>2 DEF OthersRest, LeavesWith
    <2>4. Shape(stages'[c]) /\ Minded(t, c)
      BY <1>4, <1>5, <1>7, <1>9 DEF Shape, Minded
    <2> QED BY <1>1, <1>2, <1>7, <1>8, <2>1, <2>3, <2>4, WorkKeeps
  <1>11. FreedOK' /\ TroubleOK'
    BY <1>1, <1>2, <1>4, <1>5, <1>7, HistoryKeeps
  <1>12. \A s \in 1..Len(stages) :
            stages'[s].observers = stages[s].observers /\ (stages[s].closed => stages'[s].closed)
    BY <1>2, <1>4, <1>5
  <1>13. StoryOK'
    <2>1. \A i \in 1..Len(story) : story[i].what = "closed" => story[i].stage # c
      BY <1>1, <1>2 DEF IInv, StoryOK
    <2>2. \A i \in 1..Len(story') : /\ story'[i].stage \in 1..Len(stages')
                                    /\ story'[i].to = stages'[story'[i].stage].observers
                                    /\ story'[i].what = "closed" => stages'[story'[i].stage].closed
      BY <1>2, <1>4, <1>5, <1>6, <1>12 DEF IInv, StoryOK
    <2>3. \A i, j \in 1..Len(story') :
             story'[i].what = "closed" /\ story'[j].what = "closed" /\ story'[i].stage = story'[j].stage => i = j
      BY <1>6, <2>1 DEF IInv, StoryOK
    <2> QED BY <2>2, <2>3 DEF StoryOK
  <1> QED BY <1>8, <1>10, <1>11, <1>13 DEF IInv

LEMMA CloseScopeKeeps ==
    ASSUME IInv, NEW t \in Tests, CloseScope(t)
    PROVE  IInv'
  <1>0. PICK c \in Stages : c = current[t]
    BY CurrentFacts DEF CloseScope, AtWork
  <1> DEFINE q == Here(t).toClose
             x == <<c, Last(q)>>
  <1>1. /\ UNCHANGED <<containers, observers, pc, current, after, cleanups, failed, story, checked>>
        /\ pc[t] = "closing" /\ q # <<>>
        /\ freed' = Append(freed, x)
    BY <1>0 DEF CloseScope
  <1>2. PICK err \in BOOLEAN :
        /\ stages' = [stages EXCEPT ![current[t]].toClose = Front(@), ![current[t]].erred = @ \/ err]
        /\ troubled' = IF err /\ after[t] = "cleanup" THEN troubled \cup {current[t]} ELSE troubled
    BY DEF CloseScope
  <1>3. /\ c \in 1..Len(stages) /\ c # 0 /\ stages[c] = Here(t) /\ Here(t) \in Stage
        /\ Here(t).test = t /\ ScopesOK(c) /\ c = current[t]
        /\ q \in Seq(Places) /\ Here(t).erred \in BOOLEAN
    BY <1>0, <1>1, CurrentFacts DEF AtWork, Stage
  <1>4. Here(t).closed /\ Here(t).scopes = <<>> /\ \A i \in 1..Len(q) : q[i] = i
    BY <1>1, <1>3 DEF IInv, WorkOK, ScopesOK
  <1>5. /\ Len(q) \in Nat \ {0} /\ Last(q) = Len(q) /\ Last(q) \in Places
        /\ Front(q) \in Seq(Places) /\ Len(Front(q)) = Len(q) - 1
        /\ \A i \in 1..Len(Front(q)) : Front(q)[i] = i
    <2> HIDE DEF q
    <2>1. q \in Seq(Places) /\ q # <<>> /\ \A i \in 1..Len(q) : q[i] = i
      BY <1>1, <1>3, <1>4
    <2>2. /\ Len(q) \in Nat \ {0} /\ Last(q) = q[Len(q)] /\ Last(q) \in Places
          /\ Front(q) \in Seq(Places) /\ Len(Front(q)) = Len(q) - 1
          /\ \A i \in 1..Len(Front(q)) : i \in 1..Len(q) /\ Front(q)[i] = q[i]
      BY <2>1, FrontFacts
    <2>3. Len(q) \in 1..Len(q)
      BY <2>2
    <2> QED BY <2>1, <2>2, <2>3
  <1> DEFINE a == [Here(t) EXCEPT !.toClose = Front(q)]
             g == [a EXCEPT !.erred = @ \/ err]
  <1>6. a \in Stage /\ a.test = t /\ a.closed /\ a.scopes = <<>> /\ a.toClose = Front(q)
        /\ a.observers = Here(t).observers /\ a.erred = Here(t).erred
    BY <1>3, <1>4, <1>5 DEF Stage
  <1>7. stages' = [stages EXCEPT ![current[t]] = g]
    BY <1>2, <1>3 DEF IInv, TypeOK
  <1> HIDE DEF a
  <1>8. g \in Stage /\ g.test = t /\ g.closed /\ g.scopes = <<>> /\ g.toClose = Front(q)
        /\ g.observers = Here(t).observers /\ g.erred = (Here(t).erred \/ err)
    BY <1>6 DEF Stage
  <1> HIDE DEF g
  <1>9. /\ stages' \in Seq(Stage) /\ Len(stages') = Len(stages) /\ stages'[c] = g
        /\ \A s \in 1..Len(stages) : s # c => stages'[s] = stages[s]
    <2>1. /\ stages' \in Seq(Stage) /\ Len(stages') = Len(stages) /\ stages'[current[t]] = g
          /\ \A s \in 1..Len(stages) : s # current[t] => stages'[s] = stages[s]
      BY <1>1, <1>7, <1>8, UpdateFacts DEF AtWork
    <2> QED BY <1>0, <2>1
  <1>10. /\ freed' \in Seq(Stages \X Places) /\ Len(freed) \in Nat /\ Len(freed') = Len(freed) + 1
         /\ freed'[Len(freed) + 1] = x
         /\ \A j \in 1..Len(freed) : freed'[j] = freed[j]
         /\ \A j \in 1..Len(freed') : j \in 1..Len(freed) \/ j = Len(freed) + 1
    <2>1. x \in Stages \X Places /\ freed \in Seq(Stages \X Places)
      BY <1>5 DEF IInv, TypeOK
    <2> HIDE DEF x
    <2> QED BY <1>1, <2>1, AppendFacts
  <1>11. TypeOK'
    <2>1. troubled' \subseteq Stages
      BY <1>0, <1>2 DEF IInv, TypeOK
    <2> QED BY <1>1, <1>9, <1>10, <2>1 DEF IInv, TypeOK
  <1>12. WorkOK' /\ CleanupsOK' /\ StagesOK' /\ ChecksOK'
    <2>1. /\ pc[t] \in AtWork /\ pc'[t] \in AtWork /\ pc'[t] = "closing" /\ current'[t] = c
          /\ stages'[c].test = t /\ stages'[c].closed
      BY <1>1, <1>3, <1>8, <1>9 DEF AtWork
    <2>2. OthersRest(t, c) /\ LeavesWith(t, c, "nothing")
      BY <1>1, <1>9 DEF OthersRest, LeavesWith
    <2>3. Shape(g)
      <3>1. Len(g.scopes) = 0
        BY <1>8
      <3> QED BY <1>5, <1>8, <3>1 DEF Shape
    <2>4. Minded(t, c)
      BY <2>1 DEF Minded
    <2> QED BY <1>1, <1>3, <1>9, <1>11, <2>1, <2>2, <2>3, <2>4, WorkKeeps
  <1>13. FreedOK'
    <2> DEFINE n == Len(freed) + 1
    <2>1. ASSUME NEW j \in 1..Len(freed)
          PROVE  /\ freed[j][1] \in 1..Len(stages) /\ stages[freed[j][1]].closed
                 /\ freed[j][2] > Len(stages[freed[j][1]].toClose)
                 /\ freed[j][2] \in Nat
      <3>1. freed[j] \in Stages \X Places
        BY ElementOfSeq DEF IInv, TypeOK
      <3> QED BY <3>1 DEF IInv, FreedOK, Places
    <2>2. ASSUME NEW j \in 1..Len(freed')
          PROVE  /\ freed'[j][1] \in 1..Len(stages')
                 /\ stages'[freed'[j][1]].closed
                 /\ freed'[j][2] > Len(stages'[freed'[j][1]].toClose)
      <3>1. CASE j = Len(freed) + 1
        BY <1>3, <1>5, <1>8, <1>9, <1>10, <3>1
      <3>2. CASE j \in 1..Len(freed) /\ freed[j][1] = c
        <4>1. freed[j][2] > Len(q) /\ freed[j][2] \in Nat
          BY <1>3, <2>1, <3>2
        <4>2. freed[j][2] > Len(q) - 1
          BY <1>5, <4>1
        <4>3. freed'[j] = freed[j] /\ freed[j][1] = c
          BY <1>10, <3>2
        <4>4. stages'[c].closed /\ Len(stages'[c].toClose) = Len(q) - 1 /\ c \in 1..Len(stages')
          BY <1>3, <1>5, <1>8, <1>9
        <4> QED BY <4>2, <4>3, <4>4
      <3>3. CASE j \in 1..Len(freed) /\ freed[j][1] # c
        BY <1>9, <1>10, <2>1, <3>3
      <3> QED BY <1>10, <3>1, <3>2, <3>3
    <2>3. ASSUME NEW i \in 1..Len(freed'), NEW j \in 1..Len(freed'), i < j, freed'[i][1] = freed'[j][1]
          PROVE  freed'[i][2] > freed'[j][2]
      <3>1. i \in 1..Len(freed)
        BY <1>10, <2>3
      <3>2. CASE j \in 1..Len(freed)
        BY <1>10, <2>3, <3>1, <3>2 DEF IInv, FreedOK
      <3>3. CASE j = Len(freed) + 1
        <4>1. freed'[j] = x /\ freed'[i] = freed[i]
          BY <1>10, <3>1, <3>3
        <4>2. freed[i][1] = c
          BY <2>3, <4>1
        <4>3. freed[i][2] > Len(q)
          BY <1>3, <2>1, <3>1, <4>2
        <4> QED BY <1>5, <4>1, <4>3
      <3> QED BY <1>10, <3>2, <3>3
    <2> QED BY <2>2, <2>3 DEF FreedOK
  <1>14. TroubleOK'
    <2> SUFFICES ASSUME NEW s \in troubled'
                 PROVE  /\ s \in 1..Len(stages')
                        /\ LET u == stages'[s].test IN
                           failed'[u] \/ (current'[u] = s /\ pc'[u] = "closing" /\ after'[u] = "cleanup" /\ stages'[s].erred)
      BY DEF TroubleOK
    <2>1. CASE s \in troubled
      <3>1. /\ s \in 1..Len(stages)
            /\ LET u == stages[s].test IN
               failed[u] \/ (current[u] = s /\ pc[u] = "closing" /\ after[u] = "cleanup" /\ stages[s].erred)
        BY <2>1 DEF IInv, TroubleOK
      <3>2. stages'[s].test = stages[s].test /\ (stages[s].erred => stages'[s].erred)
        BY <1>3, <1>8, <1>9, <3>1
      <3> QED BY <1>1, <1>9, <3>1, <3>2
    <2>2. CASE s \notin troubled
      <3>1. err /\ after[t] = "cleanup" /\ s = c
        BY <1>0, <1>2, <2>2
      <3>2. stages'[s].erred /\ stages'[s].test = t
        BY <1>8, <1>9, <3>1
      <3> QED BY <1>1, <1>3, <1>9, <3>1, <3>2
    <2> QED BY <2>1, <2>2
  <1>15. \A s \in 1..Len(stages) :
            stages'[s].observers = stages[s].observers /\ (stages[s].closed => stages'[s].closed)
    BY <1>3, <1>4, <1>8, <1>9
  <1>16. StoryOK'
    BY <1>1, <1>9, <1>15 DEF IInv, StoryOK
  <1> QED BY <1>11, <1>12, <1>13, <1>14, <1>16 DEF IInv

LEMMA EnterStageKeeps ==
    ASSUME IInv, NEW t \in Tests, EnterStage(t)
    PROVE  IInv'
  <1> DEFINE g == [test |-> t, observers |-> observers, scopes |-> <<>>, closed |-> FALSE,
                   toClose |-> <<>>, erred |-> FALSE, unwound |-> FALSE]
  <1>0. /\ stages \in Seq(Stage) /\ Len(stages) \in Nat
        /\ g \in Stage /\ g.test = t /\ g.scopes = <<>> /\ g.toClose = <<>> /\ ~g.closed
    BY DEF IInv, TypeOK, Stage
  <1>1. /\ UNCHANGED <<containers, observers, after, cleanups, failed, story, freed, checked, troubled>>
        /\ pc[t] = "body" /\ Len(stages) < MaxStages
        /\ stages' = Append(stages, g)
        /\ current' = [current EXCEPT ![t] = Len(stages')]
        /\ pc' = [pc EXCEPT ![t] = "opening"]
    BY DEF EnterStage, Goto, historyVars
  <1> HIDE DEF g
  <1>2. PICK n \in Nat : n = Len(stages) + 1
    BY <1>0
  <1>3. /\ stages' \in Seq(Stage) /\ Len(stages') = n /\ stages'[n] = g
        /\ \A s \in 1..Len(stages) : stages'[s] = stages[s] /\ s \in 1..n /\ s # n
        /\ \A s \in 1..n : s \in 1..Len(stages) \/ s = n
        /\ n \in 1..n /\ n # 0 /\ n <= MaxStages
        /\ 0..Len(stages) \subseteq 0..n
    <2>1. /\ stages' \in Seq(Stage) /\ Len(stages') = Len(stages) + 1
          /\ stages'[Len(stages) + 1] = g
          /\ \A s \in 1..Len(stages) : stages'[s] = stages[s]
      BY <1>0, <1>1, AppendFacts
    <2> QED BY <1>0, <1>1, <1>2, <2>1, BoundsAssumption
  <1>4. /\ pc'[t] = "opening" /\ current'[t] = n /\ current[t] = 0
        /\ \A u \in Tests \ {t} : pc'[u] = pc[u] /\ current'[u] = current[u]
        /\ pc' \in [Tests -> {"body", "opening", "shut", "closing", "cleanup", "over"}]
        /\ current' \in [Tests -> 0..n]
    <2>1. current[t] = 0
      BY <1>1 DEF IInv, WorkOK, AtWork
    <2>2. /\ pc \in [Tests -> {"body", "opening", "shut", "closing", "cleanup", "over"}]
          /\ current \in [Tests -> 0..Len(stages)]
      BY DEF IInv, TypeOK
    <2>3. \A u \in Tests : current[u] \in 0..n
      BY <1>3, <2>2
    <2> QED BY <1>1, <1>3, <2>1, <2>2, <2>3
  <1>5. TypeOK'
    BY <1>1, <1>3, <1>4 DEF IInv, TypeOK
  <1>6. \A u \in Tests : \A s : HasClose(u, s) => s \in 1..Len(stages)
    BY DEF HasClose, CleanupAt, IInv, CleanupsOK
  <1> DEFINE Close1(u, s) == \E i \in 1..Len(cleanups'[u]) :
                                cleanups'[u][i].what = "close" /\ cleanups'[u][i].stage = s
  <1>7. \A u, s : (HasClose(u, s)' <=> Close1(u, s)) /\ (HasClose(u, s) <=> Close1(u, s))
    BY <1>1 DEF HasClose, CleanupAt
  <1>8. WorkOK'
    <2>1. ~Close1(t, n)
      BY <1>3, <1>6, <1>7
    <2>2. /\ pc'[t] \in AtWork /\ pc'[t] = "opening" /\ current'[t] = n
          /\ stages'[n].test = t /\ ~stages'[n].closed
      BY <1>0, <1>3, <1>4 DEF AtWork
    <2>3. ASSUME NEW u \in Tests \ {t}
          PROVE  /\ pc'[u] \in AtWork <=> current'[u] # 0
                 /\ current'[u] # 0 => stages'[current'[u]].test = u
                 /\ pc'[u] = "opening" => ~stages'[current'[u]].closed /\ ~Close1(u, current'[u])
                 /\ pc'[u] = "shut" /\ after'[u] = "fatal" => ~stages'[current'[u]].closed
                 /\ pc'[u] = "closing" => stages'[current'[u]].closed
                 /\ pc'[u] = "over" => cleanups'[u] = <<>>
      <3>1. current[u] # 0 => current[u] \in 1..Len(stages)
        BY <1>0 DEF IInv, TypeOK
      <3>2. current[u] # 0 => stages'[current[u]] = stages[current[u]]
        BY <1>3, <3>1
      <3>3. pc[u] \in {"opening", "shut", "closing"} => current[u] # 0
        BY DEF IInv, WorkOK, AtWork
      <3> QED BY <1>1, <1>4, <1>7, <3>2, <3>3 DEF IInv, WorkOK, Here
    <2>4. Len(containers') <= MaxContainers
      BY <1>1 DEF IInv, WorkOK
    <2> HIDE DEF Close1
    <2>5. \A u \in Tests :
            /\ pc'[u] \in AtWork <=> current'[u] # 0
            /\ current'[u] # 0 => stages'[current'[u]].test = u
            /\ pc'[u] = "opening" => ~stages'[current'[u]].closed /\ ~Close1(u, current'[u])
            /\ pc'[u] = "shut" /\ after'[u] = "fatal" => ~stages'[current'[u]].closed
            /\ pc'[u] = "closing" => stages'[current'[u]].closed
            /\ pc'[u] = "over" => cleanups'[u] = <<>>
      <3>1. \A u \in Tests : u = t \/ u \in Tests \ {t}
        OBVIOUS
      <3>2. pc'[t] # "shut" /\ pc'[t] # "closing" /\ pc'[t] # "over" /\ current'[t] # 0
        BY <1>3, <2>2
      <3> QED BY <2>1, <2>2, <2>3, <3>1, <3>2
    <2> QED BY <1>7, <2>4, <2>5 DEF WorkOK, Here
  <1>9. CleanupsOK'
    BY <1>1, <1>3 DEF IInv, CleanupsOK
  <1>10. StagesOK'
    <2> SUFFICES ASSUME NEW s \in 1..n PROVE ScopesOK(s)'
      BY <1>3 DEF StagesOK
    <2>1. CASE s = n
      <3>1. Len(<<>>) = 0
        OBVIOUS
      <3> QED BY <1>0, <1>3, <2>1, <3>1 DEF ScopesOK
    <2>2. CASE s \in 1..Len(stages)
      <3>1. stages'[s] = stages[s] /\ ScopesOK(s) /\ s # 0 /\ s # n /\ stages[s].test \in Tests
        BY <1>3, <2>2, StageFacts DEF IInv, StagesOK
      <3>2. CASE stages[s].test = t
        <4>1. stages[s].toClose = <<>> /\ current[t] # s
          BY <1>4, <3>1, <3>2 DEF ScopesOK
        <4> QED BY <1>7, <3>1, <3>2, <4>1 DEF ScopesOK
      <3>3. CASE stages[s].test # t
        BY <1>4, <1>7, <3>1, <3>3 DEF ScopesOK
      <3> QED BY <3>2, <3>3
    <2> QED BY <1>3, <2>1, <2>2
  <1>11. FreedOK'
    BY <1>1, <1>3 DEF IInv, FreedOK
  <1>12. ChecksOK'
    <2>1. ASSUME NEW s \in checked
          PROVE  /\ s \in 1..n /\ stages'[s] = stages[s] /\ stages[s].test \in Tests
                 /\ current'[stages[s].test] # s
                 /\ ~HasClose(stages[s].test, s)
      <3>1. /\ s \in 1..Len(stages) /\ current[stages[s].test] # s /\ ~HasClose(stages[s].test, s)
            /\ stages[s].test \in Tests
        BY StageFacts DEF IInv, ChecksOK
      <3> QED BY <1>3, <1>4, <3>1
    <2>2. \A u \in Tests, s \in Stages : \A i, j \in 1..Len(cleanups'[u]) :
             CleanupAt(u, i, "close", s)' /\ CleanupAt(u, j, "check", s)' => j < i
      BY <1>1 DEF IInv, ChecksOK, CleanupAt
    <2> QED BY <1>1, <1>3, <1>7, <2>1, <2>2 DEF ChecksOK
  <1>13. TroubleOK'
    <2> SUFFICES ASSUME NEW s \in troubled
                 PROVE  /\ s \in 1..Len(stages')
                        /\ LET u == stages'[s].test IN
                           failed'[u] \/ (current'[u] = s /\ pc'[u] = "closing" /\ after'[u] = "cleanup" /\ stages'[s].erred)
      BY <1>1 DEF TroubleOK
    <2>1. /\ s \in 1..Len(stages) /\ s # 0 /\ stages[s].test \in Tests
          /\ LET u == stages[s].test IN
             failed[u] \/ (current[u] = s /\ pc[u] = "closing" /\ after[u] = "cleanup" /\ stages[s].erred)
      BY StageFacts DEF IInv, TroubleOK
    <2>2. stages'[s] = stages[s] /\ s \in 1..Len(stages')
      BY <1>3, <2>1
    <2> QED BY <1>1, <1>4, <2>1, <2>2
  <1>14. StoryOK'
    BY <1>1, <1>3 DEF IInv, StoryOK
  <1> QED BY <1>5, <1>8, <1>9, <1>10, <1>11, <1>12, <1>13, <1>14 DEF IInv

LEMMA ObserveKeeps ==
    ASSUME IInv, NEW o \in Observers, Observe(o)
    PROVE  IInv'
  <1>1. /\ UNCHANGED <<containers, stages, pc, current, after, cleanups, failed, story, freed, checked, troubled>>
        /\ observers' = observers \cup {o}
    BY DEF Observe, historyVars
  <1>2. TypeOK'
    BY <1>1 DEF IInv, TypeOK
  <1>3. \A u, s : HasClose(u, s)' <=> HasClose(u, s)
    BY <1>1 DEF HasClose, CleanupAt
  <1>4. WorkOK' /\ CleanupsOK'
    BY <1>1, <1>3 DEF IInv, WorkOK, CleanupsOK, Here
  <1>5. StagesOK'
    BY <1>1, <1>3 DEF IInv, StagesOK, ScopesOK
  <1>6. FreedOK' /\ TroubleOK' /\ StoryOK'
    BY <1>1 DEF IInv, FreedOK, TroubleOK, StoryOK
  <1>7. ChecksOK'
    BY <1>1, <1>3 DEF IInv, ChecksOK, CleanupAt
  <1> QED BY <1>2, <1>4, <1>5, <1>6, <1>7 DEF IInv

LEMMA StutterKeeps ==
    ASSUME IInv, UNCHANGED vars
    PROVE  IInv'
  BY DEF vars, IInv, TypeOK, WorkOK, CleanupsOK, StagesOK, ScopesOK, FreedOK, ChecksOK, TroubleOK,
         StoryOK, HasClose, CleanupAt, Here

LEMMA CloseAgainKeeps ==
    ASSUME IInv, NEW t \in Tests, CloseAgain(t)
    PROVE  IInv'
  <1>1. after[t] \in {"body", "cleanup"}
    BY DEF CloseAgain, IInv, TypeOK, WorkOK
  <1>2. /\ pc[t] = "shut" /\ Here(t).closed /\ Goto(t, after[t])
        /\ current' = [current EXCEPT ![t] = 0]
        /\ UNCHANGED <<containers, observers, stages, after, cleanups, failed, historyVars>>
    BY DEF CloseAgain
  <1>3. failed' \in [Tests -> BOOLEAN] /\ pc[t] # "closing"
    BY <1>2 DEF IInv, TypeOK
  <1> QED BY <1>1, <1>2, <1>3, CloseReturnsKeeps

LEMMA CloseEndsKeeps ==
    ASSUME IInv, NEW t \in Tests, CloseEnds(t)
    PROVE  IInv'
  <1>1. /\ pc[t] = "closing" /\ Here(t).toClose = <<>> /\ Goto(t, after[t])
        /\ after[t] \in {"body", "cleanup"}
        /\ failed' = [failed EXCEPT ![t] = @ \/ (after[t] = "cleanup" /\ Here(t).erred)]
        /\ current' = [current EXCEPT ![t] = 0]
        /\ UNCHANGED <<containers, observers, stages, after, cleanups, historyVars>>
    BY DEF CloseEnds
  <1>2. Here(t).erred \in BOOLEAN
    BY <1>1, CurrentFacts DEF AtWork, Stage
  <1>3. /\ failed' \in [Tests -> BOOLEAN] /\ \A u \in Tests : failed[u] => failed'[u]
        /\ after[t] = "cleanup" /\ Here(t).erred => failed'[t]
    BY <1>1, <1>2 DEF IInv, TypeOK
  <1> QED BY <1>1, <1>3, CloseReturnsKeeps

LEMMA GiveUpKeeps ==
    ASSUME IInv, NEW t \in Tests, GiveUp(t)
    PROVE  IInv'
  <1>1. /\ pc[t] = "closing" /\ Here(t).toClose = <<>>
        /\ Goto(t, "cleanup") \/ Goto(t, "body")
        /\ failed' = [failed EXCEPT ![t] = TRUE]
        /\ current' = [current EXCEPT ![t] = 0]
        /\ UNCHANGED <<containers, observers, stages, after, cleanups, historyVars>>
    BY DEF GiveUp, Fail
  <1>2. failed' \in [Tests -> BOOLEAN] /\ failed'[t] /\ \A u \in Tests : failed[u] => failed'[u]
    BY <1>1 DEF IInv, TypeOK
  <1> QED BY <1>1, <1>2, CloseReturnsKeeps

LEMMA NextKeeps == IInv /\ [Next]_vars => IInv'
  <1> SUFFICES ASSUME IInv, [Next]_vars PROVE IInv'
    OBVIOUS
  <1>1. ASSUME NEW o \in Observers, Observe(o) PROVE IInv'
    BY <1>1, ObserveKeeps
  <1>2. ASSUME NEW t \in Tests, Enter(t) PROVE IInv'
    BY <1>2, EnterStageKeeps, EnterUnbuiltKeeps, ScopeOpensKeeps, ScopeFailsKeeps, ScopeUnwindsKeeps,
       StageEnteredKeeps DEF Enter
  <1>3. ASSUME NEW t \in Tests, Body(t) PROVE IInv'
    BY <1>3, ErrorfKeeps, CloseByHandKeeps, BodyEndsKeeps DEF Body
  <1>4. ASSUME NEW t \in Tests, Clean(t) PROVE IInv'
    BY <1>4, RunCleanupKeeps, CheckExpectationsKeeps, TestOverKeeps DEF Clean
  <1>5. ASSUME NEW t \in Tests, Close(t) PROVE IInv'
    BY <1>5, CloseAgainKeeps, CloseBeginsKeeps, CloseScopeKeeps, CloseEndsKeeps, GiveUpKeeps DEF Close
  <1>6. CASE UNCHANGED vars
    BY <1>6, StutterKeeps
  <1> QED BY <1>1, <1>2, <1>3, <1>4, <1>5, <1>6 DEF Next, Over

-----------------------------------------------------------------------------
\* The invariant holds of every behaviour, whatever the tests do and however their
\* scopes end.
THEOREM Invariance == Spec => []IInv
  BY InitIInv, NextKeeps, PTL DEF Spec

\* The state keeps its shape in every behaviour, and no more stages are entered
\* than the bound.
THEOREM Typing == Spec => []TypeOK
  <1>1. IInv => TypeOK
    BY DEF IInv
  <1> QED BY Invariance, <1>1, PTL

\* Close releases the scopes newest first, and each once, for any number of
\* stages and containers: FreedOK says that what is still to be closed is older.
THEOREM NewestFirstAndOnceHolds == Spec => []NewestFirstAndOnce
  <1>1. IInv => NewestFirstAndOnce
    <2> SUFFICES ASSUME IInv PROVE NewestFirstAndOnce
      OBVIOUS
    <2>1. DOMAIN freed = 1..Len(freed)
      BY LenProperties DEF IInv, TypeOK
    <2> QED BY <2>1 DEF IInv, FreedOK, NewestFirstAndOnce
  <1> QED BY Invariance, <1>1, PTL

\* No stage outlives its test with a scope open, the ones EnterStage gave up
\* included: until Close has taken a stage's scopes its test is at work on it, or
\* has its Close among the cleanups, and a test that is over has neither.
THEOREM NothingLeaksHolds == Spec => []NothingLeaks
  <1>1. IInv => NothingLeaks
    <2> SUFFICES ASSUME IInv, NEW s \in 1..Len(stages),
                        pc[stages[s].test] = "over", ~stages[s].unwound
                 PROVE  stages[s].scopes = <<>> /\ stages[s].toClose = <<>>
      BY DEF NothingLeaks
    <2> DEFINE t == stages[s].test
    <2>1. t \in Tests /\ ScopesOK(s) /\ s # 0
      BY StageFacts DEF IInv, StagesOK
    <2>2. current[t] = 0 /\ cleanups[t] = <<>>
      BY <2>1 DEF IInv, WorkOK, AtWork
    <2>3. ~HasClose(t, s)
      <3>1. Len(cleanups[t]) = 0
        BY <2>2
      <3> QED BY <3>1 DEF HasClose
    <2> QED BY <2>1, <2>2, <2>3 DEF ScopesOK
  <1> QED BY Invariance, <1>1, PTL

\* The observers a stage was entered with hear of its end, at most once, and
\* nobody else hears of it.
THEOREM SameAudienceHolds == Spec => []SameAudience
  <1>1. IInv => SameAudience
    <2> SUFFICES ASSUME IInv, NEW s \in 1..Len(stages)
                 PROVE  /\ Cardinality(Told(s, "closed")) <= 1
                        /\ \A i \in Told(s, "entered") \cup Told(s, "closed") :
                              story[i].to = stages[s].observers
      BY DEF SameAudience
    <2>1. DOMAIN story = 1..Len(story)
      BY LenProperties DEF IInv, TypeOK
    <2>2. \A i, j \in Told(s, "closed") : i = j
      BY <2>1 DEF Told, IInv, StoryOK
    <2>3. Cardinality(Told(s, "closed")) <= 1
      <3>1. CASE Told(s, "closed") = {}
        BY <3>1, FS_EmptySet
      <3>2. CASE Told(s, "closed") # {}
        <4>1. PICK i : i \in Told(s, "closed")
          BY <3>2
        <4>2. Told(s, "closed") = {i}
          BY <2>2, <4>1
        <4>3. Cardinality({i}) = 1
          BY FS_Singleton
        <4>4. Cardinality(Told(s, "closed")) = 1
          BY <4>2, <4>3
        <4> QED BY <4>4
      <3> QED BY <3>1, <3>2
    <2>4. \A i \in Told(s, "entered") \cup Told(s, "closed") : story[i].to = stages[s].observers
      BY <2>1 DEF Told, IInv, StoryOK
    <2> QED BY <2>3, <2>4
  <1> QED BY Invariance, <1>1, PTL

\* A Close that a cleanup ran and that failed fails the test, whichever scope
\* failed: the error is kept in errs until the cleanup reports it.
THEOREM CloseErrorsFailTheTestHolds == Spec => []CloseErrorsFailTheTest
  <1>1. IInv => CloseErrorsFailTheTest
    BY DEF IInv, TroubleOK, CloseErrorsFailTheTest
  <1> QED BY Invariance, <1>1, PTL

\* No scope of a stage is closed once its expectations have been checked: the
\* checks were left with the test before the stage's Close was, and cleanups run
\* last-registered-first.
THEOREM ReleasedBeforeCheckedHolds == Spec => ReleasedBeforeChecked
  <1>1. IInv => \A t \in Tests : current[t] \in checked => ~CloseScope(t)
    <2> SUFFICES ASSUME IInv, NEW t \in Tests, CloseScope(t) PROVE current[t] \notin checked
      OBVIOUS
    <2>1. pc[t] \in AtWork
      BY DEF CloseScope, AtWork
    <2> QED BY <2>1, CurrentFacts
  <1>2. IInv => [\A t \in Tests : current[t] \in checked => ~CloseScope(t)]_vars
    BY <1>1
  <1> QED BY Invariance, <1>2, PTL DEF ReleasedBeforeChecked
=============================================================================
