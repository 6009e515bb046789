---------------------------- MODULE ChainProofs -----------------------------
(***************************************************************************)
(* Proofs about Chain, for any number of operations, branches and bodies.  *)
(* One invariant gives them all: where the runners are (RunsOK), how what  *)
(* has ended shows in them (EndedOK), what has been observed and reported  *)
(* (EventsOK, ReportsOK), and that every failure is either still on its    *)
(* way to the test or has reached it (SettledOK).  Last, about Labels:     *)
(* what is searched for in a panic's stack is found in it (StackFacts).    *)
(***************************************************************************)
EXTENDS MCChain, FiniteSetTheorems, SequenceTheorems, TLAPS

Busy     == {"run", "emit"}
InChain  == {"step", "handBack", "all", "report"}
Stopped  == {"unwound", "closed"}

RunsOK ==
    /\ \A r \in Runners : /\ run[r].at \in {"idle", "run", "gone"} => run[r].err = "nil"
                          /\ run[r].at \in Busy => run[r].ctx = ctx
    /\ pc \in {"body", "returned"} => \A r \in Runners : run[r].at = "idle"
    /\ pc \in {"step", "handBack"} => \A r \in Branches : run[r].at = "idle"
    /\ pc = "step" => run[0].at \in {"run", "emit", "done"}
    /\ pc = "handBack" => run[0].at = "done" /\ (mode = "fast" => run[0].err = "nil")
    /\ pc \in {"all", "report"} => /\ run[0].at = "idle"
                                   /\ \A r \in Branches : run[r].at = "idle" <=> r > width
    /\ pc = "report" => next >= 1 /\ \A r \in Branches : run[r].at \notin Busy
    /\ pc \in Stopped => \A r \in Runners : run[r].at \notin Busy

\* How a step ended, as its runner has it until the chain goes on.
Shows(e, x) ==
    /\ e.kind = x.kind
    /\ x.at \in {"emit", "done", "gone"}
    /\ e.how = "goexit" => x.at = "gone"
    /\ e.how = "nil" => x.value /\ x.err = "nil"
    /\ e.how = "error" => (x.err = "nil" <=> e.kind = "try")
    /\ e.how = "panic" => x.err # "nil"

EndedOK ==
    /\ \A b \in begun : b[1] <= ops
    /\ \A e \in ended : e.id[1] <= ops
    /\ \A e \in ended : e.how = "goexit" => failed
    /\ \A e \in ended : e.id[1] = ops /\ pc \in InChain => e.mode = mode /\ Shows(e, run[e.id[2]])
    /\ \A r \in Runners : run[r].err # "nil" => \E e \in Failing : e.id = Id(r)

\* A call in progress is one the test has begun.
StepsBegun == pc \in InChain => ops >= 1

EventsOK ==
    /\ \A i \in 1..Len(events) : events[i].id[1] <= ops
    /\ \A i \in 1..Len(events), r \in Runners : run[r].at \in Busy => events[i].id # Id(r)
    /\ \A i, j \in 1..Len(events) : events[i].id = events[j].id => i = j
    /\ \A r \in Runners : run[r].at = "done" => \E i \in 1..Len(events) : events[i].id = Id(r)

\* The place AllReports has come to, or where the step's own report would be.
ToReport(id) ==
    /\ id[1] = ops
    /\ \/ pc = "step" /\ id[2] = 0
       \/ pc = "all"
       \/ pc = "report" /\ next <= id[2]

ReportsOK ==
    /\ \A i \in 1..Len(reports) : /\ reports[i][1] <= ops
                                  /\ ~ToReport(reports[i])
                                  /\ pc \in {"step", "all"} => reports[i][1] # ops
                                  /\ \E j \in 1..Len(events) : events[j].id = reports[i]
                                  /\ \E e \in Failing : e.id = reports[i]
    /\ \A i, j \in 1..Len(reports) : reports[i] = reports[j] => i = j

Settled(e) ==
    /\ failed
    /\ e.mode = "fast" => e.id[1] = ops /\ pc \in Stopped
    /\ e.mode = "soft" => \E i \in 1..Len(reports) : reports[i] = e.id

SettledOK == \A e \in Failing : ToReport(e.id) \/ Settled(e)

VerdictOK ==
    verdict # "none" => pc = "closed" /\ (failed => verdict = "failed")

IInv == /\ TypeOK
        /\ RunsOK
        /\ StepsBegun
        /\ EndedOK
        /\ EventsOK
        /\ ReportsOK
        /\ SettledOK
        /\ VerdictOK
        /\ HandedBackIsMeaningful

-----------------------------------------------------------------------------
LEMMA RunnerFacts == 0 \in Runners /\ Branches \subseteq Runners /\ Runners \ {0} = Branches
  BY BoundsAssumption DEF Runners, Branches

LEMMA InitIInv == Init => IInv
  <1> SUFFICES ASSUME Init PROVE IInv
    OBVIOUS
  <1>1. TypeOK
    <2>1. IdleRun \in RunState
      BY BoundsAssumption DEF RunState, IdleRun, Kinds, Contexts, Errs
    <2>2. ops \in 0..MaxOps /\ next \in 0..(MaxBranches + 1) /\ width \in {0} \cup 2..MaxBranches
      BY BoundsAssumption DEF Init
    <2>3. events \in Seq([id : Ids, err : Errs]) /\ reports \in Seq(Ids)
      BY DEF Init
    <2>4. run \in [Runners -> RunState]
      BY <2>1 DEF Init
    <2>5. begun \subseteq Ids /\ ended \subseteq Ending
      BY DEF Init
    <2>6. handed \subseteq [kind : Kinds, mode : Modes, how : Endings, value : BOOLEAN, err : BOOLEAN]
      BY DEF Init
    <2>7. pc = "body" /\ mode \in Modes /\ ctx \in Contexts /\ failed \in BOOLEAN /\ verdict = "none"
      BY DEF Init, Contexts
    <2> QED BY <2>2, <2>3, <2>4, <2>5, <2>6, <2>7 DEF TypeOK
  <1>2. RunsOK
    BY RunnerFacts DEF Init, RunsOK, IdleRun, Busy, Stopped
  <1>3. StepsBegun /\ EndedOK /\ EventsOK /\ ReportsOK /\ SettledOK /\ VerdictOK /\ HandedBackIsMeaningful
    BY DEF Init, IdleRun, StepsBegun, EndedOK, EventsOK, ReportsOK, SettledOK, VerdictOK, Failing,
       HandedBackIsMeaningful, Busy, InChain
  <1> QED BY <1>1, <1>2, <1>3 DEF IInv

\* A runner in its executor is the test's in Add, or one of All's branches.
LEMMA BusyRunner ==
    ASSUME IInv, NEW r \in Runners, run[r].at \in Busy
    PROVE  \/ pc = "step" /\ r = 0
           \/ pc = "all" /\ r \in Branches /\ r <= width
  BY RunnerFacts DEF IInv, TypeOK, RunsOK, Busy, Stopped, Branches, Runners

\* Passes, Fails, Refuses and Panics: the executor returns, and the runner has
\* what the step came to.
LEMMA EndsKeeps ==
    ASSUME IInv, NEW r \in Runners, run[r].at = "run",
           NEW x \in RunState, x.at = "emit", x.kind = run[r].kind, x.ctx = run[r].ctx,
           run' = [run EXCEPT ![r] = x],
           NEW how \in Errs, Ends(r, how),
           how = "nil" => x.value /\ x.err = "nil",
           how = "error" => (x.err = "nil" <=> x.kind = "try"),
           how = "panic" => x.err # "nil",
           failed' \in BOOLEAN, failed => failed',
           UNCHANGED <<pc, chainVars, ops, width, next, begun, events, reports, historyVars>>
    PROVE  IInv'
  <1> DEFINE e == [id |-> Id(r), kind |-> run[r].kind, mode |-> mode, how |-> how]
  <1>1. ended' = ended \cup {e}
    BY DEF Ends
  <1>2. /\ UNCHANGED <<pc, mode, ctx, ops, width, next, begun, events, reports, handed, verdict>>
        /\ run'[r] = x
        /\ \A q \in Runners : q # r => run'[q] = run[q]
    BY DEF IInv, TypeOK, chainVars, historyVars
  <1>3. \/ pc = "step" /\ r = 0
        \/ pc = "all" /\ r \in Branches /\ r <= width
    BY BusyRunner DEF Busy
  <1>4. ops \in 1..MaxOps
    BY <1>3 DEF IInv, StepsBegun, TypeOK, InChain
  <1>5. e \in Ending
    BY <1>4 DEF IInv, TypeOK, Ending, Endings, Errs, Ids, Id, RunState
  <1>6. TypeOK'
    BY <1>1, <1>2, <1>5 DEF IInv, TypeOK
  <1>7. RunsOK'
    BY <1>2, <1>3, RunnerFacts DEF IInv, TypeOK, RunsOK, Busy, Stopped
  <1>8. EndedOK'
    <2>1. /\ \A b \in begun' : b[1] <= ops'
          /\ \A d \in ended' : d.id[1] <= ops'
          /\ \A d \in ended' : d.how = "goexit" => failed'
      BY <1>1, <1>2, <1>4 DEF IInv, EndedOK, Id, Errs
    <2>2. ASSUME NEW d \in ended, d.id[1] = ops, pc \in InChain
          PROVE  d.mode = mode /\ Shows(d, run'[d.id[2]])
      <3>1. d.mode = mode /\ Shows(d, run[d.id[2]]) /\ d.id \in Ids
        BY <2>2 DEF IInv, EndedOK, TypeOK, Ending
      <3>2. d.id[2] \in Runners /\ d.id[2] # r
        BY <3>1 DEF Ids, Shows
      <3> QED BY <1>2, <3>1, <3>2
    <2>3. e.id[1] = ops /\ e.id[2] = r /\ e.mode = mode /\ Shows(e, x)
      BY DEF Shows, Id, Errs
    <2>4. \A d \in ended' : d.id[1] = ops' /\ pc' \in InChain =>
              d.mode = mode' /\ Shows(d, run'[d.id[2]])
      <3> HIDE DEF e
      <3> QED BY <1>1, <1>2, <2>2, <2>3
    <2>5. \A q \in Runners : run'[q].err # "nil" => \E d \in Failing' : d.id = Id(q)'
      <3>1. x.err # "nil" => e \in Failing'
        BY <1>1 DEF Failing, Errs, RunState
      <3>2. Failing \subseteq Failing' /\ e.id = Id(r)' /\ \A q \in Runners : Id(q)' = Id(q)
        BY <1>1, <1>2 DEF Failing, Id
      <3> HIDE DEF e
      <3> QED BY <1>2, <3>1, <3>2 DEF IInv, EndedOK
    <2> QED BY <2>1, <2>4, <2>5 DEF EndedOK
  <1>9. EventsOK'
    <2>1. \A q \in Runners : /\ Id(q)' = Id(q)
                             /\ run'[q].at \in Busy <=> run[q].at \in Busy
                             /\ run'[q].at = "done" => run[q].at = "done"
      BY <1>2 DEF Id, Busy
    <2> QED BY <1>2, <2>1 DEF IInv, EventsOK
  <1>10. Failing \subseteq Failing'
    BY <1>1 DEF Failing
  <1>11. ReportsOK'
    <2>1. \A id \in Ids : ToReport(id)' <=> ToReport(id)
      BY <1>2 DEF ToReport
    <2>2. \A i \in 1..Len(reports) : reports[i] \in Ids
      BY DEF IInv, TypeOK
    <2>3. ASSUME NEW i \in 1..Len(reports) PROVE ~ToReport(reports[i])'
      BY <2>1, <2>2 DEF IInv, ReportsOK
    <2>4. ASSUME NEW i \in 1..Len(reports)
          PROVE  /\ reports[i][1] <= ops
                 /\ pc \in {"step", "all"} => reports[i][1] # ops
                 /\ \E j \in 1..Len(events) : events[j].id = reports[i]
                 /\ \E d \in Failing' : d.id = reports[i]
      BY <1>10 DEF IInv, ReportsOK
    <2>5. \A i, j \in 1..Len(reports) : reports[i] = reports[j] => i = j
      BY DEF IInv, ReportsOK
    <2> QED BY <1>2, <2>3, <2>4, <2>5 DEF ReportsOK
  <1>12. SettledOK' /\ VerdictOK'
    BY <1>1, <1>2, <1>3, <1>10 DEF IInv, TypeOK, SettledOK, Settled, ToReport, VerdictOK, Failing, Id
  <1>13. HandedBackIsMeaningful'
    BY <1>2 DEF IInv, HandedBackIsMeaningful
  <1>14. StepsBegun'
    BY <1>2 DEF IInv, StepsBegun
  <1> QED BY <1>6, <1>7, <1>8, <1>9, <1>11, <1>12, <1>13, <1>14 DEF IInv

\* The other things a body does: a Group goes on with its next step, or its
\* goroutine ends.
LEMMA PassesOneKeeps ==
    ASSUME IInv, NEW r \in Runners, NEW soft \in BOOLEAN, Passes(r, soft), run[r].left > 1
    PROVE  IInv'
  <1> DEFINE x == [run[r] EXCEPT !.left = @ - 1]
  <1>1. /\ run[r].at = "run"
        /\ run' = [run EXCEPT ![r] = x]
        /\ failed' = (failed \/ soft)
        /\ UNCHANGED <<pc, mode, ctx, ops, width, next, begun, ended, events, reports, handed, verdict>>
    BY DEF Passes, chainVars, historyVars
  <1>2. /\ x \in RunState /\ x.at = "run"
        /\ x.err = run[r].err /\ x.ctx = run[r].ctx /\ x.kind = run[r].kind
    <2>1. run[r] \in RunState
      BY DEF IInv, TypeOK
    <2>2. run[r].left \in 0..MaxBodies /\ MaxBodies \in Nat
      BY <2>1, BoundsAssumption DEF RunState
    <2>3. run[r].left - 1 \in 0..MaxBodies
      BY <2>2
    <2> QED BY <1>1, <2>1, <2>3 DEF RunState
  <1>3. \A q \in Runners : /\ run'[q].at = run[q].at /\ run'[q].err = run[q].err
                           /\ run'[q].ctx = run[q].ctx /\ Id(q)' = Id(q)
                           /\ q # r => run'[q] = run[q]
    BY <1>1, <1>2 DEF IInv, TypeOK, Id
  <1>4. TypeOK'
    BY <1>1, <1>2 DEF IInv, TypeOK
  <1> HIDE DEF x
  <1>5. RunsOK'
    BY <1>1, <1>3, RunnerFacts DEF IInv, RunsOK
  <1>6. EndedOK'
    <2>1. ASSUME NEW d \in ended, d.id[1] = ops, pc \in InChain
          PROVE  d.mode = mode /\ Shows(d, run'[d.id[2]])
      <3>1. d.mode = mode /\ Shows(d, run[d.id[2]]) /\ d.id[2] \in Runners
        BY <2>1 DEF IInv, EndedOK, TypeOK, Ending, Ids
      <3>2. d.id[2] # r
        BY <1>1, <3>1 DEF Shows
      <3> QED BY <1>3, <3>1, <3>2
    <2>2. Failing' = Failing
      BY <1>1 DEF Failing
    <2> QED BY <1>1, <1>3, <2>1, <2>2 DEF IInv, EndedOK
  <1>7. EventsOK' /\ ReportsOK' /\ StepsBegun'
    BY <1>1, <1>3 DEF IInv, EventsOK, ReportsOK, ToReport, Failing, StepsBegun
  <1>8. SettledOK' /\ VerdictOK' /\ HandedBackIsMeaningful'
    <2>1. pc # "closed"
      BY <1>1, BusyRunner DEF Busy
    <2> QED BY <1>1, <2>1 DEF IInv, SettledOK, Settled, ToReport, Failing, VerdictOK,
                              HandedBackIsMeaningful
  <1> QED BY <1>4, <1>5, <1>6, <1>7, <1>8 DEF IInv

LEMMA GoexitsKeeps ==
    ASSUME IInv, NEW r \in Runners, Goexits(r)
    PROVE  IInv'
  <1> DEFINE x == [run[r] EXCEPT !.at = "gone"]
             e == [id |-> Id(r), kind |-> run[r].kind, mode |-> mode, how |-> "goexit"]
  <1>1. /\ run[r].at = "run"
        /\ failed' = TRUE
        /\ run' = [run EXCEPT ![r] = x]
        /\ pc' = IF r = 0 THEN "unwound" ELSE pc
        /\ ended' = ended \cup {e}
        /\ UNCHANGED <<mode, ctx, ops, width, next, begun, events, reports, handed, verdict>>
    BY DEF Goexits, Ends, chainVars, historyVars
  <1>2. /\ x \in RunState /\ x.at = "gone" /\ x.kind = run[r].kind
        /\ x.err = "nil"
    BY <1>1, RunnerFacts DEF IInv, TypeOK, RunState, RunsOK
  <1>3. \/ pc = "step" /\ r = 0 /\ pc' = "unwound"
        \/ pc = "all" /\ r \in Branches /\ r <= width /\ pc' = "all"
    BY <1>1, BusyRunner DEF Busy, Branches
  <1>4. ops \in 1..MaxOps
    BY <1>3 DEF IInv, StepsBegun, TypeOK, InChain
  <1>5. e \in Ending
    BY <1>4 DEF IInv, TypeOK, Ending, Endings, Ids, Id, RunState
  <1>6. run'[r] = x /\ \A q \in Runners : q # r => run'[q] = run[q]
    BY <1>1 DEF IInv, TypeOK
  <1>7. TypeOK'
    BY <1>1, <1>2, <1>3, <1>5 DEF IInv, TypeOK
  <1>8. e.id[1] = ops /\ e.id[2] = r /\ e.mode = mode /\ e.how = "goexit" /\ Shows(e, x)
    BY <1>2 DEF Shows, Id
  <1>9. Failing' = Failing
    BY <1>1 DEF Failing
  <1> HIDE DEF x, e
  <1>10. RunsOK'
    BY <1>1, <1>2, <1>3, <1>6, RunnerFacts DEF IInv, RunsOK, Busy, Stopped
  <1>11. EndedOK'
    <2>1. ASSUME NEW d \in ended, d.id[1] = ops, pc' \in InChain
          PROVE  d.mode = mode /\ Shows(d, run'[d.id[2]])
      <3>1. pc \in InChain
        BY <1>3, <2>1 DEF InChain
      <3>2. d.mode = mode /\ Shows(d, run[d.id[2]]) /\ d.id[2] \in Runners
        BY <2>1, <3>1 DEF IInv, EndedOK, TypeOK, Ending, Ids
      <3>3. d.id[2] # r
        BY <1>1, <3>2 DEF Shows
      <3> QED BY <1>6, <3>2, <3>3
    <2>2. \A d \in ended' : d.id[1] = ops' /\ pc' \in InChain =>
              d.mode = mode' /\ Shows(d, run'[d.id[2]])
      BY <1>1, <1>6, <1>8, <2>1
    <2>3. \A b \in begun' : b[1] <= ops'
      BY <1>1 DEF IInv, EndedOK
    <2>4. \A d \in ended' : d.id[1] <= ops'
      BY <1>1, <1>4, <1>8 DEF IInv, EndedOK
    <2>5. \A q \in Runners : run'[q].err # "nil" => \E d \in Failing' : d.id = Id(q)'
      BY <1>1, <1>2, <1>6, <1>9 DEF IInv, EndedOK, Id
    <2> QED BY <1>1, <2>2, <2>3, <2>4, <2>5 DEF EndedOK
  <1>12. EventsOK' /\ StepsBegun'
    <2>1. \A q \in Runners : /\ Id(q)' = Id(q)
                             /\ run'[q].at \in Busy => run[q].at \in Busy
                             /\ run'[q].at = "done" => run[q].at = "done"
      BY <1>1, <1>2, <1>6 DEF Id, Busy
    <2> QED BY <1>1, <1>3, <2>1 DEF IInv, EventsOK, StepsBegun, InChain
  <1>13. ReportsOK'
    BY <1>1, <1>3, <1>9 DEF IInv, ReportsOK, ToReport
  <1>14. SettledOK'
    <2>1. ASSUME NEW d \in Failing
          PROVE  ToReport(d.id)' \/ Settled(d)'
      <3>1. CASE pc = "all"
        BY <1>1, <1>3, <3>1 DEF IInv, SettledOK, ToReport, Settled, Stopped
      <3>2. CASE pc = "step" /\ ToReport(d.id)
        <4>1. d \in ended /\ d.how # "goexit" /\ d.id[1] = ops /\ d.id[2] = r
          BY <1>3, <3>2 DEF Failing, ToReport
        <4>2. Shows(d, run[r])
          BY <3>2, <4>1 DEF IInv, EndedOK, InChain
        <4> QED BY <1>1, <4>2 DEF Shows
      <3>3. CASE pc = "step" /\ ~ToReport(d.id)
        BY <1>1, <1>3, <3>3 DEF IInv, SettledOK, Settled, Stopped
      <3> QED BY <1>3, <3>1, <3>2, <3>3
    <2> QED BY <1>9, <2>1 DEF SettledOK
  <1>15. VerdictOK' /\ HandedBackIsMeaningful'
    BY <1>1, <1>3 DEF IInv, VerdictOK, HandedBackIsMeaningful
  <1> QED BY <1>7, <1>10, <1>11, <1>12, <1>13, <1>14, <1>15 DEF IInv

-----------------------------------------------------------------------------
LEMMA EventFacts ==
    ASSUME NEW S, NEW q \in Seq(S), NEW x \in S
    PROVE  /\ Append(q, x) \in Seq(S)
           /\ Len(q) \in Nat
           /\ Len(Append(q, x)) = Len(q) + 1
           /\ Append(q, x)[Len(q) + 1] = x
           /\ \A i \in 1..Len(q) : Append(q, x)[i] = q[i]
  OBVIOUS

LEMMA ObserveKeeps ==
    ASSUME IInv, NEW r \in Runners, Observe(r)
    PROVE  IInv'
  <1> DEFINE x == [run[r] EXCEPT !.at = "done"]
             v == [id |-> Id(r), err |-> run[r].err]
             n == Len(events)
  <1>1. /\ run[r].at = "emit"
        /\ run' = [run EXCEPT ![r] = x]
        /\ events' = Append(events, v)
        /\ UNCHANGED <<pc, mode, ctx, ops, width, next, failed, begun, ended, reports, handed, verdict>>
    BY DEF Observe, chainVars, historyVars
  <1>2. /\ x \in RunState /\ x.at = "done"
        /\ x.err = run[r].err /\ x.kind = run[r].kind /\ x.value = run[r].value
    BY DEF IInv, TypeOK, RunState
  <1>3. \/ pc = "step" /\ r = 0
        \/ pc = "all" /\ r \in Branches /\ r <= width
    BY <1>1, BusyRunner DEF Busy
  <1>4. ops \in 1..MaxOps
    BY <1>3 DEF IInv, StepsBegun, TypeOK, InChain
  <1>5. v \in [id : Ids, err : Errs] /\ v.id = Id(r)
    BY <1>4 DEF IInv, TypeOK, Ids, Id, RunState
  <1>6. run'[r] = x /\ \A q \in Runners : q # r => run'[q] = run[q]
    BY <1>1 DEF IInv, TypeOK
  <1> HIDE DEF x, v
  <1>7. /\ events' \in Seq([id : Ids, err : Errs])
        /\ n \in Nat /\ Len(events') = n + 1
        /\ events'[n + 1] = v
        /\ \A i \in 1..n : events'[i] = events[i]
    BY <1>1, <1>5, EventFacts DEF IInv, TypeOK
  <1>8. TypeOK'
    BY <1>1, <1>2, <1>7 DEF IInv, TypeOK
  <1>9. RunsOK'
    BY <1>1, <1>2, <1>3, <1>6, RunnerFacts DEF IInv, RunsOK, Busy, Stopped
  <1>10. Failing' = Failing /\ \A q \in Runners : Id(q)' = Id(q)
    BY <1>1 DEF Failing, Id
  <1>11. EndedOK'
    <2>1. ASSUME NEW d \in ended, d.id[1] = ops, pc \in InChain
          PROVE  d.mode = mode /\ Shows(d, run'[d.id[2]])
      <3>1. d.mode = mode /\ Shows(d, run[d.id[2]]) /\ d.id[2] \in Runners
        BY <2>1 DEF IInv, EndedOK, TypeOK, Ending, Ids
      <3>2. Shows(d, run[r]) => Shows(d, x)
        BY <1>1, <1>2 DEF Shows
      <3> QED BY <1>6, <3>1, <3>2
    <2>2. \A q \in Runners : run'[q].err # "nil" => \E d \in Failing' : d.id = Id(q)'
      BY <1>2, <1>6, <1>10 DEF IInv, EndedOK
    <2> QED BY <1>1, <2>1, <2>2 DEF IInv, EndedOK
  <1>12. EventsOK'
    <2>1. \A i \in 1..n : events[i].id # Id(r) /\ events[i].id[1] <= ops
      BY <1>1 DEF IInv, EventsOK, Busy
    <2>2. \A i \in 1..(n + 1) : i \in 1..n \/ i = n + 1
      BY <1>7
    <2>3. \A i \in 1..Len(events') : events'[i].id[1] <= ops'
      BY <1>1, <1>4, <1>5, <1>7, <2>1, <2>2 DEF Id
    <2>4. \A i \in 1..Len(events'), q \in Runners : run'[q].at \in Busy => events'[i].id # Id(q)'
      <3> SUFFICES ASSUME NEW i \in 1..Len(events'), NEW q \in Runners, run'[q].at \in Busy
                   PROVE  events'[i].id # Id(q)
        BY <1>10
      <3>1. q # r /\ run[q].at \in Busy
        BY <1>2, <1>6 DEF Busy
      <3>2. Id(q) # Id(r)
        BY <3>1 DEF Id
      <3> QED BY <1>5, <1>7, <2>2, <3>1, <3>2 DEF IInv, EventsOK
    <2>5. \A i, j \in 1..Len(events') : events'[i].id = events'[j].id => i = j
      BY <1>5, <1>7, <2>1, <2>2 DEF IInv, EventsOK
    <2>6. \A q \in Runners : run'[q].at = "done" => \E i \in 1..Len(events') : events'[i].id = Id(q)'
      <3> SUFFICES ASSUME NEW q \in Runners, run'[q].at = "done"
                   PROVE  \E i \in 1..(n + 1) : events'[i].id = Id(q)
        BY <1>7, <1>10
      <3>1. CASE q = r
        BY <1>5, <1>7, <3>1
      <3>2. CASE q # r
        <4>1. PICK i \in 1..n : events[i].id = Id(q)
          BY <1>6, <3>2 DEF IInv, EventsOK
        <4> QED BY <1>7, <4>1
      <3> QED BY <3>1, <3>2
    <2> QED BY <2>3, <2>4, <2>5, <2>6 DEF EventsOK
  <1>13. ReportsOK'
    <2>1. \A id : ToReport(id)' <=> ToReport(id)
      BY <1>1 DEF ToReport
    <2>2. ASSUME NEW i \in 1..Len(reports)
          PROVE  \E j \in 1..Len(events') : events'[j].id = reports[i]
      <3>1. PICK j \in 1..n : events[j].id = reports[i]
        BY DEF IInv, ReportsOK
      <3> QED BY <1>7, <3>1
    <2> QED BY <1>1, <1>10, <2>1, <2>2 DEF IInv, ReportsOK
  <1>14. SettledOK' /\ VerdictOK' /\ HandedBackIsMeaningful' /\ StepsBegun'
    BY <1>1, <1>10 DEF IInv, SettledOK, Settled, ToReport, VerdictOK, HandedBackIsMeaningful, StepsBegun
  <1> QED BY <1>8, <1>9, <1>11, <1>12, <1>13, <1>14 DEF IInv

-----------------------------------------------------------------------------
\* A failure of the operation in progress is what its runner shows.
LEMMA FailureShows ==
    ASSUME IInv, NEW e \in Failing, e.id[1] = ops, pc \in InChain
    PROVE  /\ e.id[2] \in Runners /\ e.id = Id(e.id[2])
           /\ e.mode = mode
           /\ run[e.id[2]].err # "nil"
           /\ run[e.id[2]].at # "idle"
  <1>1. e \in ended /\ e \in Ending
    BY DEF Failing, IInv, TypeOK
  <1>2. e.id[2] \in Runners /\ e.id = Id(e.id[2])
    BY <1>1 DEF Ending, Ids, Id
  <1>3. e.mode = mode /\ Shows(e, run[e.id[2]])
    BY <1>1 DEF IInv, EndedOK
  <1> QED BY <1>2, <1>3 DEF Shows, Failing

\* A step of the chain or of the test body that tells nobody anything, and leaves
\* no failure behind that was still to be reported.
LEMMA QuietKeeps ==
    ASSUME IInv, UNCHANGED <<ops, failed, begun, ended, events, reports>>,
           \A r \in Runners : run'[r] = run[r] \/ run'[r] = IdleRun,
           pc' \notin {"step", "all", "report"},
           pc' = "handBack" => pc \in InChain /\ UNCHANGED <<run, mode>>,
           pc \in Stopped => pc' \in Stopped,
           \A e \in Failing : ~ToReport(e.id)
    PROVE  EndedOK' /\ StepsBegun' /\ EventsOK' /\ ReportsOK' /\ SettledOK'
  <1>1. Failing' = Failing /\ \A q : Id(q)' = Id(q)
    BY DEF Failing, Id
  <1>2. \A q \in Runners : /\ run'[q].err # "nil" => run'[q] = run[q]
                           /\ run'[q].at \in Busy => run'[q] = run[q]
                           /\ run'[q].at = "done" => run'[q] = run[q]
    BY DEF IdleRun, Busy
  <1>3. pc' \in InChain => pc' = "handBack" /\ pc \in InChain /\ UNCHANGED <<run, mode>>
    BY DEF InChain
  <1>4. EndedOK'
    <2>1. \A d \in ended' : d.id[1] = ops' /\ pc' \in InChain =>
              d.mode = mode' /\ Shows(d, run'[d.id[2]])
      BY <1>3 DEF IInv, EndedOK
    <2>2. \A q \in Runners : run'[q].err # "nil" => \E d \in Failing' : d.id = Id(q)'
      BY <1>1, <1>2 DEF IInv, EndedOK
    <2> QED BY <2>1, <2>2 DEF IInv, EndedOK
  <1>5. StepsBegun'
    BY <1>3 DEF IInv, StepsBegun
  <1>6. EventsOK'
    <2>1. \A i \in 1..Len(events), q \in Runners : run'[q].at \in Busy => events[i].id # Id(q)
      BY <1>2 DEF IInv, EventsOK
    <2>2. \A q \in Runners : run'[q].at = "done" => \E i \in 1..Len(events) : events[i].id = Id(q)
      BY <1>2 DEF IInv, EventsOK
    <2> QED BY <1>1, <2>1, <2>2 DEF IInv, EventsOK
  <1>7. ReportsOK'
    BY <1>1 DEF IInv, ReportsOK, ToReport
  <1>8. SettledOK'
    BY <1>1 DEF IInv, SettledOK, Settled
  <1> QED BY <1>4, <1>5, <1>6, <1>7, <1>8

LEMMA StartChainKeeps ==
    ASSUME IInv, NEW m \in Modes, StartChain(m)
    PROVE  IInv'
  <1>1. pc = "body" /\ pc' = "body" /\ mode' \in Modes /\ ctx' = "stage"
    BY DEF StartChain
  <1>2. UNCHANGED <<ops, width, next, run, failed, begun, ended, events, reports, handed, verdict>>
    BY DEF StartChain, historyVars
  <1>3. EndedOK' /\ StepsBegun' /\ EventsOK' /\ ReportsOK' /\ SettledOK'
    BY <1>1, <1>2, QuietKeeps DEF ToReport, Stopped
  <1>4. TypeOK'
    BY <1>1, <1>2 DEF IInv, TypeOK, Contexts
  <1>5. RunsOK' /\ VerdictOK' /\ HandedBackIsMeaningful'
    BY <1>1, <1>2 DEF IInv, RunsOK, VerdictOK, HandedBackIsMeaningful, Busy, Stopped
  <1> QED BY <1>3, <1>4, <1>5 DEF IInv

LEMMA WithContextKeeps ==
    ASSUME IInv, WithContext
    PROVE  IInv'
  <1>1. pc = "body" /\ pc' = "body" /\ mode' = mode /\ ctx' = "own"
    BY DEF WithContext
  <1>2. UNCHANGED <<ops, width, next, run, failed, begun, ended, events, reports, handed, verdict>>
    BY DEF WithContext, historyVars
  <1>3. EndedOK' /\ StepsBegun' /\ EventsOK' /\ ReportsOK' /\ SettledOK'
    BY <1>1, <1>2, QuietKeeps DEF ToReport, Stopped
  <1>4. TypeOK'
    BY <1>1, <1>2 DEF IInv, TypeOK, Contexts
  <1>5. RunsOK' /\ VerdictOK' /\ HandedBackIsMeaningful'
    BY <1>1, <1>2 DEF IInv, RunsOK, VerdictOK, HandedBackIsMeaningful, Busy, Stopped
  <1> QED BY <1>3, <1>4, <1>5 DEF IInv

LEMMA BodyReturnsKeeps ==
    ASSUME IInv, BodyReturns
    PROVE  IInv'
  <1>1. pc = "body" /\ pc' = "returned" /\ mode' = mode /\ ctx' = ctx
    BY DEF BodyReturns, chainVars
  <1>2. UNCHANGED <<ops, width, next, run, failed, begun, ended, events, reports, handed, verdict>>
    BY DEF BodyReturns, historyVars
  <1>3. EndedOK' /\ StepsBegun' /\ EventsOK' /\ ReportsOK' /\ SettledOK'
    BY <1>1, <1>2, QuietKeeps DEF ToReport, Stopped
  <1>4. TypeOK'
    BY <1>1, <1>2 DEF IInv, TypeOK
  <1>5. RunsOK' /\ VerdictOK' /\ HandedBackIsMeaningful'
    BY <1>1, <1>2 DEF IInv, RunsOK, VerdictOK, HandedBackIsMeaningful, Busy, Stopped
  <1> QED BY <1>3, <1>4, <1>5 DEF IInv

LEMMA CloseStageKeeps ==
    ASSUME IInv, CloseStage
    PROVE  IInv'
  <1>1. /\ pc \in {"returned", "unwound"} /\ pc' = "closed"
        /\ verdict' = IF failed THEN "failed" ELSE "passed"
    BY DEF CloseStage
  <1>2. UNCHANGED <<mode, ctx, ops, width, next, run, failed, begun, ended, events, reports, handed>>
    BY DEF CloseStage, chainVars
  <1>3. EndedOK' /\ StepsBegun' /\ EventsOK' /\ ReportsOK' /\ SettledOK'
    BY <1>1, <1>2, QuietKeeps DEF ToReport, Stopped
  <1>4. TypeOK'
    BY <1>1, <1>2 DEF IInv, TypeOK
  <1>5. RunsOK' /\ VerdictOK' /\ HandedBackIsMeaningful'
    BY <1>1, <1>2 DEF IInv, RunsOK, VerdictOK, HandedBackIsMeaningful, Busy, Stopped
  <1> QED BY <1>3, <1>4, <1>5 DEF IInv

LEMMA StepPassesKeeps ==
    ASSUME IInv, StepPasses
    PROVE  IInv'
  <1>1. pc = "step" /\ pc' = "handBack" /\ run[0].at = "done" /\ run[0].err = "nil"
    BY DEF StepPasses
  <1>2. UNCHANGED <<mode, ctx, ops, width, next, run, failed, begun, ended, events, reports, handed, verdict>>
    BY DEF StepPasses, chainVars, historyVars
  <1>3. \A e \in Failing : ~ToReport(e.id)
    BY <1>1, FailureShows DEF ToReport, InChain
  <1>4. EndedOK' /\ StepsBegun' /\ EventsOK' /\ ReportsOK' /\ SettledOK'
    BY <1>1, <1>2, <1>3, QuietKeeps DEF InChain, Stopped
  <1>5. TypeOK'
    BY <1>1, <1>2 DEF IInv, TypeOK
  <1>6. RunsOK' /\ VerdictOK' /\ HandedBackIsMeaningful'
    BY <1>1, <1>2 DEF IInv, RunsOK, VerdictOK, HandedBackIsMeaningful, Busy, Stopped
  <1> QED BY <1>4, <1>5, <1>6 DEF IInv

LEMMA HandBackKeeps ==
    ASSUME IInv, HandBack
    PROVE  IInv'
  <1>1. pc = "handBack" /\ pc' = "body" /\ run' = [run EXCEPT ![0] = IdleRun]
    BY DEF HandBack
  <1>2. UNCHANGED <<mode, ctx, ops, width, next, failed, begun, ended, events, reports, verdict>>
    BY DEF HandBack, chainVars
  <1>3. IdleRun \in RunState
    BY BoundsAssumption DEF IdleRun, RunState, Errs, Kinds, Contexts
  <1>4. run'[0] = IdleRun /\ \A q \in Runners : q # 0 => run'[q] = run[q]
    BY <1>1, RunnerFacts DEF IInv, TypeOK
  <1>5. EndedOK' /\ StepsBegun' /\ EventsOK' /\ ReportsOK' /\ SettledOK'
    BY <1>1, <1>2, <1>4, QuietKeeps DEF ToReport, Stopped
  <1> DEFINE h(e) == [kind |-> e.kind, mode |-> mode, how |-> e.how, value |-> run[0].value,
                      err |-> run[0].kind = "try" /\ e.how = "error"]
  <1>6. ASSUME NEW e \in ended, e.id = Id(0)
        PROVE  /\ h(e) \in [kind : Kinds, mode : Modes, how : Endings, value : BOOLEAN, err : BOOLEAN]
               /\ mode = "fast" =>
                    /\ e.how # "nil" => e.kind = "try" /\ e.how = "error" /\ h(e).err
                    /\ e.how = "nil" => run[0].value /\ ~h(e).err
    <2>1. e \in Ending /\ run[0] \in RunState
      BY RunnerFacts DEF IInv, TypeOK
    <2>2. e.id[1] = ops /\ e.id[2] = 0
      BY <1>6 DEF Id
    <2>3. Shows(e, run[0])
      BY <1>1, <2>2 DEF IInv, EndedOK, InChain
    <2>4. run[0].at = "done" /\ (mode = "fast" => run[0].err = "nil")
      BY <1>1 DEF IInv, RunsOK
    <2>5. h(e) \in [kind : Kinds, mode : Modes, how : Endings, value : BOOLEAN, err : BOOLEAN]
      BY <2>1 DEF Ending, RunState, IInv, TypeOK
    <2> QED BY <2>1, <2>3, <2>4, <2>5 DEF Shows, Ending, Endings, Errs
  <1>7. \A g \in handed' : g \in handed \/ \E e \in ended : e.id = Id(0) /\ g = h(e)
    BY DEF HandBack
  <1>8. TypeOK'
    <2>1. handed' \subseteq [kind : Kinds, mode : Modes, how : Endings, value : BOOLEAN, err : BOOLEAN]
      BY <1>6, <1>7 DEF IInv, TypeOK
    <2> QED BY <1>1, <1>2, <1>3, <2>1 DEF IInv, TypeOK
  <1>9. RunsOK' /\ VerdictOK'
    BY <1>1, <1>2, <1>4, RunnerFacts DEF IInv, RunsOK, VerdictOK, IdleRun, Busy, Stopped
  <1>10. HandedBackIsMeaningful'
    BY <1>2, <1>6, <1>7 DEF IInv, HandedBackIsMeaningful
  <1> QED BY <1>5, <1>8, <1>9, <1>10 DEF IInv

LEMMA AllReturnsKeeps ==
    ASSUME IInv, AllReturns
    PROVE  IInv'
  <1>1. /\ pc = "report" /\ pc' = "body" /\ next > width
        /\ run' = [r \in Runners |-> IdleRun] /\ width' = 0
    BY DEF AllReturns
  <1>2. UNCHANGED <<mode, ctx, ops, next, failed, begun, ended, events, reports, handed, verdict>>
    BY DEF AllReturns, chainVars, historyVars
  <1>3. \A e \in Failing : ~ToReport(e.id)
    <2> SUFFICES ASSUME NEW e \in Failing, ToReport(e.id) PROVE FALSE
      OBVIOUS
    <2>1. e.id[2] \in Runners /\ run[e.id[2]].at # "idle" /\ next <= e.id[2]
      BY <1>1, FailureShows DEF ToReport, InChain
    <2>2. e.id[2] \in Branches /\ ~ (e.id[2] > width)
      BY <1>1, <2>1, RunnerFacts DEF IInv, RunsOK
    <2> QED BY <1>1, <2>1, <2>2 DEF IInv, TypeOK, Branches
  <1>4. EndedOK' /\ StepsBegun' /\ EventsOK' /\ ReportsOK' /\ SettledOK'
    BY <1>1, <1>2, <1>3, QuietKeeps DEF Stopped
  <1>5. IdleRun \in RunState
    BY BoundsAssumption DEF IdleRun, RunState, Errs, Kinds, Contexts
  <1>6. TypeOK'
    BY <1>1, <1>2, <1>5 DEF IInv, TypeOK
  <1>7. RunsOK' /\ VerdictOK' /\ HandedBackIsMeaningful'
    BY <1>1, <1>2 DEF IInv, RunsOK, VerdictOK, HandedBackIsMeaningful, IdleRun, Busy, Stopped
  <1> QED BY <1>4, <1>6, <1>7 DEF IInv

-----------------------------------------------------------------------------
\* Add and All: every event, report and failure so far is of an operation before.
LEMMA BeginsKeeps ==
    ASSUME IInv, pc = "body", pc' \in {"step", "all"}, ops < MaxOps, ops' = ops + 1,
           NEW R, R \subseteq Runners, begun' = begun \cup {<<ops', r>> : r \in R},
           \A r \in Runners : run'[r].err = "nil" /\ run'[r].at # "done",
           UNCHANGED <<mode, failed, ended, events, reports>>
    PROVE  /\ ops' \in 0..MaxOps /\ begun' \subseteq Ids
           /\ EndedOK' /\ StepsBegun' /\ EventsOK' /\ ReportsOK' /\ SettledOK'
  <1>1. ops \in Nat /\ ops' \in 1..MaxOps /\ Failing' = Failing
    BY BoundsAssumption DEF IInv, TypeOK, Failing
  <1>2. begun' \subseteq Ids
    BY <1>1 DEF IInv, TypeOK, Ids
  <1>3. EndedOK'
    <2>1. \A b \in begun' : b[1] <= ops'
      BY <1>1 DEF IInv, TypeOK, EndedOK, Ids
    <2>2. \A e \in ended : e.id[1] <= ops' /\ e.id[1] # ops'
      <3> SUFFICES ASSUME NEW e \in ended PROVE e.id[1] <= ops' /\ e.id[1] # ops'
        OBVIOUS
      <3>1. e.id[1] \in Nat /\ e.id[1] <= ops
        BY DEF IInv, TypeOK, EndedOK, Ending, Ids
      <3> QED BY <1>1, <3>1
    <2> QED BY <1>1, <2>1, <2>2 DEF IInv, EndedOK
  <1>4. EventsOK'
    <2>1. \A i \in 1..Len(events) : events[i].id[1] <= ops' /\ events[i].id[1] # ops'
      <3> SUFFICES ASSUME NEW i \in 1..Len(events)
                   PROVE  events[i].id[1] <= ops' /\ events[i].id[1] # ops'
        OBVIOUS
      <3>1. events[i].id[1] <= ops
        BY DEF IInv, EventsOK
      <3>2. events[i] \in [id : Ids, err : Errs]
        <4>1. events \in Seq([id : Ids, err : Errs])
          BY DEF IInv, TypeOK
        <4> QED BY <4>1, ElementOfSeq
      <3>3. events[i].id[1] \in Nat
        BY <3>2 DEF Ids
      <3> QED BY <1>1, <3>1, <3>3
    <2> QED BY <2>1 DEF IInv, EventsOK, Id
  <1>5. ReportsOK'
    <2>1. \A i \in 1..Len(reports) : reports[i][1] <= ops' /\ reports[i][1] # ops'
      <3> SUFFICES ASSUME NEW i \in 1..Len(reports)
                   PROVE  reports[i][1] <= ops' /\ reports[i][1] # ops'
        OBVIOUS
      <3>1. reports[i][1] \in Nat /\ reports[i][1] <= ops
        BY DEF IInv, TypeOK, ReportsOK, Ids
      <3> QED BY <1>1, <3>1
    <2> QED BY <1>1, <2>1 DEF IInv, ReportsOK, ToReport
  <1>6. SettledOK'
    BY <1>1 DEF IInv, SettledOK, Settled, ToReport, Stopped
  <1>7. StepsBegun'
    BY <1>1 DEF StepsBegun
  <1> QED BY <1>1, <1>2, <1>3, <1>4, <1>5, <1>6, <1>7

LEMMA StartFacts ==
    ASSUME IInv, NEW k \in Kinds, NEW n \in 1..MaxBodies
    PROVE  /\ Start(k, n) \in RunState /\ IdleRun \in RunState
           /\ Start(k, n).at = "run" /\ Start(k, n).err = "nil" /\ Start(k, n).ctx = ctx
           /\ IdleRun.at = "idle" /\ IdleRun.err = "nil"
  <1>1. IdleRun \in RunState
    BY BoundsAssumption DEF IdleRun, RunState, Errs, Kinds, Contexts
  <1>2. n \in 0..MaxBodies /\ ctx \in Contexts
    BY BoundsAssumption DEF IInv, TypeOK
  <1> QED BY <1>1, <1>2 DEF Start, RunState, Errs, IdleRun

LEMMA AddKeeps ==
    ASSUME IInv, NEW k \in Kinds, NEW n \in 1..MaxBodies, Add(k, n)
    PROVE  IInv'
  <1>1. /\ pc = "body" /\ pc' = "step" /\ ops < MaxOps /\ ops' = ops + 1
        /\ run' = [run EXCEPT ![0] = Start(k, n)]
        /\ begun' = begun \cup {<<ops', r>> : r \in {0}}
        /\ UNCHANGED <<mode, ctx, width, next, failed, ended, events, reports, handed, verdict>>
    BY DEF Add, chainVars, historyVars
  <1>2. run'[0] = Start(k, n) /\ \A q \in Runners : q # 0 => run'[q] = run[q]
    BY <1>1, RunnerFacts DEF IInv, TypeOK
  <1>3. \A q \in Runners : q # 0 => run'[q].at = "idle" /\ run'[q].err = "nil"
    BY <1>1, <1>2 DEF IInv, RunsOK
  <1>4. \A q \in Runners : run'[q].err = "nil" /\ run'[q].at # "done"
    BY <1>2, <1>3, StartFacts
  <1>5. /\ ops' \in 0..MaxOps /\ begun' \subseteq Ids
        /\ EndedOK' /\ StepsBegun' /\ EventsOK' /\ ReportsOK' /\ SettledOK'
    BY <1>1, <1>4, RunnerFacts, BeginsKeeps
  <1>6. TypeOK'
    BY <1>1, <1>5, StartFacts DEF IInv, TypeOK
  <1>7. RunsOK'
    BY <1>1, <1>2, <1>3, StartFacts, RunnerFacts DEF IInv, RunsOK, Busy, Stopped
  <1>8. VerdictOK' /\ HandedBackIsMeaningful'
    BY <1>1 DEF IInv, VerdictOK, HandedBackIsMeaningful
  <1> QED BY <1>5, <1>6, <1>7, <1>8 DEF IInv

LEMMA AllKeeps ==
    ASSUME IInv, NEW w \in 0..MaxBranches, NEW bodies \in [1..w -> 1..MaxBodies], All(bodies)
    PROVE  IInv'
  <1>0. Len(bodies) = w
    <2>1. w \in Nat
      BY BoundsAssumption
    <2>2. bodies \in Seq(1..MaxBodies) /\ DOMAIN bodies = 1..w
      BY <2>1, SeqDef
    <2>3. Len(bodies) \in Nat /\ 1..Len(bodies) = 1..w
      BY <2>2, LenProperties
    <2> QED BY <2>1, <2>3
  <1>1. /\ pc = "body" /\ pc' = "all" /\ ops < MaxOps /\ ops' = ops + 1 /\ w >= 2
        /\ width' = w
        /\ run' = [r \in Runners |-> IF r \in 1..w THEN Start("step", bodies[r]) ELSE IdleRun]
        /\ begun' = begun \cup {<<ops', r>> : r \in 1..w}
        /\ UNCHANGED <<mode, ctx, next, failed, ended, events, reports, handed, verdict>>
    BY <1>0 DEF All, chainVars, historyVars
  <1>2. 1..w \subseteq Branches /\ 1..w \subseteq Runners /\ 0 \notin 1..w
        /\ \A r \in Branches : r \in 1..w <=> ~ (r > w)
    BY BoundsAssumption DEF Branches, Runners
  <1>3. \A r \in Runners : /\ r \in 1..w => /\ run'[r] \in RunState /\ run'[r].at = "run"
                                           /\ run'[r].err = "nil" /\ run'[r].ctx = ctx
                           /\ r \notin 1..w => run'[r] = IdleRun
    BY <1>1, StartFacts DEF Kinds
  <1>4. IdleRun \in RunState /\ IdleRun.at = "idle" /\ IdleRun.err = "nil"
    BY BoundsAssumption DEF IdleRun, RunState, Errs, Kinds, Contexts
  <1>5. /\ ops' \in 0..MaxOps /\ begun' \subseteq Ids
        /\ EndedOK' /\ StepsBegun' /\ EventsOK' /\ ReportsOK' /\ SettledOK'
    BY <1>1, <1>2, <1>3, <1>4, BeginsKeeps
  <1>6. run' \in [Runners -> RunState]
    BY <1>1, <1>3, <1>4
  <1>7. TypeOK'
    <2>1. width' \in {0} \cup 2..MaxBranches
      BY <1>1, BoundsAssumption
    <2> QED BY <1>1, <1>5, <1>6, <2>1 DEF IInv, TypeOK
  <1>8. RunsOK'
    <2>1. run'[0].at = "idle" /\ \A r \in Branches : run'[r].at = "idle" <=> r > width'
      BY <1>1, <1>2, <1>3, <1>4, RunnerFacts
    <2>2. \A r \in Runners : /\ run'[r].err = "nil"
                             /\ run'[r].at \in Busy => run'[r].ctx = ctx'
      BY <1>1, <1>3, <1>4 DEF Busy
    <2> QED BY <1>1, <2>1, <2>2 DEF RunsOK, Stopped
  <1>9. VerdictOK' /\ HandedBackIsMeaningful'
    BY <1>1 DEF IInv, VerdictOK, HandedBackIsMeaningful
  <1> QED BY <1>5, <1>7, <1>8, <1>9 DEF IInv

LEMMA AllWaitsKeeps ==
    ASSUME IInv, AllWaits
    PROVE  IInv'
  <1>1. /\ pc = "all" /\ pc' = "report" /\ next' = 1
        /\ \A r \in 1..width : run[r].at \in {"done", "gone"}
        /\ UNCHANGED <<mode, ctx, ops, width, run, failed, begun, ended, events, reports, handed, verdict>>
    BY DEF AllWaits, chainVars, historyVars
  <1>2. \A r \in Branches : run[r].at \notin Busy
    BY <1>1 DEF IInv, TypeOK, RunsOK, Branches, Busy
  <1>3. Failing' = Failing /\ \A q : Id(q)' = Id(q)
    BY <1>1 DEF Failing, Id
  <1>4. TypeOK'
    BY <1>1, BoundsAssumption DEF IInv, TypeOK
  <1>5. RunsOK'
    BY <1>1, <1>2 DEF IInv, RunsOK, Stopped
  <1>6. EndedOK' /\ EventsOK' /\ StepsBegun'
    BY <1>1, <1>3 DEF IInv, EndedOK, EventsOK, StepsBegun, InChain
  <1>7. ReportsOK'
    BY <1>1, <1>3 DEF IInv, ReportsOK, ToReport
  <1>8. SettledOK'
    <2> SUFFICES ASSUME NEW e \in Failing PROVE ToReport(e.id)' \/ Settled(e)'
      BY <1>3 DEF SettledOK
    <2>1. CASE e.id[1] = ops
      <3>1. e.id[2] \in Runners /\ e.id[2] # 0
        BY <1>1, <2>1, FailureShows DEF IInv, RunsOK, InChain
      <3> QED BY <1>1, <2>1, <3>1 DEF ToReport, Runners
    <2>2. CASE e.id[1] # ops
      BY <1>1, <2>2 DEF IInv, SettledOK, Settled, ToReport, Stopped
    <2> QED BY <2>1, <2>2
  <1>9. VerdictOK' /\ HandedBackIsMeaningful'
    BY <1>1 DEF IInv, VerdictOK, HandedBackIsMeaningful
  <1> QED BY <1>4, <1>5, <1>6, <1>7, <1>8, <1>9 DEF IInv

-----------------------------------------------------------------------------
\* fail, called for a step of the chain or for a branch of All.
LEMMA ReportedKeeps ==
    ASSUME IInv, NEW r \in Runners, pc \in {"step", "report"}, ToReport(Id(r)),
           run[r].at = "done", run[r].err # "nil",
           failed' = TRUE, reports' = Append(reports, Id(r)),
           UNCHANGED <<mode, ctx, ops, width, run, begun, ended, events, handed, verdict>>,
           pc' \in {"handBack", "unwound", "report"},
           mode = "fast" <=> pc' = "unwound",
           pc' = "handBack" <=> pc = "step" /\ mode = "soft",
           pc' = "report" => next' = r + 1 /\ next = r
    PROVE  reports' \in Seq(Ids) /\ EndedOK' /\ StepsBegun' /\ EventsOK' /\ ReportsOK' /\ SettledOK'
  <1> DEFINE n == Len(reports)
  <1>1. Failing' = Failing /\ \A q : Id(q)' = Id(q)
    BY DEF Failing, Id
  <1>2. pc \in InChain /\ ops >= 1 /\ Id(r) \in Ids /\ (pc' = "report" => pc = "report")
    BY DEF IInv, TypeOK, StepsBegun, InChain, Ids, Id, Modes
  <1>3. /\ reports' \in Seq(Ids)
        /\ n \in Nat /\ Len(reports') = n + 1
        /\ reports'[n + 1] = Id(r)
        /\ \A i \in 1..n : reports'[i] = reports[i]
    BY <1>2, EventFacts DEF IInv, TypeOK
  <1>4. \A i \in 1..Len(reports') : i \in 1..n \/ i = n + 1
    BY <1>3
  <1>5. EndedOK' /\ EventsOK'
    BY <1>1, <1>2 DEF IInv, EndedOK, EventsOK, InChain
  <1>6. StepsBegun'
    BY <1>2 DEF StepsBegun
  <1>7. ASSUME NEW id \in Ids, pc' = "report", id[1] = ops, next' <= id[2]
        PROVE  ToReport(id) /\ id # Id(r)
    <2>1. pc = "report" /\ next' = r + 1 /\ next = r
      BY <1>2, <1>7
    <2>2. r \in Nat /\ id[2] \in Nat
      BY BoundsAssumption DEF Runners, Ids
    <2> QED BY <1>7, <2>1, <2>2 DEF ToReport, Id
  <1>8. ReportsOK'
    <2>1. \A i \in 1..n : reports[i] # Id(r) /\ reports[i] \in Ids
      BY DEF IInv, TypeOK, ReportsOK
    <2>2. \A i, j \in 1..Len(reports') : reports'[i] = reports'[j] => i = j
      BY <1>3, <1>4, <2>1 DEF IInv, ReportsOK
    <2>3. \E j \in 1..Len(events) : events[j].id = Id(r)
      BY DEF IInv, EventsOK
    <2>4. \E e \in Failing : e.id = Id(r)
      BY DEF IInv, EndedOK
    <2>5. Id(r)[1] <= ops
      BY <1>2 DEF Id, IInv, TypeOK
    <2>6. ASSUME NEW i \in 1..Len(reports')
          PROVE  /\ reports'[i] \in Ids
                 /\ reports'[i][1] <= ops
                 /\ reports'[i] # Id(r) => ~ToReport(reports'[i])
                 /\ \E j \in 1..Len(events) : events[j].id = reports'[i]
                 /\ \E e \in Failing : e.id = reports'[i]
      <3>1. CASE i = n + 1
        BY <1>2, <1>3, <2>3, <2>4, <2>5, <3>1
      <3>2. CASE i \in 1..n
        <4>1. reports'[i] = reports[i]
          BY <1>3, <3>2
        <4>2. /\ reports[i][1] <= ops /\ ~ToReport(reports[i])
              /\ \E j \in 1..Len(events) : events[j].id = reports[i]
              /\ \E e \in Failing : e.id = reports[i]
          BY <3>2 DEF IInv, ReportsOK
        <4> QED BY <2>1, <3>2, <4>1, <4>2
      <3> QED BY <1>4, <3>1, <3>2
    <2>7. ASSUME NEW i \in 1..Len(reports')
          PROVE  ~ToReport(reports[i])'
      <3>1. ~ (pc' = "report" /\ reports'[i][1] = ops /\ next' <= reports'[i][2])
        BY <1>7, <2>6
      <3> QED BY <3>1 DEF ToReport
    <2>8. \A i \in 1..Len(reports') : /\ reports'[i][1] <= ops'
                                     /\ pc' \notin {"step", "all"}
                                     /\ \E j \in 1..Len(events') : events'[j].id = reports'[i]
                                     /\ \E e \in Failing' : e.id = reports'[i]
      BY <1>1, <2>6
    <2> QED BY <2>2, <2>7, <2>8 DEF ReportsOK
  <1>9. SettledOK'
    <2> SUFFICES ASSUME NEW e \in Failing PROVE ToReport(e.id)' \/ Settled(e)'
      BY <1>1 DEF SettledOK
    <2>1. CASE Settled(e)
      <3>1. e.mode # "fast"
        BY <2>1 DEF Settled, Stopped
      <3>2. e.mode = "soft" => \E i \in 1..Len(reports') : reports'[i] = e.id
        <4> SUFFICES ASSUME e.mode = "soft" PROVE \E i \in 1..Len(reports') : reports'[i] = e.id
          OBVIOUS
        <4>1. PICK i \in 1..n : reports[i] = e.id
          BY <2>1 DEF Settled
        <4> QED BY <1>3, <4>1
      <3> QED BY <3>1, <3>2 DEF Settled
    <2>2. CASE ToReport(e.id)
      <3>1. e.id[1] = ops /\ e.id[2] \in Runners /\ e.id = Id(e.id[2]) /\ e.mode = mode
        BY <1>2, <2>2, FailureShows DEF ToReport
      <3>2. CASE mode = "fast"
        BY <3>1, <3>2 DEF Settled, Stopped
      <3>3. CASE mode = "soft" /\ e.id[2] = r
        BY <1>3, <3>1, <3>3 DEF Settled
      <3>4. CASE mode = "soft" /\ e.id[2] # r
        <4>1. pc = "report" /\ pc' = "report"
          BY <2>2, <3>4 DEF ToReport, Id
        <4>2. next <= e.id[2] /\ next = r /\ next' = r + 1 /\ r \in Nat /\ e.id[2] \in Nat
          BY <2>2, <3>1, <4>1, BoundsAssumption DEF ToReport, Runners
        <4>3. next' <= e.id[2]
          BY <3>4, <4>2
        <4> QED BY <3>1, <4>1, <4>3 DEF ToReport
      <3> QED BY <3>2, <3>3, <3>4 DEF IInv, TypeOK, Modes
    <2> QED BY <2>1, <2>2 DEF IInv, SettledOK
  <1> QED BY <1>3, <1>5, <1>6, <1>8, <1>9

LEMMA StepFailsKeeps ==
    ASSUME IInv, StepFails
    PROVE  IInv'
  <1>1. /\ pc = "step" /\ run[0].at = "done" /\ run[0].err # "nil"
        /\ failed' = TRUE /\ reports' = Append(reports, Id(0))
        /\ pc' = IF mode = "soft" THEN "handBack" ELSE "unwound"
        /\ UNCHANGED <<mode, ctx, ops, width, next, run, begun, ended, events, handed, verdict>>
    BY DEF StepFails, chainVars, historyVars
  <1>2. mode \in {"fast", "soft"} /\ ToReport(Id(0))
    BY <1>1 DEF IInv, TypeOK, Modes, ToReport, Id
  <1>3. /\ reports' \in Seq(Ids)
        /\ EndedOK' /\ StepsBegun' /\ EventsOK' /\ ReportsOK' /\ SettledOK'
    BY <1>1, <1>2, RunnerFacts, ReportedKeeps
  <1>4. TypeOK'
    BY <1>1, <1>3 DEF IInv, TypeOK
  <1>5. RunsOK'
    BY <1>1, <1>2, RunnerFacts DEF IInv, RunsOK, Busy, Stopped
  <1>6. VerdictOK' /\ HandedBackIsMeaningful'
    BY <1>1 DEF IInv, VerdictOK, HandedBackIsMeaningful
  <1> QED BY <1>3, <1>4, <1>5, <1>6 DEF IInv

LEMMA AllReportsKeeps ==
    ASSUME IInv, AllReports
    PROVE  IInv'
  <1>1. /\ pc = "report" /\ next <= width
        /\ UNCHANGED <<mode, ctx, ops, width, run, begun, ended, events, handed, verdict>>
    BY DEF AllReports, chainVars, historyVars
  <1>2. /\ next \in Branches /\ next \in Runners /\ next + 1 \in 0..(MaxBranches + 1)
        /\ run[next].at \in {"done", "gone"} /\ mode \in {"fast", "soft"}
    <2>1. next \in Branches /\ next \in Runners /\ next + 1 \in 0..(MaxBranches + 1)
      BY <1>1, BoundsAssumption DEF IInv, TypeOK, RunsOK, Branches, Runners
    <2>2. run[next].at # "idle" /\ run[next].at \notin Busy /\ run[next] \in RunState
      BY <1>1, <2>1 DEF IInv, TypeOK, RunsOK, Branches
    <2> QED BY <2>1, <2>2 DEF IInv, TypeOK, Modes, RunState, Busy
  <1>3. CASE run[next].err = "nil"
    <2>1. next' = next + 1 /\ UNCHANGED <<pc, failed, reports>>
      BY <1>3 DEF AllReports
    <2>2. TypeOK'
      BY <1>1, <1>2, <2>1 DEF IInv, TypeOK
    <2>3. RunsOK'
      BY <1>1, <1>2, <2>1 DEF IInv, TypeOK, RunsOK
    <2>4. Failing' = Failing /\ \A q : Id(q)' = Id(q)
      BY <1>1 DEF Failing, Id
    <2>5. EndedOK' /\ EventsOK' /\ StepsBegun' /\ VerdictOK' /\ HandedBackIsMeaningful'
      BY <1>1, <2>1, <2>4 DEF IInv, EndedOK, EventsOK, StepsBegun, VerdictOK, HandedBackIsMeaningful
    <2>6. ReportsOK'
      <3>1. ASSUME NEW i \in 1..Len(reports) PROVE ~ToReport(reports[i])'
        <4>1. ~ToReport(reports[i]) /\ reports[i] \in Ids
          BY DEF IInv, TypeOK, ReportsOK
        <4>2. reports[i][2] \in Nat /\ next \in Nat
          BY <1>2, <4>1 DEF Ids, Runners
        <4> QED BY <1>1, <2>1, <4>1, <4>2 DEF ToReport
      <3> QED BY <1>1, <2>1, <2>4, <3>1 DEF IInv, ReportsOK
    <2>7. SettledOK'
      <3> SUFFICES ASSUME NEW e \in Failing PROVE ToReport(e.id)' \/ Settled(e)'
        BY <2>4 DEF SettledOK
      <3>1. CASE ToReport(e.id)
        <4>1. e.id[2] \in Runners /\ run[e.id[2]].err # "nil" /\ e.id[1] = ops /\ next <= e.id[2]
          BY <1>1, <3>1, FailureShows DEF ToReport, InChain
        <4>2. next' <= e.id[2]
          BY <1>2, <1>3, <2>1, <4>1 DEF Runners
        <4> QED BY <1>1, <2>1, <4>1, <4>2 DEF ToReport
      <3>2. CASE Settled(e)
        BY <1>1, <2>1, <3>2 DEF Settled
      <3> QED BY <3>1, <3>2 DEF IInv, SettledOK
    <2> QED BY <2>2, <2>3, <2>5, <2>6, <2>7 DEF IInv
  <1>4. CASE run[next].err # "nil"
    <2>1. /\ failed' = TRUE /\ reports' = Append(reports, Id(next))
          /\ mode = "fast" => pc' = "unwound" /\ next' = next
          /\ mode = "soft" => pc' = "report" /\ next' = next + 1
      BY <1>1, <1>4 DEF AllReports
    <2>2. run[next].at = "done" /\ ToReport(Id(next))
      BY <1>1, <1>2, <1>4 DEF IInv, RunsOK, ToReport, Id, Runners
    <2>3. /\ reports' \in Seq(Ids)
          /\ EndedOK' /\ StepsBegun' /\ EventsOK' /\ ReportsOK' /\ SettledOK'
      BY <1>1, <1>2, <1>4, <2>1, <2>2, ReportedKeeps
    <2>4. TypeOK'
      BY <1>1, <1>2, <2>1, <2>3 DEF IInv, TypeOK
    <2>5. RunsOK'
      BY <1>1, <1>2, <2>1, RunnerFacts DEF IInv, TypeOK, RunsOK, Busy, Stopped
    <2>6. VerdictOK' /\ HandedBackIsMeaningful'
      BY <1>1 DEF IInv, VerdictOK, HandedBackIsMeaningful
    <2> QED BY <2>3, <2>4, <2>5, <2>6 DEF IInv
  <1> QED BY <1>3, <1>4

-----------------------------------------------------------------------------
LEMMA RunningKeeps ==
    ASSUME IInv, NEW r \in Runners, Running(r)
    PROVE  IInv'
  <1>1. run[r] \in RunState /\ failed \in BOOLEAN
    BY DEF IInv, TypeOK
  <1>2. run[r].at = "run" => run[r].err = "nil"
    BY DEF IInv, RunsOK
  <1>3. ASSUME NEW soft \in BOOLEAN, Passes(r, soft), ~ (run[r].left > 1)
        PROVE  IInv'
    <2> DEFINE x == [run[r] EXCEPT !.at = "emit", !.value = TRUE]
    <2>1. /\ run[r].at = "run" /\ run' = [run EXCEPT ![r] = x] /\ Ends(r, "nil")
          /\ failed' = (failed \/ soft)
          /\ UNCHANGED <<pc, chainVars, ops, width, next, begun, events, reports, historyVars>>
      BY <1>3 DEF Passes
    <2>2. /\ x \in RunState /\ x.at = "emit" /\ x.kind = run[r].kind /\ x.ctx = run[r].ctx
          /\ x.value /\ x.err = "nil"
      BY <1>1, <1>2, <2>1 DEF RunState
    <2>3. failed' \in BOOLEAN /\ (failed => failed')
      BY <1>1, <2>1
    <2>4. "nil" \in Errs
      BY DEF Errs
    <2> HIDE DEF x
    <2> QED BY <2>1, <2>2, <2>3, <2>4, EndsKeeps
  <1>4. ASSUME NEW value \in BOOLEAN, Fails(r, value)
        PROVE  IInv'
    <2> DEFINE x == [run[r] EXCEPT !.at = "emit", !.err = "error",
                                   !.value = value /\ run[r].kind = "get"]
    <2>1. /\ run[r].at = "run" /\ run' = [run EXCEPT ![r] = x] /\ Ends(r, "error")
          /\ run[r].kind # "try"
          /\ UNCHANGED <<pc, chainVars, ops, width, next, failed, begun, events, reports, historyVars>>
      BY <1>4 DEF Fails
    <2>2. /\ x \in RunState /\ x.at = "emit" /\ x.kind = run[r].kind /\ x.ctx = run[r].ctx
          /\ x.err = "error"
      BY <1>1 DEF RunState, Errs
    <2>3. "error" \in Errs
      BY DEF Errs
    <2> HIDE DEF x
    <2> QED BY <1>1, <2>1, <2>2, <2>3, EndsKeeps
  <1>5. ASSUME NEW value \in BOOLEAN, Refuses(r, value)
        PROVE  IInv'
    <2> DEFINE x == [run[r] EXCEPT !.at = "emit", !.value = value]
    <2>1. /\ run[r].at = "run" /\ run' = [run EXCEPT ![r] = x] /\ Ends(r, "error")
          /\ run[r].kind = "try"
          /\ UNCHANGED <<pc, chainVars, ops, width, next, failed, begun, events, reports, historyVars>>
      BY <1>5 DEF Refuses
    <2>2. /\ x \in RunState /\ x.at = "emit" /\ x.kind = run[r].kind /\ x.ctx = run[r].ctx
          /\ x.err = "nil"
      BY <1>1, <1>2, <2>1 DEF RunState, Errs
    <2>3. "error" \in Errs
      BY DEF Errs
    <2> HIDE DEF x
    <2> QED BY <1>1, <2>1, <2>2, <2>3, EndsKeeps
  <1>6. ASSUME Panics(r)
        PROVE  IInv'
    <2> DEFINE x == [run[r] EXCEPT !.at = "emit", !.err = "panic"]
    <2>1. /\ run[r].at = "run" /\ run' = [run EXCEPT ![r] = x] /\ Ends(r, "panic")
          /\ UNCHANGED <<pc, chainVars, ops, width, next, failed, begun, events, reports, historyVars>>
      BY <1>6 DEF Panics
    <2>2. /\ x \in RunState /\ x.at = "emit" /\ x.kind = run[r].kind /\ x.ctx = run[r].ctx
          /\ x.err = "panic"
      BY <1>1 DEF RunState, Errs
    <2>3. "panic" \in Errs
      BY DEF Errs
    <2> HIDE DEF x
    <2> QED BY <1>1, <2>1, <2>2, <2>3, EndsKeeps
  <1> QED BY <1>3, <1>4, <1>5, <1>6, PassesOneKeeps, GoexitsKeeps, ObserveKeeps DEF Running

LEMMA NextKeeps == IInv /\ [Next]_vars => IInv'
  <1> SUFFICES ASSUME IInv, [Next]_vars PROVE IInv'
    OBVIOUS
  <1>1. CASE TestBody
    BY <1>1, StartChainKeeps, WithContextKeeps, AddKeeps, AllKeeps, BodyReturnsKeeps DEF TestBody
  <1>2. ASSUME NEW r \in Runners, Running(r)
        PROVE  IInv'
    BY <1>2, RunningKeeps
  <1>3. CASE Chains
    BY <1>3, StepPassesKeeps, StepFailsKeeps, HandBackKeeps, AllWaitsKeeps, AllReportsKeeps,
       AllReturnsKeeps DEF Chains
  <1>4. CASE CloseStage
    BY <1>4, CloseStageKeeps
  <1>5. CASE UNCHANGED vars
    <2>1. UNCHANGED <<pc, mode, ctx, ops, width, next, run, failed, begun, ended, events, reports,
                      handed, verdict>>
      BY <1>5 DEF vars
    <2>2. Failing' = Failing /\ \A q : Id(q)' = Id(q)
      BY <2>1 DEF Failing, Id
    <2>3. TypeOK' /\ RunsOK' /\ StepsBegun' /\ VerdictOK' /\ HandedBackIsMeaningful'
      BY <2>1 DEF IInv, TypeOK, RunsOK, StepsBegun, VerdictOK, HandedBackIsMeaningful
    <2>4. EndedOK' /\ EventsOK'
      BY <2>1, <2>2 DEF IInv, EndedOK, EventsOK
    <2>5. ReportsOK' /\ SettledOK'
      BY <2>1, <2>2 DEF IInv, ReportsOK, SettledOK, Settled, ToReport
    <2> QED BY <2>3, <2>4, <2>5 DEF IInv
  <1> QED BY <1>1, <1>2, <1>3, <1>4, <1>5 DEF Next, Over

\* What holds of every test, of which the theorems below are the parts a reader
\* asks for: every failure is on its way to the test or has reached it
\* (chain.go:85-153, executor.go:34-48).
THEOREM Invariance == Spec => []IInv
  BY InitIInv, NextKeeps, PTL DEF Spec

\* Chains, runners and histories stay in their types.
THEOREM Typing == Spec => []TypeOK
  <1>1. IInv => TypeOK
    BY DEF IInv
  <1> QED BY <1>1, Invariance, PTL

\* No branch of an All outlives it, however its siblings end, and no step runs
\* with a context the chain no longer has (chain.go:108-153, 155).
THEOREM AllJoinsHolds == Spec => []AllJoins
  <1>1. IInv => AllJoins
    BY RunnerFacts DEF IInv, TypeOK, RunsOK, AllJoins, Busy, Stopped
  <1> QED BY <1>1, Invariance, PTL

\* After a failure on a chain that fails fast nothing begins (chain.go:14-16).
THEOREM FailFastStopsHolds == Spec => []FailFastStops
  <1>1. IInv => FailFastStops
    BY DEF IInv, EndedOK, SettledOK, Settled, ToReport, FailFastStops
  <1> QED BY <1>1, Invariance, PTL

\* A soft failure the test has got past was reported exactly once (chain.go:19-21).
THEOREM FailSoftReportsAllHolds == Spec => []FailSoftReportsAll
  <1>1. ASSUME IInv, NEW e \in Failing, e.mode = "soft", pc = "closed" \/ e.id[1] < ops
        PROVE  Times(e.id, reports) = 1
    <2>1. ~ToReport(e.id)
      <3>1. e.id[1] \in Nat /\ ops \in Nat
        BY <1>1, BoundsAssumption DEF IInv, TypeOK, Failing, Ending, Ids
      <3> QED BY <1>1, <3>1 DEF ToReport
    <2>2. PICK i \in 1..Len(reports) : reports[i] = e.id
      BY <1>1, <2>1 DEF IInv, SettledOK, Settled
    <2>3. DOMAIN reports = 1..Len(reports)
      BY <1>1 DEF IInv, TypeOK
    <2>4. {j \in DOMAIN reports : reports[j] = e.id} = {i}
      BY <1>1, <2>2, <2>3 DEF IInv, ReportsOK
    <2> QED BY <2>4, FS_Singleton DEF Times
  <1>2. IInv => FailSoftReportsAll
    BY <1>1 DEF FailSoftReportsAll
  <1> QED BY <1>2, Invariance, PTL

\* The observers hear of a step once, and before the test does, so the step that
\* kills the chain is in the report (chain.go:162-187).
THEOREM ObservedBeforeReportedHolds == Spec => []ObservedBeforeReported
  <1>1. ASSUME IInv
        PROVE  ObservedBeforeReported
    <2>1. DOMAIN reports = 1..Len(reports) /\ DOMAIN events = 1..Len(events)
      BY <1>1 DEF IInv, TypeOK
    <2>2. \A i \in DOMAIN reports : EventsOf(reports[i]) # {}
      BY <1>1, <2>1 DEF IInv, ReportsOK, EventsOf
    <2>3. \A i, j \in DOMAIN events : events[i].id = events[j].id => i = j
      BY <1>1, <2>1 DEF IInv, EventsOK
    <2> QED BY <2>2, <2>3 DEF ObservedBeforeReported
  <1> QED BY <1>1, Invariance, PTL

\* A test with a failed step, or one that ended its goroutine, closes its stage as
\* failed, and nothing is reported that did not fail (stage.go:241-244).
THEOREM VerdictTellsFailureHolds == Spec => []VerdictTellsFailure
  <1>1. ASSUME IInv, verdict # "none"
        PROVE  /\ Failing # {} \/ (\E e \in ended : e.how = "goexit") => verdict = "failed"
               /\ \A i \in DOMAIN reports : \E e \in Failing : e.id = reports[i]
    <2>1. pc = "closed" /\ (failed => verdict = "failed")
      BY <1>1 DEF IInv, VerdictOK
    <2>2. \A e \in Failing : failed
      BY <1>1, <2>1 DEF IInv, SettledOK, Settled, ToReport
    <2>3. \A e \in ended : e.how = "goexit" => failed
      BY <1>1 DEF IInv, EndedOK
    <2>4. DOMAIN reports = 1..Len(reports)
      BY <1>1 DEF IInv, TypeOK
    <2> QED BY <1>1, <2>1, <2>2, <2>3, <2>4 DEF IInv, ReportsOK
  <1>2. IInv => VerdictTellsFailure
    BY <1>1 DEF VerdictTellsFailure
  <1> QED BY <1>2, Invariance, PTL

\* On a chain that fails fast, Get, Try and Attempt hand back what their step came
\* to and nothing else (do.go:71-72, 111-112).
THEOREM HandedBackIsMeaningfulHolds == Spec => []HandedBackIsMeaningful
  <1>1. IInv => HandedBackIsMeaningful
    BY DEF IInv
  <1> QED BY <1>1, Invariance, PTL

-----------------------------------------------------------------------------
(* The frames a panic is told with, for stacks and buffers of any size.     *)

\* The least of a set of numbers, which is what the searches for a frame return.
LEMMA FirstIs ==
    ASSUME NEW I \in SUBSET Nat, NEW n \in I, \A m \in I : n <= m
    PROVE  Min(I) = n
  <1>1. Min(I) \in I /\ \A m \in I : Min(I) <= m
    BY Zenon DEF Min
  <1>2. PICK m : m = Min(I)
    OBVIOUS
  <1>3. m \in I /\ m <= n /\ n <= m
    BY <1>1, <1>2
  <1>4. m = n
    BY <1>3
  <1> QED BY <1>2, <1>4

LEMMA Joins ==
    ASSUME NEW T, NEW a \in Seq(T), NEW b \in Seq(T), NEW c, c = a \o b
    PROVE  /\ c \in Seq(T) /\ Len(c) = Len(a) + Len(b)
           /\ \A i \in 1..Len(c) : c[i] = IF i <= Len(a) THEN a[i] ELSE b[i - Len(a)]
  BY ConcatProperties

LEMMA JoinsOne ==
    ASSUME NEW T, NEW a \in Seq(T), NEW x \in T, NEW c, c = a \o <<x>>
    PROVE  /\ c \in Seq(T) /\ Len(c) = Len(a) + 1
           /\ \A i \in 1..Len(c) : c[i] = IF i <= Len(a) THEN a[i] ELSE x
  <1>1. <<x>> \in Seq(T) /\ Len(<<x>>) = 1 /\ <<x>>[1] = x
    OBVIOUS
  <1>2. Len(a) \in Nat
    OBVIOUS
  <1>3. /\ c \in Seq(T) /\ Len(c) = Len(a) + 1
        /\ \A i \in 1..Len(c) : c[i] = IF i <= Len(a) THEN a[i] ELSE <<x>>[i - Len(a)]
    BY <1>1, Joins
  <1>4. ASSUME NEW i \in 1..Len(c), ~ (i <= Len(a)) PROVE i - Len(a) = 1
    BY <1>2, <1>3, <1>4
  <1> QED BY <1>1, <1>3, <1>4

LEMMA LeastExists ==
    ASSUME NEW I \in SUBSET Nat, I # {}
    PROVE  \E n \in I : \A m \in I : n <= m
  <1>1. PICK n \in I : \A m \in I : ~ (<<m, n>> \in OpToRel(<, Nat))
    BY NatLessThanWellFounded, WFMin
  <1>2. \A m \in I : ~ (m < n)
    BY <1>1 DEF OpToRel
  <1> QED BY <1>2

\* The parts a panic's stack is put together from: only the unwinding goes on
\* until the runtime's entry, the step's own frames begin with one of its own,
\* and until the executor's frame there is none of that name.
Parts(p) ==
    /\ \E S : /\ p.unwinding \in Seq(S) /\ p.raising \in Seq(S)
              /\ p.own \in Seq(S) /\ p.below \in Seq(S)
    /\ \A i \in 1..Len(p.unwinding) : p.unwinding[i] # "gopanic"
    /\ \A i \in 1..Len(p.raising) : p.raising[i] \in RuntimeFrames
    /\ p.own # <<>> /\ p.own[1] \notin RuntimeFrames
    /\ \A i \in 1..Len(p.own) : p.own[i] # "run"

\* Where they lie.
EntryAt(p) == Len(p.unwinding) + 1
FirstAt(p) == EntryAt(p) + Len(p.raising) + 1
RunAt(p)   == EntryAt(p) + Len(p.raising) + Len(p.own) + 1

LEMMA StackFacts ==
    ASSUME NEW p, Parts(p), NEW q, q = PanickedStack(p)
    PROVE  /\ \E S : q \in Seq(S) /\ p.own \in Seq(S)
           /\ EntryAt(p) \in Nat \ {0} /\ FirstAt(p) \in Nat /\ RunAt(p) \in Nat
           /\ EntryAt(p) < FirstAt(p) /\ FirstAt(p) < RunAt(p)
           /\ RunAt(p) = Len(q) - Len(p.below) /\ Len(q) \in Nat /\ RunAt(p) <= Len(q)
           /\ \A i \in 1..(EntryAt(p) - 1) : q[i] # "gopanic"
           /\ q[EntryAt(p)] = "gopanic"
           /\ \A i \in (EntryAt(p) + 1)..(FirstAt(p) - 1) : q[i] \in RuntimeFrames
           /\ q[FirstAt(p)] \notin RuntimeFrames
           /\ \A i \in (EntryAt(p) + 1)..(RunAt(p) - 1) : q[i] # "run"
           /\ q[RunAt(p)] = "run"
           /\ Len(p.own) = RunAt(p) - FirstAt(p)
           /\ \A i \in 1..Len(p.own) : q[FirstAt(p) + i - 1] = p.own[i]
  <1> DEFINE u == p.unwinding
             r == p.raising
             o == p.own
             b == p.below
  <1>1. PICK S : u \in Seq(S) /\ r \in Seq(S) /\ o \in Seq(S) /\ b \in Seq(S)
    BY DEF Parts
  <1> DEFINE T == S \cup {"gopanic", "run"}
  <1>2. u \in Seq(T) /\ r \in Seq(T) /\ o \in Seq(T) /\ b \in Seq(T)
    BY <1>1
  <1>3. <<"gopanic">> \in Seq(T) /\ <<"run">> \in Seq(T)
    OBVIOUS
  <1>4. q = u \o <<"gopanic">> \o r \o o \o <<"run">> \o b
    BY DEF PanickedStack
  <1>5. /\ Len(o) # 0 /\ o[1] \notin RuntimeFrames
        /\ \A i \in 1..Len(u) : u[i] # "gopanic"
        /\ \A i \in 1..Len(r) : r[i] \in RuntimeFrames
        /\ \A i \in 1..Len(o) : o[i] # "run"
    BY <1>2, EmptySeq DEF Parts
  <1>6. Len(u) \in Nat /\ Len(r) \in Nat /\ Len(o) \in Nat /\ Len(b) \in Nat
    BY <1>2, LenProperties
  <1>7. EntryAt(p) = Len(u) + 1 /\ FirstAt(p) = Len(u) + Len(r) + 2 /\ RunAt(p) = Len(u) + Len(r) + Len(o) + 2
    <2>1. EntryAt(p) = Len(u) + 1
      BY DEF EntryAt
    <2>2. FirstAt(p) = EntryAt(p) + Len(r) + 1 /\ RunAt(p) = EntryAt(p) + Len(r) + Len(o) + 1
      BY DEF FirstAt, RunAt
    <2> HIDE DEF u, r, o
    <2> QED BY <1>6, <2>1, <2>2
  <1> HIDE DEF u, r, o, b, T
  <1>8. /\ q \in Seq(T)
        /\ Len(q) = Len(u) + Len(r) + Len(o) + Len(b) + 2
        /\ \A i \in 1..Len(q) :
              q[i] = IF i <= Len(u) THEN u[i]
                     ELSE IF i = Len(u) + 1 THEN "gopanic"
                     ELSE IF i <= Len(u) + 1 + Len(r) THEN r[i - Len(u) - 1]
                     ELSE IF i <= Len(u) + 1 + Len(r) + Len(o) THEN o[i - Len(u) - 1 - Len(r)]
                     ELSE IF i = Len(u) + Len(r) + Len(o) + 2 THEN "run"
                     ELSE b[i - Len(u) - Len(r) - Len(o) - 2]
    <2>1. PICK q1 : q1 = u \o <<"gopanic">>
      OBVIOUS
    <2>2. PICK q2 : q2 = q1 \o r
      OBVIOUS
    <2>3. PICK q3 : q3 = q2 \o o
      OBVIOUS
    <2>4. PICK q4 : q4 = q3 \o <<"run">>
      OBVIOUS
    <2>5. "gopanic" \in T /\ "run" \in T
      BY DEF T
    <2>6. /\ q1 \in Seq(T) /\ Len(q1) = Len(u) + 1
          /\ \A i \in 1..Len(q1) : q1[i] = IF i <= Len(u) THEN u[i] ELSE "gopanic"
      <3>1. u \in Seq(T)
        BY <1>2
      <3> QED BY ONLY <2>1, <2>5, <3>1, JoinsOne
    <2>7. /\ q2 \in Seq(T) /\ Len(q2) = Len(q1) + Len(r)
          /\ \A i \in 1..Len(q2) : q2[i] = IF i <= Len(q1) THEN q1[i] ELSE r[i - Len(q1)]
      <3>1. r \in Seq(T) /\ q1 \in Seq(T)
        BY <1>2, <2>6
      <3> QED BY ONLY <2>2, <3>1, Joins
    <2>8. /\ q3 \in Seq(T) /\ Len(q3) = Len(q2) + Len(o)
          /\ \A i \in 1..Len(q3) : q3[i] = IF i <= Len(q2) THEN q2[i] ELSE o[i - Len(q2)]
      <3>1. o \in Seq(T) /\ q2 \in Seq(T)
        BY <1>2, <2>7
      <3> QED BY ONLY <2>3, <3>1, Joins
    <2>9. /\ q4 \in Seq(T) /\ Len(q4) = Len(q3) + 1
          /\ \A i \in 1..Len(q4) : q4[i] = IF i <= Len(q3) THEN q3[i] ELSE "run"
      <3>1. q3 \in Seq(T)
        BY <2>8
      <3> QED BY ONLY <2>4, <2>5, <3>1, JoinsOne
    <2>10. q = q4 \o b
      BY <1>4, <2>1, <2>2, <2>3, <2>4
    <2>11. /\ q \in Seq(T) /\ Len(q) = Len(q4) + Len(b)
           /\ \A i \in 1..Len(q) : q[i] = IF i <= Len(q4) THEN q4[i] ELSE b[i - Len(q4)]
      <3>1. b \in Seq(T) /\ q4 \in Seq(T)
        BY <1>2, <2>9
      <3> QED BY ONLY <2>10, <3>1, Joins
    <2>12. /\ Len(q1) = Len(u) + 1 /\ Len(q2) = Len(u) + 1 + Len(r)
           /\ Len(q3) = Len(u) + 1 + Len(r) + Len(o) /\ Len(q4) = Len(u) + Len(r) + Len(o) + 2
           /\ Len(q) = Len(u) + Len(r) + Len(o) + Len(b) + 2
      BY <1>6, <2>6, <2>7, <2>8, <2>9, <2>11
    <2>13. ASSUME NEW i \in 1..Len(q)
           PROVE  q[i] = IF i <= Len(u) THEN u[i]
                     ELSE IF i = Len(u) + 1 THEN "gopanic"
                     ELSE IF i <= Len(u) + 1 + Len(r) THEN r[i - Len(u) - 1]
                     ELSE IF i <= Len(u) + 1 + Len(r) + Len(o) THEN o[i - Len(u) - 1 - Len(r)]
                     ELSE IF i = Len(u) + Len(r) + Len(o) + 2 THEN "run"
                     ELSE b[i - Len(u) - Len(r) - Len(o) - 2]
      <3>1. CASE i <= Len(u)
        BY <1>6, <2>6, <2>7, <2>8, <2>9, <2>11, <2>12, <3>1
      <3>2. CASE i = Len(u) + 1
        BY <1>6, <2>6, <2>7, <2>8, <2>9, <2>11, <2>12, <3>2
      <3>3. CASE i > Len(u) + 1 /\ i <= Len(u) + 1 + Len(r)
        <4>1. q[i] = r[i - Len(q1)]
          BY <1>6, <2>7, <2>8, <2>9, <2>11, <2>12, <3>3
        <4>2. i - Len(q1) = i - Len(u) - 1
          BY <1>6, <2>12
        <4> QED BY <1>6, <3>3, <4>1, <4>2
      <3>4. CASE i > Len(u) + 1 + Len(r) /\ i <= Len(u) + 1 + Len(r) + Len(o)
        <4>1. q[i] = o[i - Len(q2)]
          BY <1>6, <2>8, <2>9, <2>11, <2>12, <3>4
        <4>2. i - Len(q2) = i - Len(u) - 1 - Len(r)
          BY <1>6, <2>12
        <4> QED BY <1>6, <3>4, <4>1, <4>2
      <3>5. CASE i = Len(u) + Len(r) + Len(o) + 2
        BY <1>6, <2>9, <2>11, <2>12, <3>5
      <3>6. CASE i > Len(u) + Len(r) + Len(o) + 2
        <4>1. q[i] = b[i - Len(q4)]
          BY <1>6, <2>11, <2>12, <3>6
        <4>2. i - Len(q4) = i - Len(u) - Len(r) - Len(o) - 2
          BY <1>6, <2>12
        <4> QED BY <1>6, <3>6, <4>1, <4>2
      <3> QED BY <1>6, <3>1, <3>2, <3>3, <3>4, <3>5, <3>6
    <2> QED BY <2>11, <2>12, <2>13
  <1>9. ASSUME NEW i \in 1..Len(o) PROVE q[FirstAt(p) + i - 1] = o[i]
    <2>1. PICK j : j = FirstAt(p) + i - 1
      OBVIOUS
    <2>2. j = Len(u) + 1 + Len(r) + i /\ j \in 1..Len(q)
      BY <1>6, <1>7, <1>8, <2>1
    <2>3. j - Len(u) - 1 - Len(r) = i
      BY <1>6, <2>2
    <2>4. q[j] = o[j - Len(u) - 1 - Len(r)]
      BY <1>6, <1>8, <2>2
    <2> QED BY ONLY <2>1, <2>3, <2>4
  <1>10. /\ EntryAt(p) \in Nat \ {0} /\ FirstAt(p) \in Nat /\ RunAt(p) \in Nat
         /\ EntryAt(p) < FirstAt(p) /\ FirstAt(p) < RunAt(p)
         /\ Len(o) = RunAt(p) - FirstAt(p)
         /\ RunAt(p) = Len(q) - Len(b) /\ Len(q) \in Nat /\ RunAt(p) <= Len(q)
    BY <1>5, <1>6, <1>7, <1>8
  <1>11. /\ \A i \in 1..(EntryAt(p) - 1) : q[i] # "gopanic"
         /\ q[EntryAt(p)] = "gopanic"
         /\ \A i \in (EntryAt(p) + 1)..(FirstAt(p) - 1) : q[i] \in RuntimeFrames
    <2>1. ASSUME NEW i \in 1..(EntryAt(p) - 1) PROVE q[i] # "gopanic"
      BY <1>5, <1>6, <1>7, <1>8
    <2>2. q[EntryAt(p)] = "gopanic"
      BY <1>6, <1>7, <1>8
    <2>3. ASSUME NEW i \in (EntryAt(p) + 1)..(FirstAt(p) - 1) PROVE q[i] \in RuntimeFrames
      <3>1. i \in 1..Len(q) /\ i > Len(u) + 1 /\ i <= Len(u) + 1 + Len(r) /\ i - Len(u) - 1 \in 1..Len(r)
        BY <1>6, <1>7, <1>8
      <3>2. q[i] = r[i - Len(u) - 1]
        BY <1>6, <1>8, <3>1
      <3> QED BY <1>5, <3>1, <3>2
    <2> QED BY <2>1, <2>2, <2>3
  <1>12. q[FirstAt(p)] \notin RuntimeFrames /\ q[RunAt(p)] = "run"
    BY <1>5, <1>6, <1>7, <1>8
  <1>13. \A i \in (EntryAt(p) + 1)..(RunAt(p) - 1) : q[i] # "run"
    <2> SUFFICES ASSUME NEW i \in (EntryAt(p) + 1)..(RunAt(p) - 1) PROVE q[i] # "run"
      OBVIOUS
    <2>1. i \in 1..Len(q) /\ i > Len(u) + 1 /\ i <= Len(u) + 1 + Len(r) + Len(o)
      BY <1>6, <1>7, <1>8
    <2>2. CASE i <= Len(u) + 1 + Len(r)
      <3>1. i \in (EntryAt(p) + 1)..(FirstAt(p) - 1)
        BY <1>6, <1>7, <2>1, <2>2
      <3> QED BY <1>11, <3>1 DEF RuntimeFrames
    <2>3. CASE i > Len(u) + 1 + Len(r)
      <3>1. q[i] = o[i - Len(u) - 1 - Len(r)] /\ i - Len(u) - 1 - Len(r) \in 1..Len(o)
        BY <1>6, <1>8, <2>1, <2>3
      <3> QED BY <1>5, <3>1
    <2> QED BY <1>6, <2>1, <2>2, <2>3
  <1> QED BY <1>2, <1>8, <1>9, <1>10, <1>11, <1>12, <1>13 DEF o, b

Least(I) == IF I # {} THEN Min(I) ELSE 0

LEMMA LeastIs ==
    ASSUME NEW I \in SUBSET Nat, NEW n \in I, \A m \in I : n <= m
    PROVE  Least(I) = n
  BY FirstIs DEF Least

\* A buffer that reaches down to the executor's frame shows the step's frames; one
\* that does not is too small.
LEMMA Trimmed ==
    ASSUME NEW p, Parts(p), NEW d \in Nat \ {0}
    PROVE  IF RunAt(p) <= d THEN TrimmedStack(PanickedStack(p), d) = [frames |-> p.own, ok |-> TRUE]
           ELSE ~TrimmedStack(PanickedStack(p), d).ok
  <1>1. PICK q : q = PanickedStack(p)
    OBVIOUS
  <1>2. PICK S : q \in Seq(S) /\ p.own \in Seq(S)
    BY <1>1, StackFacts
  <1>3. /\ EntryAt(p) \in Nat \ {0} /\ FirstAt(p) \in Nat /\ RunAt(p) \in Nat
        /\ EntryAt(p) < FirstAt(p) /\ FirstAt(p) < RunAt(p)
        /\ Len(q) \in Nat /\ RunAt(p) <= Len(q)
    BY <1>1, StackFacts
  <1>4. PICK n : n = IF Len(q) < d THEN Len(q) ELSE d
    OBVIOUS
  <1>5. n \in Nat \ {0} /\ n <= Len(q) /\ n <= d /\ (RunAt(p) <= d => RunAt(p) <= n) /\ (RunAt(p) > d => n = d)
    BY <1>3, <1>4
  <1>6. PICK buf : buf = SubSeq(q, 1, n)
    OBVIOUS
  <1>7. buf \in Seq(S) /\ Len(buf) = n /\ \A i \in 1..n : buf[i] = q[i]
    BY <1>2, <1>3, <1>5, <1>6, SubSeqProperties
  <1>8. PICK entry : entry = Least({i \in 1..Len(buf) : buf[i] = "gopanic"})
    OBVIOUS
  <1>9. PICK executor : executor = Least({i \in (entry + 1)..Len(buf) : buf[i] = "run"})
    OBVIOUS
  <1>10. PICK first : first = Least({i \in (entry + 1)..(executor - 1) : buf[i] \notin RuntimeFrames})
    OBVIOUS
  <1>11. TrimmedStack(q, d) =
            IF entry = 0 \/ executor = 0 THEN [frames |-> <<>>, ok |-> Len(buf) < d]
            ELSE [frames |-> IF first = 0 THEN <<>> ELSE SubSeq(buf, first, executor - 1), ok |-> TRUE]
    BY <1>4, <1>6, <1>8, <1>9, <1>10 DEF TrimmedStack, SelectInSeq, SelectInSubSeq, Least
  <1>12. ASSUME EntryAt(p) <= n PROVE entry = EntryAt(p)
    <2> DEFINE I == {i \in 1..Len(buf) : buf[i] = "gopanic"}
    <2>1. EntryAt(p) \in I
      BY <1>1, <1>3, <1>7, <1>12, StackFacts
    <2>2. ASSUME NEW i \in I PROVE EntryAt(p) <= i
      BY <1>1, <1>3, <1>5, <1>7, StackFacts
    <2>3. I \in SUBSET Nat
      BY <1>5, <1>7
    <2> HIDE DEF I
    <2>4. Least(I) = EntryAt(p)
      BY <2>1, <2>2, <2>3, LeastIs
    <2> QED BY <1>8, <2>4 DEF I
  <1>13. CASE RunAt(p) <= d
    <2>1. entry = EntryAt(p)
      BY <1>3, <1>5, <1>12, <1>13
    <2>2. executor = RunAt(p)
      <3> DEFINE I == {i \in (entry + 1)..Len(buf) : buf[i] = "run"}
      <3>1. RunAt(p) \in I
        BY <1>1, <1>3, <1>5, <1>7, <1>13, <2>1, StackFacts
      <3>2. ASSUME NEW i \in I PROVE RunAt(p) <= i
        BY <1>1, <1>3, <1>5, <1>7, <2>1, StackFacts
      <3>3. I \in SUBSET Nat
        BY <1>3, <1>5, <1>7, <2>1
      <3> HIDE DEF I
      <3>4. Least(I) = RunAt(p)
        BY <3>1, <3>2, <3>3, LeastIs
      <3> QED BY <1>9, <3>4 DEF I
    <2>3. first = FirstAt(p)
      <3> DEFINE I == {i \in (entry + 1)..(executor - 1) : buf[i] \notin RuntimeFrames}
      <3>1. FirstAt(p) \in I
        BY <1>1, <1>3, <1>5, <1>7, <1>13, <2>1, <2>2, StackFacts
      <3>2. ASSUME NEW i \in I PROVE FirstAt(p) <= i
        BY <1>1, <1>3, <1>5, <1>7, <1>13, <2>1, <2>2, StackFacts
      <3>3. I \in SUBSET Nat
        BY <1>3, <2>1, <2>2
      <3> HIDE DEF I
      <3>4. Least(I) = FirstAt(p)
        BY <3>1, <3>2, <3>3, LeastIs
      <3> QED BY <1>10, <3>4 DEF I
    <2>4. PICK s : s = SubSeq(buf, FirstAt(p), RunAt(p) - 1)
      OBVIOUS
    <2>5. /\ s \in Seq(S) /\ Len(s) = RunAt(p) - FirstAt(p)
          /\ \A i \in 1..Len(s) : s[i] = buf[FirstAt(p) + i - 1]
      <3>1. PICK k : k = RunAt(p) - 1
        OBVIOUS
      <3>2. FirstAt(p) \in 1..(Len(buf) + 1) /\ k \in FirstAt(p)..Len(buf) /\ s = SubSeq(buf, FirstAt(p), k)
        BY <1>3, <1>5, <1>7, <1>13, <2>4, <3>1
      <3>3. /\ s \in Seq(S) /\ Len(s) = k - FirstAt(p) + 1
            /\ \A i \in 1..(k - FirstAt(p) + 1) : s[i] = buf[FirstAt(p) + i - 1]
        BY <1>7, <3>2, SubSeqProperties
      <3> QED BY <1>3, <3>1, <3>3
    <2>6. Len(p.own) = Len(s)
      BY <1>1, <2>5, StackFacts
    <2>7. ASSUME NEW i \in 1..Len(s) PROVE s[i] = p.own[i]
      <3>1. PICK j : j = FirstAt(p) + i - 1
        OBVIOUS
      <3>2. j \in 1..n
        BY <1>3, <1>5, <1>13, <2>5, <3>1
      <3>3. q[j] = p.own[i]
        BY <1>1, <2>6, <3>1, StackFacts
      <3> QED BY <1>7, <2>5, <3>1, <3>2, <3>3
    <2>8. s = p.own
      BY <1>2, <2>5, <2>6, <2>7, SeqEqual
    <2>9. TrimmedStack(q, d) = [frames |-> p.own, ok |-> TRUE]
      <3>1. entry # 0 /\ executor # 0 /\ first # 0
        BY <1>3, <2>1, <2>2, <2>3
      <3>2. TrimmedStack(q, d) = [frames |-> SubSeq(buf, first, executor - 1), ok |-> TRUE]
        BY <1>11, <3>1, Zenon
      <3>3. SubSeq(buf, first, executor - 1) = p.own
        BY <2>2, <2>3, <2>4, <2>8, Zenon
      <3> QED BY <3>2, <3>3, Zenon
    <2> QED BY <1>1, <1>13, <2>9
  <1>14. CASE ~ (RunAt(p) <= d)
    <2>1. entry = 0 \/ executor = 0
      <3>1. CASE n < EntryAt(p)
        <4>1. ASSUME NEW i \in 1..Len(buf), buf[i] = "gopanic" PROVE FALSE
          BY <1>1, <1>3, <1>5, <1>7, <3>1, <4>1, StackFacts
        <4> QED BY <1>8, <4>1 DEF Least
      <3>2. CASE EntryAt(p) <= n
        <4>1. entry = EntryAt(p)
          BY <1>12, <3>2
        <4>2. ASSUME NEW i \in (entry + 1)..Len(buf), buf[i] = "run" PROVE FALSE
          <5>1. i \in 1..n /\ i \in (EntryAt(p) + 1)..(RunAt(p) - 1)
            BY <1>3, <1>5, <1>7, <1>14, <4>1
          <5>2. q[i] # "run"
            BY <1>1, <5>1, StackFacts
          <5>3. buf[i] = q[i]
            BY <1>7, <5>1
          <5> QED BY <4>2, <5>2, <5>3
        <4> QED BY <1>9, <4>2 DEF Least
      <3> QED BY <1>3, <1>5, <3>1, <3>2
    <2>2. n = d
      BY <1>3, <1>5, <1>14
    <2>3. ~TrimmedStack(q, d).ok
      <3>1. TrimmedStack(q, d) = [frames |-> <<>>, ok |-> Len(buf) < d]
        BY <1>11, <2>1, Zenon
      <3>2. ~ (Len(buf) < d)
        BY <1>7, <2>2
      <3>3. [frames |-> <<>>, ok |-> Len(buf) < d].ok = (Len(buf) < d)
        BY Zenon
      <3>4. TrimmedStack(q, d).ok = (Len(buf) < d)
        BY ONLY <3>1, <3>3, Zenon
      <3> QED BY <3>2, <3>4, Zenon
    <2> QED BY <1>1, <1>14, <2>3
  <1> QED BY <1>13, <1>14

\* Whatever the buffers: the frames reported are the step's own, all of them, or
\* none where its panic is deeper than the last buffer (executor.go panicStack).
THEOREM PanicStackFinds ==
    ASSUME NEW p, Parts(p)
    PROVE  PanicStack(PanickedStack(p)) = StepFrames(p)
  <1>1. PICK q : q = PanickedStack(p)
    OBVIOUS
  <1> DEFINE I == {i \in 1..Len(Depths) : TrimmedStack(q, Depths[i]).ok}
  <1>2. PanicStack(q) = LET n == Least(I) IN IF n = 0 THEN <<>> ELSE TrimmedStack(q, Depths[n]).frames
    BY DEF PanicStack, SelectInSeq, Least
  <1>3. StepFrames(p) = IF \E i \in 1..Len(Depths) : RunAt(p) <= Depths[i] THEN p.own ELSE <<>>
    <2>1. Len(q) - Len(p.below) = RunAt(p)
      BY <1>1, StackFacts
    <2>2. DOMAIN Depths = 1..Len(Depths)
      BY DepthsAssumption
    <2> QED BY <1>1, <2>1, <2>2, Zenon DEF StepFrames
  <1>4. ASSUME NEW i \in 1..Len(Depths)
        PROVE  /\ RunAt(p) <= Depths[i] <=> i \in I
               /\ i \in I => TrimmedStack(q, Depths[i]).frames = p.own
    <2>1. Depths[i] \in Nat \ {0}
      BY DepthsAssumption
    <2> QED BY <1>1, <2>1, Trimmed
  <1>5. I \in SUBSET (1..Len(Depths)) /\ Len(Depths) \in Nat
    BY DepthsAssumption
  <1> HIDE DEF I
  <1>6. CASE I = {}
    BY <1>1, <1>2, <1>3, <1>4, <1>6 DEF Least
  <1>7. CASE I # {}
    <2>1. PICK n \in I : \A m \in I : n <= m
      BY <1>5, <1>7, LeastExists
    <2>2. Least(I) = n
      BY <1>5, <2>1, LeastIs
    <2> QED BY <1>1, <1>2, <1>3, <1>4, <1>5, <2>1, <2>2
  <1> QED BY <1>6, <1>7

LEMMA PanicsHaveParts ==
    ASSUME NEW p \in MCPanics
    PROVE  Parts(p)
  <1> DEFINE W == {"defer", "runtime", "verb", "gopanic", "run", "test"}
  <1>1. /\ p.unwinding \in {<<"defer">>, <<"defer", "runtime">>}
        /\ p.raising \in {<<>>, <<"runtime">>}
        /\ p.below \in {<<>>, <<"test">>, <<"run", "test">>}
        /\ p.own \in {<<"verb">> \o s : s \in SeqOf({"verb", "runtime", "gopanic"}, 3)}
    BY DEF MCPanics
  <1>2. PICK s \in SeqOf({"verb", "runtime", "gopanic"}, 3) : p.own = <<"verb">> \o s
    BY <1>1
  <1>3. s \in Seq({"verb", "runtime", "gopanic"})
    <2>1. PICK m \in 0..3 : s \in [1..m -> {"verb", "runtime", "gopanic"}]
      BY <1>2 DEF SeqOf
    <2> QED BY <2>1
  <1>4. /\ p.own \in Seq({"verb", "runtime", "gopanic"}) /\ Len(p.own) = Len(s) + 1
        /\ p.own[1] = "verb"
    BY <1>2, <1>3
  <1>5. \A i \in 1..Len(p.own) : p.own[i] \in {"verb", "runtime", "gopanic"}
    BY <1>4
  <1>6. /\ p.unwinding \in Seq(W) /\ p.raising \in Seq(W) /\ p.below \in Seq(W) /\ p.own \in Seq(W)
    <2>1. <<"defer">> \in Seq(W) /\ <<"defer", "runtime">> \in Seq(W) /\ <<"runtime">> \in Seq(W)
      OBVIOUS
    <2>2. <<>> \in Seq(W) /\ <<"test">> \in Seq(W) /\ <<"run", "test">> \in Seq(W)
      OBVIOUS
    <2>3. p.own \in Seq(W)
      BY <1>4
    <2> HIDE DEF W
    <2> QED BY <1>1, <2>1, <2>2, <2>3
  <1>7. \A i \in 1..Len(p.unwinding) : p.unwinding[i] # "gopanic"
    BY <1>1
  <1>8. \A i \in 1..Len(p.raising) : p.raising[i] \in RuntimeFrames
    BY <1>1 DEF RuntimeFrames
  <1>9. p.own # <<>> /\ p.own[1] \notin RuntimeFrames
    BY <1>3, <1>4 DEF RuntimeFrames
  <1> HIDE DEF W
  <1> QED BY <1>5, <1>6, <1>7, <1>8, <1>9 DEF Parts

\* The frames a panic is told with are the step's own, whatever the panics, with
\* any buffers.
THEOREM StackIsTheStepsOwnHolds == Spec => []StackIsTheStepsOwn
  <1>1. StacksAreTheSteps
    BY PanicsHaveParts, PanicStackFinds DEF StacksAreTheSteps
  <1>2. StackIsTheStepsOwn
    BY <1>1 DEF StackIsTheStepsOwn
  <1> QED BY <1>2, PTL

-----------------------------------------------------------------------------
(* The name a step is told under, for symbols of any length: what the folds  *)
(* of BareName come to, token after token.                                   *)

\* One token of the first fold, or of the second.
Token(k, acc, x) == IF k = "unbracket" THEN Unbracket(acc, x) ELSE Split(acc, x)

\* From a, the tokens s lead to b.
Leads(k, a, s, b) ==
    \E F : /\ F[0] = a /\ F[Len(s)] = b
           /\ \A n \in 1..Len(s) : F[n] = Token(k, F[n - 1], s[n])

\* What FoldLeft computes, over the sets of the first n indices.
Iterates(k, a, s, it, n) ==
    it = [c \in SUBSET (1..n) |->
            IF c = {} THEN a ELSE Token(k, it[c \ {Max(c)}], s[Max(c)])]

\* The last of the numbers in a set.
LEMMA MaxIs ==
    ASSUME NEW I \in SUBSET Nat, NEW n \in I, \A m \in I : m <= n
    PROVE  Max(I) = n
  <1>1. n >= n /\ \A m \in I : n >= m
    OBVIOUS
  <1>2. Max(I) \in I /\ \A m \in I : Max(I) >= m
    BY <1>1, Zenon DEF Max
  <1>3. PICK m : m = Max(I)
    OBVIOUS
  <1>4. m \in I /\ m <= n /\ n <= m
    BY <1>2, <1>3
  <1>5. m = n
    BY <1>4
  <1> QED BY <1>3, <1>5

\* There is such a function, ...
LEMMA IterateExists ==
    ASSUME NEW k, NEW a, NEW s, NEW n \in Nat
    PROVE  \E it : Iterates(k, a, s, it, n)
  <1> DEFINE Bad == {m \in Nat : ~ \E it : Iterates(k, a, s, it, m)}
  <1>1. CASE n \notin Bad
    BY <1>1
  <1>2. CASE n \in Bad
    <2>1. PICK m \in Bad : \A l \in Bad : m <= l
      <3>1. Bad \in SUBSET Nat /\ Bad # {}
        BY <1>2
      <3> HIDE DEF Bad
      <3> QED BY <3>1, LeastExists
    <2>2. m # 0
      <3> DEFINE z == [c \in SUBSET (1..0) |-> a]
      <3>1. \A c \in SUBSET (1..0) : c = {}
        OBVIOUS
      <3>2. z = [c \in SUBSET (1..0) |-> IF c = {} THEN a ELSE Token(k, z[c \ {Max(c)}], s[Max(c)])]
        BY <3>1
      <3>3. Iterates(k, a, s, z, 0)
        BY <3>2 DEF Iterates
      <3> QED BY <2>1, <3>3
    <2>3. m - 1 \in Nat /\ m - 1 \notin Bad
      BY <2>1, <2>2
    <2>4. PICK it : Iterates(k, a, s, it, m - 1)
      BY <2>3
    <2> DEFINE g == [c \in SUBSET (1..m) |-> IF m \in c THEN Token(k, it[c \ {m}], s[m]) ELSE it[c]]
    <2>5. ASSUME NEW c \in SUBSET (1..m)
          PROVE  g[c] = IF c = {} THEN a ELSE Token(k, g[c \ {Max(c)}], s[Max(c)])
      <3>1. CASE m \in c
        <4>1. Max(c) = m
          BY <2>1, <3>1, MaxIs
        <4>2. c \ {m} \in SUBSET (1..m) /\ m \notin c \ {m}
          OBVIOUS
        <4>3. g[c \ {m}] = it[c \ {m}] /\ g[c] = Token(k, it[c \ {m}], s[m])
          BY <3>1, <4>2
        <4> HIDE DEF g
        <4> QED BY <3>1, <4>1, <4>3
      <3>2. CASE m \notin c
        <4>1. c \in SUBSET (1..(m - 1))
          BY <2>1, <3>2
        <4>2. it[c] = IF c = {} THEN a ELSE Token(k, it[c \ {Max(c)}], s[Max(c)])
          BY <2>4, <4>1 DEF Iterates
        <4>3. c \ {Max(c)} \in SUBSET (1..m) /\ m \notin c \ {Max(c)}
          BY <3>2
        <4>4. g[c] = it[c] /\ g[c \ {Max(c)}] = it[c \ {Max(c)}]
          BY <3>2, <4>3
        <4> HIDE DEF g
        <4> QED BY <4>2, <4>4
      <3> QED BY <3>1, <3>2
    <2>6. Iterates(k, a, s, g, m)
      BY <2>5 DEF Iterates
    <2> QED BY <2>1, <2>6
  <1> QED BY <1>1, <1>2

\* ... and it goes token after token; ...
LEMMA IterateLeads ==
    ASSUME NEW k, NEW a, NEW S, NEW s \in Seq(S), NEW it, Iterates(k, a, s, it, Len(s))
    PROVE  Leads(k, a, s, it[1..Len(s)])
  <1> DEFINE F == [n \in 0..Len(s) |-> it[1..n]]
  <1>1. Len(s) \in Nat
    OBVIOUS
  <1>2. F[0] = a
    <2>1. 1..0 = {} /\ {} \in SUBSET (1..Len(s)) /\ 0 \in 0..Len(s)
      BY <1>1
    <2>2. it[{}] = a
      BY <2>1 DEF Iterates
    <2> QED BY <2>1, <2>2
  <1>3. F[Len(s)] = it[1..Len(s)]
    BY <1>1
  <1>4. ASSUME NEW n \in 1..Len(s) PROVE F[n] = Token(k, F[n - 1], s[n])
    <2>1. n \in Nat /\ n - 1 \in 0..Len(s) /\ n \in 0..Len(s)
      BY <1>1
    <2>2. Max(1..n) = n
      BY <2>1, MaxIs
    <2>3. (1..n) \ {n} = 1..(n - 1) /\ 1..n # {} /\ 1..n \in SUBSET (1..Len(s))
      <3>1. ASSUME NEW i PROVE i \in (1..n) \ {n} <=> i \in 1..(n - 1)
        BY <2>1
      <3>2. n \in 1..n /\ \A i \in 1..n : i \in 1..Len(s)
        BY <1>1, <2>1
      <3> QED BY <3>1, <3>2
    <2>4. it[1..n] = Token(k, it[(1..n) \ {Max(1..n)}], s[Max(1..n)])
      BY <2>3 DEF Iterates
    <2> QED BY <2>1, <2>2, <2>3, <2>4
  <1> HIDE DEF F
  <1> QED BY <1>2, <1>3, <1>4 DEF Leads

\* ... so does the fold of WithoutBrackets, ...
LEMMA UnbracketFolds ==
    ASSUME NEW a, NEW S, NEW s \in Seq(S)
    PROVE  Leads("unbracket", a, s, FoldLeft(Unbracket, a, s))
  <1> DEFINE it == CHOOSE it : it = [c \in SUBSET DOMAIN s |->
                        IF c = {} THEN a ELSE Unbracket(it[c \ {Max(c)}], s[Max(c)])]
  <1>1. FoldLeft(Unbracket, a, s) = it[DOMAIN s]
    BY DEF FoldLeft, MapThenFoldSet
  <1>2. DOMAIN s = 1..Len(s) /\ Len(s) \in Nat
    OBVIOUS
  <1>3. PICK h : Iterates("unbracket", a, s, h, Len(s))
    BY <1>2, IterateExists
  <1>4. h = [c \in SUBSET DOMAIN s |-> IF c = {} THEN a ELSE Unbracket(h[c \ {Max(c)}], s[Max(c)])]
    BY <1>2, <1>3, Zenon DEF Iterates, Token
  <1>5. it = [c \in SUBSET DOMAIN s |-> IF c = {} THEN a ELSE Unbracket(it[c \ {Max(c)}], s[Max(c)])]
    BY <1>4, Zenon
  <1> HIDE DEF it
  <1>6. Iterates("unbracket", a, s, it, Len(s))
    BY <1>2, <1>5, Zenon DEF Iterates, Token
  <1> QED BY <1>1, <1>2, <1>6, IterateLeads

\* ... and that of Segments.
LEMMA SplitFolds ==
    ASSUME NEW a, NEW S, NEW s \in Seq(S)
    PROVE  Leads("split", a, s, FoldLeft(Split, a, s))
  <1> DEFINE it == CHOOSE it : it = [c \in SUBSET DOMAIN s |->
                        IF c = {} THEN a ELSE Split(it[c \ {Max(c)}], s[Max(c)])]
  <1>1. FoldLeft(Split, a, s) = it[DOMAIN s]
    BY DEF FoldLeft, MapThenFoldSet
  <1>2. DOMAIN s = 1..Len(s) /\ Len(s) \in Nat
    OBVIOUS
  <1>3. PICK h : Iterates("split", a, s, h, Len(s))
    BY <1>2, IterateExists
  <1>0. "split" # "unbracket"
    OBVIOUS
  <1>4. h = [c \in SUBSET DOMAIN s |-> IF c = {} THEN a ELSE Split(h[c \ {Max(c)}], s[Max(c)])]
    BY <1>0, <1>2, <1>3, Zenon DEF Iterates, Token
  <1>5. it = [c \in SUBSET DOMAIN s |-> IF c = {} THEN a ELSE Split(it[c \ {Max(c)}], s[Max(c)])]
    BY <1>4, Zenon
  <1> HIDE DEF it
  <1>6. Iterates("split", a, s, it, Len(s))
    BY <1>0, <1>2, <1>5, Zenon DEF Iterates, Token
  <1> QED BY <1>1, <1>2, <1>6, IterateLeads

\* There is one way, ...
LEMMA LeadsToOne ==
    ASSUME NEW k, NEW a, NEW s, Len(s) \in Nat, NEW b, NEW c, Leads(k, a, s, b), Leads(k, a, s, c)
    PROVE  b = c
  <1>1. PICK F : /\ F[0] = a /\ F[Len(s)] = b
                 /\ \A n \in 1..Len(s) : F[n] = Token(k, F[n - 1], s[n])
    BY DEF Leads
  <1>2. PICK G : /\ G[0] = a /\ G[Len(s)] = c
                 /\ \A n \in 1..Len(s) : G[n] = Token(k, G[n - 1], s[n])
    BY DEF Leads
  <1> DEFINE Bad == {n \in 0..Len(s) : F[n] # G[n]}
  <1>3. CASE Bad = {}
    BY <1>1, <1>2, <1>3
  <1>4. CASE Bad # {}
    <2>1. PICK n \in Bad : \A m \in Bad : n <= m
      <3>1. Bad \in SUBSET Nat
        OBVIOUS
      <3> HIDE DEF Bad
      <3> QED BY <1>4, <3>1, LeastExists
    <2>2. n # 0
      BY <1>1, <1>2, <2>1
    <2>3. n - 1 \in 0..Len(s) /\ n \in 1..Len(s) /\ n - 1 \notin Bad
      BY <2>1, <2>2
    <2>4. F[n - 1] = G[n - 1]
      BY <2>3
    <2> QED BY <1>1, <1>2, <2>1, <2>3, <2>4
  <1> QED BY <1>3, <1>4

\* ... and ways can be joined.
LEMMA LeadsOn ==
    ASSUME NEW k, NEW a, NEW b, NEW c, NEW S, NEW s \in Seq(S), NEW t \in Seq(S),
           Leads(k, a, s, b), Leads(k, b, t, c)
    PROVE  Leads(k, a, s \o t, c)
  <1>1. PICK F : /\ F[0] = a /\ F[Len(s)] = b
                 /\ \A n \in 1..Len(s) : F[n] = Token(k, F[n - 1], s[n])
    BY DEF Leads
  <1>2. PICK G : /\ G[0] = b /\ G[Len(t)] = c
                 /\ \A n \in 1..Len(t) : G[n] = Token(k, G[n - 1], t[n])
    BY DEF Leads
  <1>3. PICK q : q = s \o t
    OBVIOUS
  <1>4. /\ Len(q) = Len(s) + Len(t)
        /\ \A i \in 1..Len(q) : q[i] = IF i <= Len(s) THEN s[i] ELSE t[i - Len(s)]
    BY <1>3, Joins
  <1>5. Len(s) \in Nat /\ Len(t) \in Nat
    OBVIOUS
  <1> DEFINE H == [n \in 0..Len(q) |-> IF n <= Len(s) THEN F[n] ELSE G[n - Len(s)]]
  <1>6. H[0] = a
    BY <1>1, <1>4, <1>5
  <1>7. H[Len(q)] = c
    <2>1. CASE Len(t) = 0
      BY <1>1, <1>2, <1>4, <1>5, <2>1
    <2>2. CASE Len(t) # 0
      <3>1. Len(q) \in 0..Len(q) /\ ~ (Len(q) <= Len(s)) /\ Len(q) - Len(s) = Len(t)
        BY <1>4, <1>5, <2>2
      <3> QED BY <1>2, <3>1
    <2> QED BY <2>1, <2>2
  <1>8. ASSUME NEW n \in 1..Len(q) PROVE H[n] = Token(k, H[n - 1], q[n])
    <2>1. n \in 0..Len(q) /\ n - 1 \in 0..Len(q) /\ n \in Nat
      BY <1>4, <1>5
    <2>2. CASE n <= Len(s)
      <3>1. n \in 1..Len(s) /\ n - 1 <= Len(s)
        BY <1>5, <2>1, <2>2
      <3>2. H[n] = F[n] /\ H[n - 1] = F[n - 1] /\ q[n] = s[n]
        BY <1>4, <2>1, <2>2, <3>1
      <3> HIDE DEF H
      <3> QED BY <1>1, <3>1, <3>2
    <2>3. CASE ~ (n <= Len(s))
      <3>1. PICK j : j = n - Len(s)
        OBVIOUS
      <3>2. j \in 1..Len(t) /\ j - 1 = (n - 1) - Len(s)
        BY <1>4, <1>5, <2>1, <2>3, <3>1
      <3>3. H[n] = G[j] /\ q[n] = t[j]
        BY <1>4, <2>1, <2>3, <3>1
      <3>4. H[n - 1] = G[j - 1]
        <4>1. CASE n - 1 <= Len(s)
          <5>1. n - 1 = Len(s) /\ j - 1 = 0
            BY <1>5, <2>1, <2>3, <3>1, <3>2, <4>1
          <5> QED BY <1>1, <1>2, <2>1, <4>1, <5>1
        <4>2. CASE ~ (n - 1 <= Len(s))
          BY <2>1, <3>2, <4>2
        <4> QED BY <4>1, <4>2
      <3> HIDE DEF H
      <3> QED BY <1>2, <3>2, <3>3, <3>4
    <2> QED BY <2>2, <2>3
  <1> HIDE DEF H
  <1> QED BY <1>3, <1>6, <1>7, <1>8 DEF Leads

\* Outside brackets, with o written.
Outside(o) == [depth |-> 0, out |-> o]

\* A word outside brackets is written, ...
LEMMA WordIsWritten ==
    ASSUME NEW p, NEW x, x # "[", x # "]"
    PROVE  Token("unbracket", Outside(p), x) = Outside(Append(p, x))
  <1>1. Outside(p).depth = 0 /\ Outside(p).out = p
    BY DEF Outside
  <1>2. ~ (0 > 0)
    OBVIOUS
  <1>3. Unbracket(Outside(p), x) = [Outside(p) EXCEPT !.out = Append(p, x)]
    BY <1>1, <1>2, Zenon DEF Unbracket
  <1>4. [Outside(p) EXCEPT !.out = Append(p, x)] = Outside(Append(p, x))
    BY DEF Outside
  <1> QED BY <1>3, <1>4 DEF Token

\* ... so are all of them; ...
LEMMA WordsAreWritten ==
    ASSUME NEW T, NEW o \in Seq(T), NEW w \in Seq(T), \A i \in 1..Len(w) : w[i] \notin {"[", "]"}
    PROVE  Leads("unbracket", Outside(o), w, Outside(o \o w)) /\ o \o w \in Seq(T)
  <1> DEFINE F == [n \in 0..Len(w) |-> Outside(o \o SubSeq(w, 1, n))]
  <1>1. Len(w) \in Nat /\ o \o w \in Seq(T)
    OBVIOUS
  <1>2. F[0] = Outside(o)
    <2>1. SubSeq(w, 1, 0) = <<>> /\ 0 \in 0..Len(w)
      BY <1>1, SubSeqEmpty
    <2>2. o \o <<>> = o
      BY ConcatEmptySeq
    <2> QED BY <2>1, <2>2
  <1>3. F[Len(w)] = Outside(o \o w)
    <2>1. SubSeq(w, 1, Len(w)) = w
      BY SubSeqFull
    <2>2. Len(w) \in 0..Len(w)
      BY <1>1
    <2> QED BY <2>1, <2>2
  <1>4. ASSUME NEW n \in 1..Len(w) PROVE F[n] = Token("unbracket", F[n - 1], w[n])
    <2>1. n - 1 \in 0..Len(w) /\ n \in 0..Len(w) /\ n \in Nat
      BY <1>1
    <2>2. PICK v : v = SubSeq(w, 1, n - 1)
      OBVIOUS
    <2>3. v \in Seq(T) /\ w[n] \in T
      <3>1. \A i \in 1..(n - 1) : w[i] \in T
        BY <1>1
      <3>2. 1 \in Int /\ n - 1 \in Int
        BY <2>1
      <3> QED BY <2>2, <3>1, <3>2, SubSeqProperties
    <2>4. SubSeq(w, 1, n) = v \o <<w[n]>>
      BY <1>1, <2>1, <2>2, SubSeqRecursiveSecond
    <2>5. o \o (v \o <<w[n]>>) = (o \o v) \o <<w[n]>>
      BY <2>3, ConcatAssociative
    <2>6. (o \o v) \o <<w[n]>> = Append(o \o v, w[n])
      BY <2>3
    <2>7. F[n] = Outside(Append(o \o v, w[n])) /\ F[n - 1] = Outside(o \o v)
      BY <2>1, <2>2, <2>4, <2>5, <2>6
    <2>8. Token("unbracket", Outside(o \o v), w[n]) = Outside(Append(o \o v, w[n]))
      <3>1. w[n] # "[" /\ w[n] # "]"
        OBVIOUS
      <3> QED BY <3>1, WordIsWritten
    <2> HIDE DEF F
    <2> QED BY <2>7, <2>8
  <1> HIDE DEF F
  <1> QED BY <1>1, <1>2, <1>3, <1>4 DEF Leads

Brackets == <<"[", ".", ".", ".", "]">>

\* ... type arguments are not.
LEMMA BracketsAreDropped ==
    ASSUME NEW o
    PROVE  Leads("unbracket", Outside(o), Brackets, Outside(o))
  <1> DEFINE in == [depth |-> 1, out |-> o]
             F == [n \in 0..5 |-> IF n \in 1..4 THEN in ELSE Outside(o)]
  <1>1. F[0] = Outside(o) /\ F[1] = in /\ F[2] = in /\ F[3] = in /\ F[4] = in /\ F[5] = Outside(o)
    OBVIOUS
  <1>2. Token("unbracket", Outside(o), "[") = in
    BY DEF Token, Unbracket, Outside
  <1>3. Token("unbracket", in, ".") = in
    BY DEF Token, Unbracket
  <1>4. Token("unbracket", in, "]") = Outside(o)
    BY DEF Token, Unbracket, Outside
  <1>5. /\ Len(Brackets) = 5 /\ Brackets[1] = "[" /\ Brackets[5] = "]"
        /\ Brackets[2] = "." /\ Brackets[3] = "." /\ Brackets[4] = "."
    BY DEF Brackets
  <1> HIDE DEF F, in
  <1>6. ASSUME NEW n \in 1..5 PROVE F[n] = Token("unbracket", F[n - 1], Brackets[n])
    <2>1. n = 1 \/ n = 2 \/ n = 3 \/ n = 4 \/ n = 5
      OBVIOUS
    <2>2. /\ n = 1 => n - 1 = 0
          /\ n = 2 => n - 1 = 1
          /\ n = 3 => n - 1 = 2
          /\ n = 4 => n - 1 = 3
          /\ n = 5 => n - 1 = 4
      OBVIOUS
    <2> QED BY <1>1, <1>2, <1>3, <1>4, <1>5, <2>1, <2>2
  <1> QED BY <1>1, <1>5, <1>6 DEF Leads

\* A part of a symbol without a slash, in which every bracket is closed.
Reads(T, w) ==
    /\ w \in Seq(T)
    /\ \A i \in 1..Len(w) : w[i] # "/"
    /\ \A o \in Seq(T) : \E p \in Seq(T) : Leads("unbracket", Outside(o), w, Outside(p))

Plain(w) == \A i \in 1..Len(w) : w[i] \notin {"/", "[", "]"}

\* A part without brackets is one, ...
LEMMA PlainReads ==
    ASSUME NEW T, NEW w \in Seq(T), Plain(w)
    PROVE  Reads(T, w)
  <1>1. \A i \in 1..Len(w) : w[i] # "/" /\ w[i] \notin {"[", "]"}
    BY DEF Plain
  <1>2. ASSUME NEW o \in Seq(T)
        PROVE  \E p \in Seq(T) : Leads("unbracket", Outside(o), w, Outside(p))
    BY <1>1, WordsAreWritten
  <1> QED BY <1>1, <1>2 DEF Reads

\* ... so are two, ...
LEMMA ReadsOn ==
    ASSUME NEW T, NEW v, NEW w, Reads(T, v), Reads(T, w)
    PROVE  Reads(T, v \o w)
  <1>1. v \in Seq(T) /\ w \in Seq(T)
    BY DEF Reads
  <1>2. PICK q : q = v \o w
    OBVIOUS
  <1>3. /\ q \in Seq(T) /\ Len(q) = Len(v) + Len(w)
        /\ \A i \in 1..Len(q) : q[i] = IF i <= Len(v) THEN v[i] ELSE w[i - Len(v)]
    BY <1>1, <1>2, Joins
  <1>4. ASSUME NEW i \in 1..Len(q) PROVE q[i] # "/"
    <2>1. Len(v) \in Nat /\ Len(w) \in Nat
      BY <1>1
    <2>2. CASE i <= Len(v)
      <3>1. i \in 1..Len(v)
        BY <1>3, <2>1, <2>2
      <3> QED BY <1>3, <2>2, <3>1 DEF Reads
    <2>3. CASE ~ (i <= Len(v))
      <3>1. i - Len(v) \in 1..Len(w)
        BY <1>3, <2>1, <2>3
      <3> QED BY <1>3, <2>3, <3>1 DEF Reads
    <2> QED BY <2>2, <2>3
  <1>5. ASSUME NEW o \in Seq(T)
        PROVE  \E p \in Seq(T) : Leads("unbracket", Outside(o), q, Outside(p))
    <2>1. PICK p \in Seq(T) : Leads("unbracket", Outside(o), v, Outside(p))
      BY DEF Reads
    <2>2. PICK r \in Seq(T) : Leads("unbracket", Outside(p), w, Outside(r))
      BY DEF Reads
    <2>3. Leads("unbracket", Outside(o), q, Outside(r))
      BY <1>1, <1>2, <2>1, <2>2, LeadsOn
    <2> QED BY <2>3
  <1> QED BY <1>2, <1>3, <1>4, <1>5 DEF Reads

\* f[i] is the first i of the sequences qs joined.
Flat(f, qs, n) ==
    f = [i \in 1..n |-> IF i = 1 THEN qs[i] ELSE f[i - 1] \o qs[i]]

\* There is such a function, ...
LEMMA FlatExists ==
    ASSUME NEW qs, NEW n \in Nat
    PROVE  \E f : Flat(f, qs, n)
  <1> DEFINE Bad == {m \in Nat : ~ \E f : Flat(f, qs, m)}
  <1>1. CASE n \notin Bad
    BY <1>1
  <1>2. CASE n \in Bad
    <2>1. PICK m \in Bad : \A k \in Bad : m <= k
      <3>1. Bad \in SUBSET Nat /\ Bad # {}
        BY <1>2
      <3> HIDE DEF Bad
      <3> QED BY <3>1, LeastExists
    <2>2. m # 0
      <3>1. Flat([i \in 1..0 |-> qs[i]], qs, 0)
        BY DEF Flat
      <3> QED BY <2>1, <3>1
    <2>3. m - 1 \in Nat /\ m - 1 \notin Bad
      BY <2>1, <2>2
    <2>4. PICK f : Flat(f, qs, m - 1)
      BY <2>3
    <2> DEFINE g == [i \in 1..m |-> IF i < m THEN f[i] ELSE IF i = 1 THEN qs[i] ELSE f[i - 1] \o qs[i]]
    <2>5. ASSUME NEW i \in 1..m PROVE g[i] = IF i = 1 THEN qs[i] ELSE g[i - 1] \o qs[i]
      <3>1. CASE i < m
        <4>1. i \in 1..(m - 1) /\ (i # 1 => i - 1 \in 1..m /\ i - 1 < m)
          BY <2>1, <3>1
        <4>2. f[i] = IF i = 1 THEN qs[i] ELSE f[i - 1] \o qs[i]
          BY <2>4, <4>1 DEF Flat
        <4> QED BY <3>1, <4>1, <4>2
      <3>2. CASE i = m
        <4>1. m # 1 => m - 1 \in 1..m /\ m - 1 < m
          BY <2>1, <2>2
        <4> QED BY <3>2, <4>1
      <3> QED BY <2>1, <3>1, <3>2
    <2>6. Flat(g, qs, m)
      BY <2>5 DEF Flat
    <2> QED BY <2>1, <2>6
  <1> QED BY <1>1, <1>2

\* ... FlattenSeq takes its last value, ...
LEMMA FlattenIs ==
    ASSUME NEW qs, Len(qs) \in Nat \ {0}
    PROVE  \E f : Flat(f, qs, Len(qs)) /\ FlattenSeq(qs) = f[Len(qs)]
  <1> DEFINE flatten == CHOOSE f : Flat(f, qs, Len(qs))
  <1>1. Flat(flatten, qs, Len(qs))
    BY FlatExists
  <1>2. FlattenSeq(qs) = flatten[Len(qs)]
    BY DEF FlattenSeq, Flat
  <1> HIDE DEF flatten
  <1> QED BY <1>1, <1>2

\* ... and parts joined are a part.
LEMMA FlatReads ==
    ASSUME NEW T, NEW S, NEW qs \in Seq(S), \A i \in 1..Len(qs) : Reads(T, qs[i])
    PROVE  Reads(T, FlattenSeq(qs))
  <1>1. Len(qs) \in Nat
    OBVIOUS
  <1>2. CASE Len(qs) = 0
    <2>1. FlattenSeq(qs) = <<>>
      BY <1>2, EmptySeq DEF FlattenSeq
    <2>2. <<>> \in Seq(T) /\ Plain(<<>>)
      BY DEF Plain
    <2> QED BY <2>1, <2>2, PlainReads
  <1>3. CASE Len(qs) # 0
    <2>1. PICK f : Flat(f, qs, Len(qs)) /\ FlattenSeq(qs) = f[Len(qs)]
      BY <1>1, <1>3, FlattenIs
    <2> DEFINE Bad == {i \in 1..Len(qs) : ~Reads(T, f[i])}
    <2>2. CASE Bad = {}
      BY <1>1, <1>3, <2>1, <2>2
    <2>3. CASE Bad # {}
      <3>1. PICK n \in Bad : \A m \in Bad : n <= m
        <4>1. Bad \in SUBSET Nat
          OBVIOUS
        <4> HIDE DEF Bad
        <4> QED BY <2>3, <4>1, LeastExists
      <3>2. n \in 1..Len(qs) /\ ~Reads(T, f[n])
        BY <3>1
      <3>3. f[n] = IF n = 1 THEN qs[n] ELSE f[n - 1] \o qs[n]
        BY <2>1, <3>2 DEF Flat
      <3>4. n # 1
        BY <3>2, <3>3
      <3>5. n - 1 \in 1..Len(qs) /\ n - 1 \notin Bad
        BY <1>1, <3>1, <3>2, <3>4
      <3>6. Reads(T, f[n - 1])
        BY <3>5
      <3> QED BY <3>2, <3>3, <3>4, <3>6, ReadsOn
    <2> QED BY <2>2, <2>3
  <1> QED BY <1>2, <1>3

\* The last slash of s is at n; n is 0 where s has none.
SlashAt(s, n) ==
    /\ n \in 0..Len(s)
    /\ n # 0 => s[n] = "/"
    /\ \A i \in 1..Len(s) : n < i => s[i] # "/"

\* There is a last slash, or none.
LEMMA SlashExists ==
    ASSUME NEW T, NEW s \in Seq(T)
    PROVE  \E n : SlashAt(s, n)
  <1> DEFINE C == {n \in 0..Len(s) : \A i \in 1..Len(s) : n < i => s[i] # "/"}
  <1>1. Len(s) \in Nat
    OBVIOUS
  <1>2. Len(s) \in C
    BY <1>1
  <1>3. PICK n \in C : \A m \in C : n <= m
    <2>1. C \in SUBSET Nat /\ C # {}
      BY <1>2
    <2> HIDE DEF C
    <2> QED BY <2>1, LeastExists
  <1>4. n \in 0..Len(s) /\ \A i \in 1..Len(s) : n < i => s[i] # "/"
    BY <1>3
  <1>5. ASSUME n # 0, s[n] # "/" PROVE FALSE
    <2>1. n - 1 \in 0..Len(s) /\ \A i \in 1..Len(s) : n - 1 < i => n < i \/ i = n
      BY <1>1, <1>4, <1>5
    <2>2. n - 1 \in C
      BY <1>4, <1>5, <2>1
    <2>3. n <= n - 1
      BY <1>3, <2>2
    <2> QED BY <1>1, <1>4, <2>3
  <1> QED BY <1>4, <1>5 DEF SlashAt

\* AfterLastSlash takes what follows it.
LEMMA AfterIs ==
    ASSUME NEW T, NEW s \in Seq(T), NEW n, SlashAt(s, n)
    PROVE  AfterLastSlash(s) = SubSeq(s, n + 1, Len(s))
  <1> DEFINE I == {i \in 1..Len(s) : s[i] = "/"}
  <1>1. AfterLastSlash(s) = SubSeq(s, (IF I # {} THEN Max(I) ELSE 0) + 1, Len(s))
    BY DEF AfterLastSlash, SelectLastInSeq
  <1>2. Len(s) \in Nat /\ n \in 0..Len(s)
    BY DEF SlashAt
  <1>3. CASE n = 0
    <2>1. I = {}
      BY <1>2, <1>3 DEF SlashAt
    <2> QED BY <1>1, <1>3, <2>1
  <1>4. CASE n # 0
    <2>1. n \in I
      BY <1>2, <1>4 DEF SlashAt
    <2>2. ASSUME NEW m \in I PROVE m <= n
      BY <1>2 DEF SlashAt
    <2>3. I \in SUBSET Nat
      OBVIOUS
    <2> HIDE DEF I
    <2>4. Max(I) = n
      BY <2>1, <2>2, <2>3, MaxIs
    <2> QED BY <1>1, <2>1, <2>4
  <1> QED BY <1>3, <1>4

\* What comes after the last slash grows with the symbol.
LEMMA AfterOn ==
    ASSUME NEW T, NEW s \in Seq(T), NEW w \in Seq(T), \A i \in 1..Len(w) : w[i] # "/"
    PROVE  AfterLastSlash(s \o w) = AfterLastSlash(s) \o w /\ AfterLastSlash(s) \in Seq(T)
  <1>1. PICK n : SlashAt(s, n)
    BY SlashExists
  <1>2. PICK q : q = s \o w
    OBVIOUS
  <1>3. /\ q \in Seq(T) /\ Len(q) = Len(s) + Len(w)
        /\ \A i \in 1..Len(q) : q[i] = IF i <= Len(s) THEN s[i] ELSE w[i - Len(s)]
    BY <1>2, Joins
  <1>4. Len(s) \in Nat /\ Len(w) \in Nat /\ n \in Nat /\ n <= Len(s)
    BY <1>1 DEF SlashAt
  <1>5. SlashAt(q, n)
    <2>1. n # 0 => q[n] = "/"
      BY <1>1, <1>3, <1>4 DEF SlashAt
    <2>2. ASSUME NEW i \in 1..Len(q), n < i PROVE q[i] # "/"
      <3>1. CASE i <= Len(s)
        BY <1>1, <1>3, <1>4, <2>2, <3>1 DEF SlashAt
      <3>2. CASE ~ (i <= Len(s))
        <4>1. i - Len(s) \in 1..Len(w)
          BY <1>3, <1>4, <3>2
        <4> QED BY <1>3, <3>2, <4>1
      <3> QED BY <3>1, <3>2
    <2> QED BY <1>3, <1>4, <2>1, <2>2 DEF SlashAt
  <1>6. PICK u : u = SubSeq(s, n + 1, Len(s))
    OBVIOUS
  <1>7. /\ u \in Seq(T) /\ Len(u) = Len(s) - n
        /\ \A i \in 1..Len(u) : u[i] = s[n + i]
    <2>1. n + 1 \in Int /\ Len(s) \in Int /\ \A i \in (n + 1)..Len(s) : s[i] \in T
      BY <1>4
    <2>2. /\ u \in Seq(T)
          /\ Len(u) = IF n + 1 <= Len(s) THEN Len(s) - (n + 1) + 1 ELSE 0
          /\ \A i \in 1..(Len(s) - (n + 1) + 1) : u[i] = s[(n + 1) + i - 1]
      BY <1>6, <2>1, SubSeqProperties
    <2> QED BY <1>4, <2>2
  <1>8. PICK v : v = SubSeq(q, n + 1, Len(q))
    OBVIOUS
  <1>9. /\ v \in Seq(T) /\ Len(v) = Len(q) - n
        /\ \A i \in 1..Len(v) : v[i] = q[n + i]
    <2>1. n + 1 \in Int /\ Len(q) \in Int /\ \A i \in (n + 1)..Len(q) : q[i] \in T
      BY <1>3, <1>4
    <2>2. /\ v \in Seq(T)
          /\ Len(v) = IF n + 1 <= Len(q) THEN Len(q) - (n + 1) + 1 ELSE 0
          /\ \A i \in 1..(Len(q) - (n + 1) + 1) : v[i] = q[(n + 1) + i - 1]
      BY <1>8, <2>1, SubSeqProperties
    <2> QED BY <1>3, <1>4, <2>2
  <1>10. PICK x : x = u \o w
    OBVIOUS
  <1>11. /\ x \in Seq(T) /\ Len(x) = Len(u) + Len(w)
         /\ \A i \in 1..Len(x) : x[i] = IF i <= Len(u) THEN u[i] ELSE w[i - Len(u)]
    <2>1. u \in Seq(T)
      BY <1>7
    <2> QED BY <1>10, <2>1, Joins
  <1>12. Len(v) = Len(x)
    BY <1>3, <1>4, <1>7, <1>9, <1>11
  <1>13. ASSUME NEW i \in 1..Len(v) PROVE v[i] = x[i]
    <2>1. n + i \in 1..Len(q) /\ v[i] = q[n + i]
      BY <1>3, <1>4, <1>9
    <2>2. CASE i <= Len(u)
      <3>1. n + i <= Len(s)
        BY <1>4, <1>7, <2>2
      <3> QED BY <1>3, <1>7, <1>11, <1>12, <2>1, <2>2, <3>1
    <2>3. CASE ~ (i <= Len(u))
      <3>1. ~ (n + i <= Len(s)) /\ (n + i) - Len(s) = i - Len(u)
        BY <1>4, <1>7, <2>3
      <3> QED BY <1>3, <1>11, <1>12, <2>1, <2>3, <3>1
    <2> QED BY <2>2, <2>3
  <1>14. v = x
    BY <1>9, <1>11, <1>12, <1>13, SeqEqual
  <1>15. AfterLastSlash(q) = v /\ AfterLastSlash(s) = u
    BY <1>1, <1>3, <1>5, <1>6, <1>8, AfterIs
  <1> QED BY <1>2, <1>7, <1>10, <1>14, <1>15

\* Of the symbol up to s, o is what is left: the last slash's and no brackets.
Left(T, s, o) ==
    /\ s \in Seq(T) /\ o \in Seq(T)
    /\ AfterLastSlash(s) \in Seq(T)
    /\ Leads("unbracket", Outside(<<>>), AfterLastSlash(s), Outside(o))

\* Of an import path there is always something left.
LEMMA LeftOfPath ==
    ASSUME NEW T, NEW s \in Seq(T), \A i \in 1..Len(s) : s[i] \notin {"[", "]"}
    PROVE  \E o : Left(T, s, o)
  <1>1. PICK n : SlashAt(s, n)
    BY SlashExists
  <1>2. Len(s) \in Nat /\ n \in Nat /\ n <= Len(s)
    BY <1>1 DEF SlashAt
  <1>3. PICK u : u = SubSeq(s, n + 1, Len(s))
    OBVIOUS
  <1>4. u \in Seq(T) /\ \A i \in 1..Len(u) : u[i] \notin {"[", "]"}
    <2>1. n + 1 \in Int /\ Len(s) \in Int /\ \A i \in (n + 1)..Len(s) : s[i] \in T
      BY <1>2
    <2>2. /\ u \in Seq(T)
          /\ Len(u) = IF n + 1 <= Len(s) THEN Len(s) - (n + 1) + 1 ELSE 0
          /\ \A i \in 1..(Len(s) - (n + 1) + 1) : u[i] = s[(n + 1) + i - 1]
      BY <1>3, <2>1, SubSeqProperties
    <2>3. ASSUME NEW i \in 1..Len(u) PROVE u[i] \notin {"[", "]"}
      <3>1. i \in 1..(Len(s) - (n + 1) + 1) /\ n + i \in 1..Len(s) /\ (n + 1) + i - 1 = n + i
        BY <1>2, <2>2
      <3> QED BY <2>2, <3>1
    <2> QED BY <2>2, <2>3
  <1>5. AfterLastSlash(s) = u
    BY <1>1, <1>3, AfterIs
  <1>6. <<>> \in Seq(T)
    OBVIOUS
  <1>7. Leads("unbracket", Outside(<<>>), u, Outside(<<>> \o u)) /\ <<>> \o u \in Seq(T)
    BY <1>4, <1>6, WordsAreWritten
  <1> QED BY <1>4, <1>5, <1>7 DEF Left

\* What is read on goes to what is left.
LEMMA LeftOn ==
    ASSUME NEW T, NEW s, NEW o, Left(T, s, o), NEW w \in Seq(T), NEW p \in Seq(T),
           \A i \in 1..Len(w) : w[i] # "/", Leads("unbracket", Outside(o), w, Outside(p))
    PROVE  Left(T, s \o w, p)
  <1>1. /\ s \in Seq(T) /\ AfterLastSlash(s) \in Seq(T)
        /\ Leads("unbracket", Outside(<<>>), AfterLastSlash(s), Outside(o))
    BY DEF Left
  <1>2. AfterLastSlash(s \o w) = AfterLastSlash(s) \o w
    BY <1>1, AfterOn
  <1>3. s \o w \in Seq(T) /\ AfterLastSlash(s) \o w \in Seq(T)
    BY <1>1, ConcatProperties
  <1>4. Leads("unbracket", Outside(<<>>), AfterLastSlash(s) \o w, Outside(p))
    BY <1>1, LeadsOn
  <1> QED BY <1>2, <1>3, <1>4 DEF Left

\* Segments are sequences of tokens, and there is always one.
LEMMA SplitKeeps ==
    ASSUME NEW T, NEW S \in Seq(Seq(T)), Len(S) # 0, NEW x \in T
    PROVE  Token("split", S, x) \in Seq(Seq(T)) /\ Len(Token("split", S, x)) # 0
  <1>1. Len(S) \in Nat /\ Len(S) \in 1..Len(S)
    OBVIOUS
  <1>2. CASE x = "."
    <2>1. Token("split", S, x) = Append(S, <<>>)
      BY <1>2 DEF Token, Split
    <2>2. PICK e : e = <<>>
      OBVIOUS
    <2>3. e \in Seq(T)
      BY <2>2
    <2>4. PICK A : A = Append(S, e)
      OBVIOUS
    <2>5. A \in Seq(Seq(T)) /\ Len(A) = Len(S) + 1
      BY <2>3, <2>4, AppendProperties
    <2>6. Token("split", S, x) = A
      BY <2>1, <2>2, <2>4
    <2>7. Len(S) + 1 # 0
      BY <1>1
    <2> QED BY <2>5, <2>6, <2>7
  <1>3. CASE x # "."
    <2>1. Token("split", S, x) = [S EXCEPT ![Len(S)] = Append(S[Len(S)], x)]
      BY <1>3 DEF Token, Split
    <2>2. S[Len(S)] \in Seq(T)
      BY <1>1
    <2>3. PICK e : e = Append(S[Len(S)], x)
      OBVIOUS
    <2>4. e \in Seq(T)
      BY <2>2, <2>3
    <2>5. [S EXCEPT ![Len(S)] = e] \in Seq(Seq(T)) /\ Len([S EXCEPT ![Len(S)] = e]) = Len(S)
      BY <1>1, <2>4, ExceptSeq
    <2> QED BY <2>1, <2>3, <2>5
  <1> QED BY <1>2, <1>3

LEMMA SegmentsAre ==
    ASSUME NEW T, NEW s \in Seq(T)
    PROVE  Segments(s) \in Seq(Seq(T)) /\ Len(Segments(s)) # 0
  <1>1. Leads("split", << <<>> >>, s, Segments(s))
    BY SplitFolds DEF Segments
  <1>2. PICK F : /\ F[0] = << <<>> >> /\ F[Len(s)] = Segments(s)
                 /\ \A n \in 1..Len(s) : F[n] = Token("split", F[n - 1], s[n])
    BY <1>1 DEF Leads
  <1>3. Len(s) \in Nat
    OBVIOUS
  <1> DEFINE Fine(n) == F[n] \in Seq(Seq(T)) /\ Len(F[n]) # 0
             Bad == {n \in 0..Len(s) : ~Fine(n)}
  <1>4. CASE Bad = {}
    BY <1>2, <1>3, <1>4
  <1>5. CASE Bad # {}
    <2>1. PICK n \in Bad : \A m \in Bad : n <= m
      <3>1. Bad \in SUBSET Nat
        OBVIOUS
      <3> HIDE DEF Bad
      <3> QED BY <1>5, <3>1, LeastExists
    <2>2. n \in 0..Len(s) /\ ~Fine(n)
      BY <2>1
    <2>3. Fine(0)
      <3>1. <<>> \in Seq(T)
        OBVIOUS
      <3>2. << <<>> >> \in Seq(Seq(T)) /\ Len(<< <<>> >>) = 1
        BY <3>1
      <3> QED BY <1>2, <3>2
    <2>4. n \in 1..Len(s) /\ n - 1 \in 0..Len(s)
      <3>1. n # 0
        BY <2>2, <2>3
      <3> QED BY <2>2, <3>1
    <2>5. Fine(n - 1)
      <3>1. n - 1 \notin Bad
        BY <1>3, <2>1, <2>4
      <3> QED BY <2>4, <3>1
    <2>6. F[n] = Token("split", F[n - 1], s[n]) /\ s[n] \in T
      BY <1>2, <2>4
    <2> QED BY <2>2, <2>5, <2>6, SplitKeeps
  <1> QED BY <1>4, <1>5

\* A dot and a word are one segment more.
LEMMA WordIsASegment ==
    ASSUME NEW T, NEW S \in Seq(Seq(T)), NEW x \in T, x # "."
    PROVE  Leads("split", S, <<".", x>>, Append(S, <<x>>))
  <1>1. Len(S) \in Nat /\ <<>> \in Seq(T)
    OBVIOUS
  <1>2. PICK A : A = Append(S, <<>>)
    OBVIOUS
  <1>3. /\ A \in Seq(Seq(T)) /\ Len(A) = Len(S) + 1
        /\ \A i \in 1..Len(S) : A[i] = S[i]
        /\ A[Len(S) + 1] = <<>>
    BY <1>1, <1>2, AppendProperties
  <1>4. Token("split", S, ".") = A
    BY <1>2 DEF Token, Split
  <1>5. Token("split", A, x) = [A EXCEPT ![Len(A)] = Append(A[Len(A)], x)]
    BY DEF Token, Split
  <1>6. Append(A[Len(A)], x) = <<x>> /\ <<x>> \in Seq(T)
    BY <1>3
  <1>7. PICK B : B = [A EXCEPT ![Len(A)] = <<x>>]
    OBVIOUS
  <1>8. Len(A) \in 1..Len(A)
    BY <1>1, <1>3
  <1>9. /\ B \in Seq(Seq(T)) /\ Len(B) = Len(A)
        /\ \A i \in 1..Len(A) : B[i] = IF i = Len(A) THEN <<x>> ELSE A[i]
    BY <1>3, <1>6, <1>7, <1>8, ExceptSeq
  <1>10. PICK D : D = Append(S, <<x>>)
    OBVIOUS
  <1>11. /\ D \in Seq(Seq(T)) /\ Len(D) = Len(S) + 1
         /\ \A i \in 1..Len(S) : D[i] = S[i]
         /\ D[Len(S) + 1] = <<x>>
    BY <1>6, <1>10, AppendProperties
  <1>12. B = D
    <2>1. ASSUME NEW i \in 1..Len(B) PROVE B[i] = D[i]
      <3>1. CASE i = Len(A)
        BY <1>3, <1>9, <1>11, <2>1, <3>1
      <3>2. CASE i # Len(A)
        <4>1. i \in 1..Len(S) /\ i \in 1..Len(A)
          BY <1>1, <1>3, <1>9, <3>2
        <4> QED BY <1>3, <1>9, <1>11, <3>2, <4>1
      <3> QED BY <3>1, <3>2
    <2>2. Len(B) = Len(D)
      BY <1>3, <1>9, <1>11
    <2> QED BY <1>9, <1>11, <2>1, <2>2, SeqEqual
  <1>13. Token("split", A, x) = D
    BY <1>5, <1>6, <1>7, <1>12
  <1> DEFINE F == [n \in 0..2 |-> IF n = 0 THEN S ELSE IF n = 1 THEN A ELSE D]
  <1>14. F[0] = S /\ F[1] = A /\ F[2] = D
    OBVIOUS
  <1>15. Len(<<".", x>>) = 2 /\ <<".", x>>[1] = "." /\ <<".", x>>[2] = x
    OBVIOUS
  <1> HIDE DEF F
  <1>16. ASSUME NEW n \in 1..2 PROVE F[n] = Token("split", F[n - 1], <<".", x>>[n])
    <2>1. CASE n = 1
      <3>1. n - 1 = 0
        BY <2>1
      <3> QED BY <1>4, <1>14, <1>15, <2>1, <3>1
    <2>2. CASE n = 2
      <3>1. n - 1 = 1
        BY <2>2
      <3> QED BY <1>13, <1>14, <1>15, <2>2, <3>1
    <2> QED BY <2>1, <2>2
  <1> QED BY <1>10, <1>14, <1>15, <1>16 DEF Leads

\* A sequence of two.
LEMMA PairIs ==
    ASSUME NEW T, NEW a \in T, NEW b \in T, NEW p, p = <<a, b>>
    PROVE  p \in Seq(T) /\ Len(p) = 2 /\ p[1] = a /\ p[2] = b
  OBVIOUS

\* The suffix of closures within closures.
Suffix(c) == FlattenSeq([i \in 1..Len(c) |-> <<".", c[i]>>])

\* The segments S and one for each of the first n closures.
Nested(S, c, n) == S \o [i \in 1..n |-> <<c[i]>>]

Word(x) == x \notin {"/", ".", "[", "]", "-fm"}

\* Closures' names are plain, the last is a word, and each is one segment more.
LEMMA ClosuresAreSegments ==
    ASSUME NEW T, "." \in T, NEW c \in Seq(T), \A i \in 1..Len(c) : Word(c[i]),
           NEW S \in Seq(Seq(T)), Len(c) # 0
    PROVE  /\ Suffix(c) \in Seq(T) /\ Plain(Suffix(c))
           /\ Len(Suffix(c)) # 0 /\ Suffix(c)[Len(Suffix(c))] # "-fm"
           /\ Leads("split", S, Suffix(c), Nested(S, c, Len(c)))
  <1> DEFINE qs == [i \in 1..Len(c) |-> <<".", c[i]>>]
  <1>1. Len(c) \in Nat /\ Len(qs) = Len(c) /\ \A i \in 1..Len(c) : qs[i] = <<".", c[i]>> /\ c[i] \in T
    OBVIOUS
  <1>2. Suffix(c) = FlattenSeq(qs)
    BY DEF Suffix
  <1> HIDE DEF qs
  <1>3. PICK f : Flat(f, qs, Len(qs)) /\ FlattenSeq(qs) = f[Len(qs)]
    BY <1>1, FlattenIs
  <1> DEFINE Fine(n) == /\ f[n] \in Seq(T) /\ Plain(f[n])
                        /\ Len(f[n]) # 0 /\ f[n][Len(f[n])] # "-fm"
                        /\ Leads("split", S, f[n], Nested(S, c, n))
             Bad == {n \in 1..Len(c) : ~Fine(n)}
  <1>4. ASSUME NEW n \in 1..Len(c)
        PROVE  /\ qs[n] \in Seq(T) /\ Len(qs[n]) = 2 /\ qs[n][1] = "." /\ qs[n][2] = c[n]
               /\ Word(c[n]) /\ Plain(qs[n])
    <2>1. qs[n] \in Seq(T) /\ Len(qs[n]) = 2 /\ qs[n][1] = "." /\ qs[n][2] = c[n] /\ Word(c[n])
      <3>1. qs[n] = <<".", c[n]>> /\ c[n] \in T
        BY <1>1
      <3>2. Word(c[n])
        OBVIOUS
      <3> QED BY <3>1, <3>2, PairIs
    <2>2. ASSUME NEW i \in 1..2 PROVE qs[n][i] \notin {"/", "[", "]"}
      BY <2>1 DEF Word
    <2> QED BY <2>1, <2>2 DEF Plain
  <1>5. Fine(1)
    <2>1. 1 \in 1..Len(c)
      BY <1>1
    <2>2. f[1] = qs[1]
      BY <1>1, <1>3, <2>1 DEF Flat
    <2>3. Leads("split", S, <<".", c[1]>>, Append(S, <<c[1]>>))
      <3>1. c[1] \in T /\ c[1] # "."
        BY <1>1, <2>1 DEF Word
      <3> QED BY <3>1, WordIsASegment
    <2>4. Nested(S, c, 1) = Append(S, <<c[1]>>)
      <3>1. [i \in 1..1 |-> <<c[i]>>] = << <<c[1]>> >>
        OBVIOUS
      <3>2. << <<c[1]>> >> \in Seq(Seq(T)) /\ <<c[1]>> \in Seq(T)
        BY <1>1, <2>1
      <3>3. S \o << <<c[1]>> >> = Append(S, <<c[1]>>)
        BY <3>2, AppendIsConcat
      <3> QED BY <3>1, <3>3 DEF Nested
    <2>5. qs[1] = <<".", c[1]>> /\ qs[1][Len(qs[1])] # "-fm" /\ Len(qs[1]) # 0
      <3>1. Len(qs[1]) = 2 /\ qs[1][2] = c[1] /\ c[1] # "-fm"
        BY <1>4, <2>1 DEF Word
      <3> QED BY <1>1, <2>1, <3>1
    <2> QED BY <1>4, <2>1, <2>2, <2>3, <2>4, <2>5
  <1>6. ASSUME NEW n \in 1..Len(c), n # 1, Fine(n - 1) PROVE Fine(n)
    <2>1. n \in Nat /\ n - 1 \in 1..Len(c)
      BY <1>1, <1>6
    <2>2. f[n] = f[n - 1] \o qs[n]
      BY <1>1, <1>3, <1>6 DEF Flat
    <2>3. PICK u : u = f[n]
      OBVIOUS
    <2>4. PICK v : v = f[n - 1]
      OBVIOUS
    <2>5. v \in Seq(T) /\ Plain(v) /\ Len(v) # 0 /\ Leads("split", S, v, Nested(S, c, n - 1))
      BY <1>6, <2>4
    <2>6. /\ u \in Seq(T) /\ Len(u) = Len(v) + 2
          /\ \A i \in 1..Len(u) : u[i] = IF i <= Len(v) THEN v[i] ELSE qs[n][i - Len(v)]
      <3>1. v \in Seq(T) /\ qs[n] \in Seq(T) /\ Len(qs[n]) = 2 /\ u = v \o qs[n]
        BY <1>4, <2>2, <2>3, <2>4, <2>5
      <3>2. PICK w : w = qs[n]
        OBVIOUS
      <3>3. /\ u \in Seq(T) /\ Len(u) = Len(v) + Len(w)
            /\ \A i \in 1..Len(u) : u[i] = IF i <= Len(v) THEN v[i] ELSE w[i - Len(v)]
        BY ONLY <3>1, <3>2, Joins
      <3> QED BY <3>1, <3>2, <3>3
    <2>7. Len(v) \in Nat
      BY <2>5
    <2>8. Plain(u)
      <3>1. ASSUME NEW i \in 1..Len(u) PROVE u[i] \notin {"/", "[", "]"}
        <4>1. CASE i <= Len(v)
          <5>1. i \in 1..Len(v)
            BY <2>6, <2>7, <4>1
          <5> QED BY <2>5, <2>6, <4>1, <5>1 DEF Plain
        <4>2. CASE ~ (i <= Len(v))
          <5>1. i - Len(v) \in 1..Len(qs[n])
            BY <1>4, <2>6, <2>7, <4>2
          <5> QED BY <1>4, <2>6, <4>2, <5>1 DEF Plain
        <4> QED BY <4>1, <4>2
      <3> QED BY <3>1 DEF Plain
    <2>9. Len(u) # 0 /\ u[Len(u)] # "-fm"
      <3>1. Len(u) \in 1..Len(u) /\ ~ (Len(u) <= Len(v)) /\ Len(u) - Len(v) = 2
        BY <2>6, <2>7
      <3>2. u[Len(u)] = qs[n][2]
        BY <2>6, <3>1
      <3> QED BY <1>4, <3>1, <3>2 DEF Word
    <2> DEFINE g == [i \in 1..(n - 1) |-> <<c[i]>>]
               h == [i \in 1..n |-> <<c[i]>>]
    <2>10. g \in Seq(Seq(T)) /\ h = Append(g, <<c[n]>>) /\ <<c[n]>> \in Seq(T)
      <3>1. \A i \in 1..n : <<c[i]>> \in Seq(T)
        BY <1>1, <2>1
      <3>2. g \in Seq(Seq(T)) /\ Len(g) = n - 1 /\ \A i \in 1..(n - 1) : g[i] = <<c[i]>>
        BY <2>1, <3>1
      <3>3. h \in Seq(Seq(T)) /\ Len(h) = n /\ \A i \in 1..n : h[i] = <<c[i]>>
        BY <2>1, <3>1
      <3> HIDE DEF g, h
      <3>4. PICK k : k = Append(g, <<c[n]>>)
        OBVIOUS
      <3>5. <<c[n]>> \in Seq(T)
        BY <2>1, <3>1
      <3>6. /\ k \in Seq(Seq(T)) /\ Len(k) = Len(g) + 1
            /\ \A i \in 1..Len(g) : k[i] = g[i]
            /\ k[Len(g) + 1] = <<c[n]>>
        BY <3>2, <3>4, <3>5, AppendProperties
      <3>7. ASSUME NEW i \in 1..Len(h) PROVE h[i] = k[i]
        <4>1. i \in 1..(n - 1) \/ i = n
          BY <2>1, <3>3
        <4>2. CASE i \in 1..(n - 1)
          <5>1. i \in 1..n /\ i \in 1..Len(g)
            BY <2>1, <3>2, <4>2
          <5> QED BY <3>2, <3>3, <3>6, <4>2, <5>1
        <4>3. CASE i = n
          <5>1. n \in 1..n /\ Len(g) + 1 = n
            BY <2>1, <3>2
          <5> QED BY <3>3, <3>6, <4>3, <5>1
        <4> QED BY <4>1, <4>2, <4>3
      <3>8. Len(h) = Len(k)
        BY <2>1, <3>2, <3>3, <3>6
      <3>9. h = k
        BY <3>3, <3>6, <3>7, <3>8, SeqEqual
      <3> QED BY <3>2, <3>4, <3>5, <3>9
    <2>11. Nested(S, c, n - 1) = S \o g /\ Nested(S, c, n) = S \o h
      BY DEF Nested
    <2> HIDE DEF g, h
    <2>12. S \o h = Append(S \o g, <<c[n]>>) /\ S \o g \in Seq(Seq(T))
      <3>1. S \o g \in Seq(Seq(T))
        BY <2>10, ConcatProperties
      <3>2. << <<c[n]>> >> \in Seq(Seq(T))
        BY <2>10
      <3>3. h = g \o << <<c[n]>> >>
        BY <2>10, AppendIsConcat
      <3>4. (S \o g) \o << <<c[n]>> >> = S \o (g \o << <<c[n]>> >>)
        BY <2>10, <3>2, ConcatAssociative
      <3>5. Append(S \o g, <<c[n]>>) = (S \o g) \o << <<c[n]>> >>
        BY <2>10, <3>1, AppendIsConcat
      <3> QED BY <3>1, <3>3, <3>4, <3>5
    <2>13. Leads("split", Nested(S, c, n - 1), <<".", c[n]>>, Nested(S, c, n))
      <3>1. c[n] \in T /\ c[n] # "."
        BY <1>1, <1>6 DEF Word
      <3> QED BY <2>11, <2>12, <3>1, WordIsASegment
    <2>14. Leads("split", S, v \o qs[n], Nested(S, c, n))
      <3>1. qs[n] = <<".", c[n]>> /\ qs[n] \in Seq(T)
        BY <1>1, <1>4
      <3> QED BY <2>5, <2>13, <3>1, LeadsOn
    <2> QED BY <2>2, <2>3, <2>4, <2>6, <2>8, <2>9, <2>14
  <1>7. Fine(Len(c))
    <2>1. CASE Bad = {}
      <3>1. Len(c) \in 1..Len(c) /\ Len(c) \notin Bad
        BY <1>1, <2>1
      <3> QED BY <3>1
    <2>2. CASE Bad # {}
      <3>1. PICK n \in Bad : \A m \in Bad : n <= m
        <4>1. Bad \in SUBSET Nat
          OBVIOUS
        <4> HIDE DEF Bad
        <4> QED BY <2>2, <4>1, LeastExists
      <3>2. n \in 1..Len(c) /\ ~Fine(n)
        BY <3>1
      <3>3. n # 1
        BY <1>5, <3>2
      <3>4. n - 1 \in 1..Len(c) /\ n - 1 \notin Bad
        <4>1. n - 1 \in 1..Len(c)
          BY <1>1, <3>2, <3>3
        <4>2. n \in Nat /\ ~ (n <= n - 1)
          BY <3>2
        <4> HIDE DEF Bad
        <4> QED BY <3>1, <4>1, <4>2
      <3>5. Fine(n - 1)
        BY <3>4
      <3> HIDE DEF Fine
      <3> QED BY <1>6, <3>2, <3>3, <3>5
    <2> QED BY <2>1, <2>2
  <1> QED BY <1>1, <1>2, <1>3, <1>7

\* A suffix of closures is plain, whatever there are.
LEMMA SuffixIs ==
    ASSUME NEW T, "." \in T, NEW c \in Seq(T), \A i \in 1..Len(c) : Word(c[i])
    PROVE  /\ Suffix(c) \in Seq(T) /\ Plain(Suffix(c))
           /\ Len(c) = 0 => Suffix(c) = <<>>
           /\ Len(c) # 0 => Len(Suffix(c)) # 0 /\ Suffix(c)[Len(Suffix(c))] # "-fm"
  <1>1. CASE Len(c) # 0
    <2>1. <<>> \in Seq(Seq(T))
      OBVIOUS
    <2> QED BY <1>1, <2>1, ClosuresAreSegments
  <1>2. CASE Len(c) = 0
    <2> DEFINE e == [i \in 1..Len(c) |-> <<".", c[i]>>]
    <2>1. e = <<>> /\ Len(e) = 0
      BY <1>2
    <2>2. Suffix(c) = <<>>
      <3>1. FlattenSeq(e) = e
        BY <2>1 DEF FlattenSeq
      <3> QED BY <2>1, <3>1 DEF Suffix
    <2>3. <<>> \in Seq(T) /\ Plain(<<>>)
      BY DEF Plain
    <2> QED BY <1>2, <2>2, <2>3
  <1> QED BY <1>1, <1>2

\* A receiver's words: without brackets, or with its type arguments between.
Receiver(T, w) ==
    \/ w \in Seq(T) /\ Plain(w)
    \/ \E x, y \in Seq(T) : Plain(x) /\ Plain(y) /\ w = (x \o Brackets) \o y

\* A receiver in a symbol is a part with every bracket closed.
LEMMA ReceiverReads ==
    ASSUME NEW T, {"[", ".", "]"} \subseteq T, NEW w, Receiver(T, w)
    PROVE  Reads(T, <<".">> \o w)
  <1>1. Brackets \in Seq(T)
    BY DEF Brackets
  <1>2. \A i \in 1..Len(Brackets) : Brackets[i] # "/"
    <2>1. ASSUME NEW i \in 1..5 PROVE Brackets[i] # "/"
      BY DEF Brackets
    <2>2. Len(Brackets) = 5
      BY DEF Brackets
    <2> QED BY <2>1, <2>2
  <1>3. ASSUME NEW o \in Seq(T)
        PROVE  \E p \in Seq(T) : Leads("unbracket", Outside(o), Brackets, Outside(p))
    BY BracketsAreDropped
  <1>4. Reads(T, Brackets)
    BY <1>1, <1>2, <1>3 DEF Reads
  <1>5. Reads(T, <<".">>)
    <2>1. <<".">> \in Seq(T) /\ Len(<<".">>) = 1 /\ <<".">>[1] = "."
      OBVIOUS
    <2>2. Plain(<<".">>)
      BY <2>1 DEF Plain
    <2> QED BY <2>1, <2>2, PlainReads
  <1>6. CASE w \in Seq(T) /\ Plain(w)
    BY <1>5, <1>6, PlainReads, ReadsOn
  <1>7. ASSUME NEW x \in Seq(T), NEW y \in Seq(T), Plain(x), Plain(y), w = (x \o Brackets) \o y
        PROVE  Reads(T, <<".">> \o w)
    <2>1. Reads(T, x) /\ Reads(T, y)
      BY <1>7, PlainReads
    <2>2. Reads(T, x \o Brackets)
      BY <1>4, <2>1, ReadsOn
    <2>3. Reads(T, w)
      BY <1>7, <2>1, <2>2, ReadsOn
    <2> QED BY <1>5, <2>3, ReadsOn
  <1> QED BY <1>6, <1>7 DEF Receiver

\* After S come the function's segment and those of closures in it.
LEMMA FunctionSegmentIs ==
    ASSUME NEW T, NEW S \in Seq(Seq(T)), NEW x \in T, x \notin Ordinals,
           NEW c \in Seq(T), \A i \in 1..Len(c) : c[i] \in Ordinals
    PROVE  FunctionSegment(Nested(Append(S, <<x>>), c, Len(c))) = <<x>>
  <1>1. Len(S) \in Nat /\ Len(c) \in Nat /\ <<x>> \in Seq(T)
    OBVIOUS
  <1>2. PICK A : A = Append(S, <<x>>)
    OBVIOUS
  <1>3. A \in Seq(Seq(T)) /\ Len(A) = Len(S) + 1 /\ A[Len(S) + 1] = <<x>>
    BY <1>1, <1>2, AppendProperties
  <1>4. PICK h : h = [i \in 1..Len(c) |-> <<c[i]>>]
    OBVIOUS
  <1>5. h \in Seq(Seq(T)) /\ Len(h) = Len(c) /\ \A i \in 1..Len(c) : h[i] = <<c[i]>>
    <2>1. \A i \in 1..Len(c) : <<c[i]>> \in Seq(T)
      OBVIOUS
    <2> QED BY <1>1, <1>4, <2>1
  <1>6. PICK N : N = A \o h
    OBVIOUS
  <1>7. /\ N \in Seq(Seq(T)) /\ Len(N) = Len(A) + Len(h)
        /\ \A i \in 1..Len(N) : N[i] = IF i <= Len(A) THEN A[i] ELSE h[i - Len(A)]
    <2>1. A \in Seq(Seq(T)) /\ h \in Seq(Seq(T))
      BY <1>3, <1>5
    <2> QED BY ONLY <1>6, <2>1, Joins
  <1>8. PICK n : n = Len(S) + 1
    OBVIOUS
  <1>9. n \in Nat /\ n # 0 /\ n \in 1..Len(N) /\ N[n] = <<x>>
    <2>1. n \in Nat /\ n # 0 /\ n \in 1..Len(N) /\ n <= Len(A)
      BY <1>1, <1>3, <1>5, <1>7, <1>8
    <2> QED BY <1>3, <1>7, <1>8, <2>1
  <1> DEFINE I == {i \in 1..Len(N) : ~IsClosureOrdinal(N[i])}
  <1>10. n \in I
    <2>1. ~IsClosureOrdinal(<<x>>)
      BY DEF IsClosureOrdinal
    <2> QED BY <1>9, <2>1
  <1>11. ASSUME NEW m \in I PROVE m <= n
    <2>1. m \in 1..Len(N) /\ ~IsClosureOrdinal(N[m])
      OBVIOUS
    <2>2. SUFFICES ASSUME ~ (m <= n) PROVE FALSE
      OBVIOUS
    <2>3. PICK j : j = m - Len(A)
      OBVIOUS
    <2>4. j \in 1..Len(c) /\ ~ (m <= Len(A))
      BY <1>1, <1>3, <1>5, <1>7, <1>8, <2>1, <2>2, <2>3
    <2>5. N[m] = <<c[j]>> /\ c[j] \in Ordinals
      BY <1>5, <1>7, <2>1, <2>3, <2>4
    <2>6. Len(<<c[j]>>) = 1 /\ <<c[j]>>[1] = c[j]
      OBVIOUS
    <2>7. IsClosureOrdinal(N[m])
      BY <2>5, <2>6 DEF IsClosureOrdinal
    <2> QED BY <2>1, <2>7
  <1>12. I \in SUBSET Nat
    OBVIOUS
  <1>13. FunctionSegment(N) = LET k == IF I # {} THEN Max(I) ELSE 0 IN IF k = 0 THEN N[1] ELSE N[k]
    BY Zenon DEF FunctionSegment, SelectLastInSeq
  <1> HIDE DEF I
  <1>14. Max(I) = n /\ I # {}
    BY <1>10, <1>11, <1>12, MaxIs
  <1>15. FunctionSegment(N) = <<x>>
    BY <1>9, <1>13, <1>14
  <1>16. N = Nested(Append(S, <<x>>), c, Len(c))
    BY <1>2, <1>4, <1>6 DEF Nested
  <1> QED BY <1>15, <1>16

\* The segments of o2, the function's and its closures'.
LEMMA SegmentsOfNested ==
    ASSUME NEW T, "." \in T, NEW o \in Seq(T), NEW x \in T, Word(x), x \notin Ordinals,
           NEW c \in Seq(T), \A i \in 1..Len(c) : c[i] \in Ordinals /\ Word(c[i])
    PROVE  FunctionSegment(Segments((o \o <<".", x>>) \o Suffix(c))) = <<x>>
  <1>1. PICK S : S = Segments(o)
    OBVIOUS
  <1>2. S \in Seq(Seq(T)) /\ Leads("split", << <<>> >>, o, S)
    BY <1>1, SegmentsAre, SplitFolds DEF Segments
  <1>3. <<".", x>> \in Seq(T) /\ x # "."
    BY DEF Word
  <1>4. PICK A : A = Append(S, <<x>>)
    OBVIOUS
  <1>5. Leads("split", S, <<".", x>>, A) /\ A \in Seq(Seq(T))
    <2>1. <<x>> \in Seq(T)
      OBVIOUS
    <2> QED BY <1>2, <1>3, <1>4, <2>1, WordIsASegment, AppendProperties
  <1>6. PICK u : u = o \o <<".", x>>
    OBVIOUS
  <1>7. u \in Seq(T) /\ Leads("split", << <<>> >>, u, A)
    <2>1. PICK d : d = <<".", x>>
      OBVIOUS
    <2>2. o \in Seq(T) /\ d \in Seq(T) /\ Leads("split", S, d, A) /\ u = o \o d
      BY <1>3, <1>5, <1>6, <2>1
    <2>3. Leads("split", << <<>> >>, o \o d, A)
      BY <1>2, <2>2, LeadsOn
    <2>4. o \o d \in Seq(T)
      BY <2>2, ConcatProperties
    <2> QED BY <2>2, <2>3, <2>4
  <1>8. Suffix(c) \in Seq(T) /\ Leads("split", A, Suffix(c), Nested(A, c, Len(c)))
    <2>1. CASE Len(c) # 0
      BY <1>5, <2>1, ClosuresAreSegments
    <2>2. CASE Len(c) = 0
      <3>2. Suffix(c) = <<>>
        BY <2>2, SuffixIs
      <3>3. [i \in 1..Len(c) |-> <<c[i]>>] = <<>>
        BY <2>2
      <3>4. Nested(A, c, Len(c)) = A
        BY <1>5, <3>3, ConcatEmptySeq DEF Nested
      <3>5. Leads("split", A, <<>>, A)
        <4> DEFINE F == [n \in {0} |-> A]
        <4>1. F[0] = A /\ Len(<<>>) = 0
          OBVIOUS
        <4>2. \A n \in 1..Len(<<>>) : F[n] = Token("split", F[n - 1], <<>>[n])
          OBVIOUS
        <4> HIDE DEF F
        <4> QED BY <4>1, <4>2 DEF Leads
      <3>6. <<>> \in Seq(T)
        OBVIOUS
      <3> QED BY <3>2, <3>4, <3>5, <3>6
    <2> QED BY <2>1, <2>2
  <1>9. PICK w : w = u \o Suffix(c)
    OBVIOUS
  <1>10. w \in Seq(T) /\ Leads("split", << <<>> >>, w, Nested(A, c, Len(c)))
    BY <1>7, <1>8, <1>9, LeadsOn
  <1>11. Leads("split", << <<>> >>, w, Segments(w))
    BY <1>10, SplitFolds DEF Segments
  <1>12. Segments(w) = Nested(A, c, Len(c))
    <2>1. Len(w) \in Nat
      BY <1>10
    <2> QED BY <1>10, <1>11, <2>1, LeadsToOne
  <1>13. FunctionSegment(Nested(A, c, Len(c))) = <<x>>
    BY <1>2, <1>4, FunctionSegmentIs
  <1> QED BY <1>6, <1>9, <1>12, <1>13

\* A function's symbol has words between separators; the compiler names closures
\* with words no function declared in the source has.
Named(f) ==
    \E T : /\ {"/", ".", "[", "]", "-fm"} \subseteq T
           /\ f.path \in Seq(T) /\ \A i \in 1..Len(f.path) : f.path[i] \notin {"[", "]"}
           /\ \E R : f.receiver \in Seq(R) /\ \A i \in 1..Len(f.receiver) : Receiver(T, f.receiver[i])
           /\ f.name \in T /\ Word(f.name) /\ f.name \notin Ordinals
           /\ f.closures \in Seq(T)
           /\ \A i \in 1..Len(f.closures) : f.closures[i] \in Ordinals /\ Word(f.closures[i])

\* A method value's suffix goes, and nothing else.
LEMMA MethodValueDropped ==
    ASSUME NEW T, NEW s \in Seq(T), Len(s) # 0, s[Len(s)] # "-fm"
    PROVE  WithoutMethodValue(s) = s /\ WithoutMethodValue(s \o <<"-fm">>) = s
  <1>1. Len(s) \in Nat
    OBVIOUS
  <1>2. WithoutMethodValue(s) = s
    BY DEF WithoutMethodValue, Last
  <1>3. PICK U : T \subseteq U /\ "-fm" \in U
    <2>1. T \subseteq T \cup {"-fm"} /\ "-fm" \in T \cup {"-fm"}
      OBVIOUS
    <2> QED BY <2>1
  <1>4. s \in Seq(U)
    BY <1>3
  <1>5. PICK v : v = s \o <<"-fm">>
    OBVIOUS
  <1>6. /\ v \in Seq(U) /\ Len(v) = Len(s) + 1
        /\ \A i \in 1..Len(v) : v[i] = IF i <= Len(s) THEN s[i] ELSE "-fm"
    BY <1>3, <1>4, <1>5, JoinsOne
  <1>7. v[Len(v)] = "-fm" /\ v # <<>>
    BY <1>1, <1>6
  <1>8. WithoutMethodValue(v) = SubSeq(v, 1, Len(v) - 1)
    BY <1>7 DEF WithoutMethodValue, Last, Front
  <1>9. PICK w : w = SubSeq(v, 1, Len(v) - 1)
    OBVIOUS
  <1>10. /\ w \in Seq(U) /\ Len(w) = Len(s)
         /\ \A i \in 1..Len(s) : w[i] = v[i]
    <2>1. 1 \in Int /\ Len(v) - 1 \in Int /\ \A i \in 1..(Len(v) - 1) : v[i] \in U
      BY <1>1, <1>6
    <2>2. /\ w \in Seq(U)
          /\ Len(w) = IF 1 <= Len(v) - 1 THEN (Len(v) - 1) - 1 + 1 ELSE 0
          /\ \A i \in 1..((Len(v) - 1) - 1 + 1) : w[i] = v[1 + i - 1]
      BY <1>9, <2>1, SubSeqProperties
    <2> QED BY <1>1, <1>6, <2>2
  <1>11. \A i \in 1..Len(w) : w[i] = s[i]
    BY <1>1, <1>6, <1>10
  <1>12. w = s
    BY <1>4, <1>10, <1>11, SeqEqual
  <1> QED BY <1>2, <1>5, <1>8, <1>9, <1>12

\* What is left of a symbol without the import path and the brackets, or with a plain
\* part more.
LEMMA LeftWithPlain ==
    ASSUME NEW T, NEW s, NEW o, Left(T, s, o), NEW w \in Seq(T), Plain(w)
    PROVE  Left(T, s \o w, o \o w)
  <1>1. \A i \in 1..Len(w) : w[i] # "/" /\ w[i] \notin {"[", "]"}
    BY DEF Plain
  <1>2. o \in Seq(T)
    BY DEF Left
  <1>3. Leads("unbracket", Outside(o), w, Outside(o \o w)) /\ o \o w \in Seq(T)
    BY <1>1, <1>2, WordsAreWritten
  <1> QED BY <1>1, <1>3, LeftOn

\* Or with any part in which every bracket is closed.
LEMMA LeftWithPart ==
    ASSUME NEW T, NEW s, NEW o, Left(T, s, o), NEW w, Reads(T, w)
    PROVE  \E p : Left(T, s \o w, p)
  <1>1. w \in Seq(T) /\ \A i \in 1..Len(w) : w[i] # "/"
    BY DEF Reads
  <1>2. PICK p \in Seq(T) : Leads("unbracket", Outside(o), w, Outside(p))
    BY DEF Left, Reads
  <1> QED BY <1>1, <1>2, LeftOn

\* It is what bareName goes on with.
LEMMA LeftIs ==
    ASSUME NEW T, NEW s, NEW o, Left(T, s, o)
    PROVE  WithoutBrackets(AfterLastSlash(s)) = o
  <1>1. PICK u : u = AfterLastSlash(s)
    OBVIOUS
  <1>2. u \in Seq(T) /\ Leads("unbracket", Outside(<<>>), u, Outside(o)) /\ Len(u) \in Nat
    BY <1>1 DEF Left
  <1>3. Leads("unbracket", Outside(<<>>), u, FoldLeft(Unbracket, Outside(<<>>), u))
    BY <1>2, UnbracketFolds
  <1>4. FoldLeft(Unbracket, Outside(<<>>), u) = Outside(o)
    BY <1>2, <1>3, LeadsToOne
  <1>5. WithoutBrackets(u) = FoldLeft(Unbracket, Outside(<<>>), u).out
    BY DEF WithoutBrackets, Outside
  <1>6. Outside(o).out = o
    BY DEF Outside
  <1> QED BY <1>1, <1>4, <1>5, <1>6

\* The bare name of a function, a method, a closure in either or a method value,
\* generic or not, is the function's own: its import path, receiver, type arguments
\* and closures are dropped, however long (do.go bareName).
THEOREM BareNameFinds ==
    ASSUME NEW f, Named(f)
    PROVE  BareName(Symbol(f)) = <<f.name>>
  <1>1. PICK T :
          /\ {"/", ".", "[", "]", "-fm"} \subseteq T
          /\ f.path \in Seq(T) /\ \A i \in 1..Len(f.path) : f.path[i] \notin {"[", "]"}
          /\ \E R : f.receiver \in Seq(R) /\ \A i \in 1..Len(f.receiver) : Receiver(T, f.receiver[i])
          /\ f.name \in T /\ Word(f.name) /\ f.name \notin Ordinals
          /\ f.closures \in Seq(T)
          /\ \A i \in 1..Len(f.closures) : f.closures[i] \in Ordinals /\ Word(f.closures[i])
    BY DEF Named
  <1>2. PICK R : f.receiver \in Seq(R) /\ \A i \in 1..Len(f.receiver) : Receiver(T, f.receiver[i])
    BY <1>1
  <1>3. PICK x : x = f.name
    OBVIOUS
  <1>4. PICK c : c = f.closures
    OBVIOUS
  <1>5. /\ x \in T /\ Word(x) /\ x \notin Ordinals
        /\ c \in Seq(T) /\ \A i \in 1..Len(c) : c[i] \in Ordinals /\ Word(c[i])
        /\ "." \in T /\ "-fm" \in T /\ {"[", ".", "]"} \subseteq T
    BY <1>1, <1>3, <1>4
  <1> DEFINE qs == [i \in 1..Len(f.receiver) |-> <<".">> \o f.receiver[i]]
  <1>6. PICK r : r = FlattenSeq(qs)
    OBVIOUS
  <1>7. Reads(T, r)
    <2>1. Len(f.receiver) \in Nat
      BY <1>2
    <2>2. \A i \in 1..Len(f.receiver) : Reads(T, <<".">> \o f.receiver[i])
      BY <1>2, <1>5, ReceiverReads
    <2>3. \A i \in 1..Len(f.receiver) : <<".">> \o f.receiver[i] \in Seq(T)
      BY <2>2 DEF Reads
    <2>4. qs \in Seq(Seq(T)) /\ Len(qs) = Len(f.receiver)
          /\ \A i \in 1..Len(f.receiver) : qs[i] = <<".">> \o f.receiver[i]
      BY <2>1, <2>3
    <2> HIDE DEF qs
    <2>5. \A i \in 1..Len(qs) : Reads(T, qs[i])
      BY <2>2, <2>4
    <2> QED BY <1>6, <2>4, <2>5, FlatReads
  <1> HIDE DEF qs
  <1>8. PICK d : d = <<".", x>>
    OBVIOUS
  <1>9. d \in Seq(T) /\ Len(d) = 2 /\ d[1] = "." /\ d[2] = x /\ Plain(d)
    <2>1. d \in Seq(T) /\ Len(d) = 2 /\ d[1] = "." /\ d[2] = x
      BY <1>5, <1>8, PairIs
    <2>2. ASSUME NEW i \in 1..2 PROVE d[i] \notin {"/", "[", "]"}
      BY <1>5, <2>1 DEF Word
    <2> QED BY <2>1, <2>2 DEF Plain
  <1>10. PICK g : g = IF f.generic THEN Brackets ELSE <<>>
    OBVIOUS
  <1>11. PICK m : m = IF f.value THEN <<"-fm">> ELSE <<>>
    OBVIOUS
  <1>12. Symbol(f) = ((((f.path \o r) \o d) \o g) \o Suffix(c)) \o m
    <2>1. DOMAIN f.receiver = 1..Len(f.receiver) /\ DOMAIN c = 1..Len(c)
      BY <1>2, <1>5
    <2>2. r = FlattenSeq([i \in DOMAIN f.receiver |-> <<".">> \o f.receiver[i]])
      BY <1>6, <2>1 DEF qs
    <2>3. Suffix(c) = FlattenSeq([i \in DOMAIN f.closures |-> <<".", f.closures[i]>>])
      BY <1>4, <2>1 DEF Suffix
    <2> QED BY <1>3, <1>8, <1>10, <1>11, <2>2, <2>3, Zenon DEF Symbol, Brackets
  <1>13. PICK o1 : Left(T, f.path, o1)
    BY <1>1, LeftOfPath
  <1>14. PICK o2 : Left(T, f.path \o r, o2)
    BY <1>7, <1>13, LeftWithPart
  <1>15. PICK s : s = (f.path \o r) \o d
    OBVIOUS
  <1>16. PICK u : u = o2 \o d
    OBVIOUS
  <1>17. Left(T, s, u)
    BY <1>9, <1>14, <1>15, <1>16, LeftWithPlain
  <1>18. Left(T, s \o g, u)
    <2>1. CASE f.generic
      <3>1. g = Brackets /\ Brackets \in Seq(T)
        BY <1>5, <1>10, <2>1 DEF Brackets
      <3>2. Len(Brackets) = 5
        BY DEF Brackets
      <3>3. \A i \in 1..Len(Brackets) : Brackets[i] # "/"
        <4>1. ASSUME NEW i \in 1..5 PROVE Brackets[i] # "/"
          BY DEF Brackets
        <4> QED BY <3>2, <4>1
      <3>4. u \in Seq(T)
        BY <1>17 DEF Left
      <3> QED BY <1>17, <3>1, <3>3, <3>4, BracketsAreDropped, LeftOn
    <2>2. CASE ~f.generic
      <3>1. s \in Seq(T)
        BY <1>17 DEF Left
      <3>2. s \o g = s
        BY <1>10, <2>2, <3>1, ConcatEmptySeq
      <3> QED BY <1>17, <3>2
    <2> QED BY <2>1, <2>2
  <1>19. PICK z : z = Suffix(c)
    OBVIOUS
  <1>20. /\ z \in Seq(T) /\ Plain(z) /\ Len(z) \in Nat
         /\ Len(c) = 0 => z = <<>>
         /\ Len(c) # 0 => Len(z) # 0 /\ z[Len(z)] # "-fm"
    BY <1>5, <1>19, SuffixIs
  <1>21. PICK w : w = u \o z
    OBVIOUS
  <1>22. Left(T, (s \o g) \o z, w)
    BY <1>18, <1>20, <1>21, LeftWithPlain
  <1>23. w \in Seq(T) /\ u \in Seq(T) /\ o2 \in Seq(T)
    BY <1>14, <1>17, <1>22 DEF Left
  <1>24. Len(w) # 0 /\ w[Len(w)] # "-fm"
    <2>1. Len(u) \in Nat /\ Len(u) = Len(o2) + 2 /\ Len(o2) \in Nat /\ u[Len(u)] = x
      <3>1. /\ Len(u) = Len(o2) + Len(d)
            /\ \A i \in 1..Len(u) : u[i] = IF i <= Len(o2) THEN o2[i] ELSE d[i - Len(o2)]
        <4>1. o2 \in Seq(T) /\ d \in Seq(T)
          BY <1>9, <1>23
        <4> QED BY ONLY <1>16, <4>1, Joins
      <3>2. Len(o2) \in Nat
        BY <1>23
      <3>3. Len(u) \in 1..Len(u) /\ ~ (Len(u) <= Len(o2)) /\ Len(u) - Len(o2) = 2
        BY <1>9, <3>1, <3>2
      <3> QED BY <1>9, <3>1, <3>2, <3>3
    <2>2. /\ Len(w) = Len(u) + Len(z)
          /\ \A i \in 1..Len(w) : w[i] = IF i <= Len(u) THEN u[i] ELSE z[i - Len(u)]
      <3>1. u \in Seq(T) /\ z \in Seq(T)
        BY <1>20, <1>23
      <3> QED BY ONLY <1>21, <3>1, Joins
    <2>3. CASE Len(c) = 0
      <3>1. Len(z) = 0 /\ Len(w) \in 1..Len(w) /\ Len(w) = Len(u)
        BY <1>20, <2>1, <2>2, <2>3
      <3>2. w[Len(w)] = x
        BY <2>1, <2>2, <3>1
      <3> QED BY <1>5, <3>1, <3>2 DEF Word
    <2>4. CASE Len(c) # 0
      <3>1. Len(w) \in 1..Len(w) /\ ~ (Len(w) <= Len(u)) /\ Len(w) - Len(u) = Len(z)
        BY <1>20, <2>1, <2>2, <2>4
      <3>2. w[Len(w)] = z[Len(z)]
        BY <2>2, <3>1
      <3> QED BY <1>20, <2>4, <3>1, <3>2
    <2> QED BY <2>3, <2>4
  <1>25. WithoutMethodValue(WithoutBrackets(AfterLastSlash(Symbol(f)))) = w
    <2>1. Symbol(f) = ((s \o g) \o z) \o m
      BY <1>12, <1>15, <1>19
    <2>2. CASE f.value
      <3>1. m = <<"-fm">> /\ m \in Seq(T)
        BY <1>5, <1>11, <2>2
      <3>2. Len(m) = 1 /\ m[1] = "-fm"
        BY <3>1
      <3>3. Plain(m)
        BY <3>2 DEF Plain
      <3>4. Left(T, Symbol(f), w \o m)
        BY <1>22, <2>1, <3>1, <3>3, LeftWithPlain
      <3>5. WithoutBrackets(AfterLastSlash(Symbol(f))) = w \o <<"-fm">>
        BY <3>1, <3>4, LeftIs
      <3> QED BY <1>23, <1>24, <3>5, MethodValueDropped
    <2>3. CASE ~f.value
      <3>1. (s \o g) \o z \in Seq(T)
        BY <1>22 DEF Left
      <3>2. Symbol(f) = (s \o g) \o z
        BY <1>11, <2>1, <2>3, <3>1, ConcatEmptySeq
      <3>3. WithoutBrackets(AfterLastSlash(Symbol(f))) = w
        BY <1>22, <3>2, LeftIs
      <3> QED BY <1>23, <1>24, <3>3, MethodValueDropped
    <2> QED BY <2>2, <2>3
  <1>26. FunctionSegment(Segments(w)) = <<x>>
    <2>1. FunctionSegment(Segments((o2 \o <<".", x>>) \o Suffix(c))) = <<x>>
      BY <1>5, <1>23, SegmentsOfNested
    <2> QED BY <1>8, <1>16, <1>19, <1>21, <2>1
  <1> QED BY <1>3, <1>25, <1>26 DEF BareName

\* A step of Do, Get, Try or Attempt is told under the name of the verb that called
\* it, with its role, whatever the verb's symbol (do.go verbLabel).
THEOREM VerbIsNamed ==
    ASSUME NEW f, Named(f), NEW entry, NEW role
    PROVE  VerbLabel(VerbStack(entry, f), role) = <<f.name>> \o role
  <1>1. PICK v : v = VerbStack(entry, f)
    OBVIOUS
  <1>2. Len(v) = 6 /\ v[5] = Symbol(f)
    BY <1>1 DEF VerbStack
  <1>3. CallerName(v, 4) = <<f.name>>
    BY <1>2, BareNameFinds DEF CallerName
  <1>4. <<f.name>> # <<>>
    OBVIOUS
  <1> QED BY <1>1, <1>3, <1>4 DEF VerbLabel, VerbFrames

\* The verbs of the runs are such functions.
LEMMA VerbsAreNamed ==
    ASSUME NEW f \in MCVerbs
    PROVE  Named(f)
  <1> DEFINE T == {"/", ".", "[", "]", "-fm", "main", "example", "com", "app", "Arrange",
                   "(*Box", ")", "UserExists", "func1", "2"}
  <1>1. /\ f.path \in {<<"main">>, <<"example", ".", "com", "/", "app">>}
        /\ f.receiver \in {<<>>, << <<"Arrange">> >>, << <<"(*Box", "[", ".", ".", ".", "]", ")">> >>}
        /\ f.name = "UserExists"
        /\ f.closures \in {<<>>, <<"func1">>, <<"func1", "2">>}
    BY DEF MCVerbs
  <1>2. {"/", ".", "[", "]", "-fm"} \subseteq T
    OBVIOUS
  <1>3. f.path \in Seq(T) /\ \A i \in 1..Len(f.path) : f.path[i] \notin {"[", "]"}
    <2>1. CASE f.path = <<"main">>
      BY <2>1
    <2>2. CASE f.path = <<"example", ".", "com", "/", "app">>
      <3>1. PICK p : p = f.path
        OBVIOUS
      <3>2. /\ p \in Seq(T) /\ Len(p) = 5 /\ p[1] = "example" /\ p[2] = "." /\ p[3] = "com"
            /\ p[4] = "/" /\ p[5] = "app"
        BY <2>2, <3>1
      <3>3. ASSUME NEW i \in 1..5 PROVE p[i] \notin {"[", "]"}
        <4>1. i = 1 \/ i = 2 \/ i = 3 \/ i = 4 \/ i = 5
          OBVIOUS
        <4> QED BY <3>2, <4>1
      <3> QED BY <3>1, <3>2, <3>3
    <2> QED BY <1>1, <2>1, <2>2
  <1>4. \A i \in 1..Len(f.receiver) : Receiver(T, f.receiver[i])
    <2>1. CASE f.receiver = <<>>
      BY <2>1
    <2>2. CASE f.receiver = << <<"Arrange">> >>
      <3>1. <<"Arrange">> \in Seq(T) /\ Plain(<<"Arrange">>)
        BY DEF Plain
      <3>2. Receiver(T, <<"Arrange">>)
        BY <3>1 DEF Receiver
      <3> QED BY <2>2, <3>2
    <2>3. CASE f.receiver = << <<"(*Box", "[", ".", ".", ".", "]", ")">> >>
      <3>1. <<"(*Box">> \in Seq(T) /\ Plain(<<"(*Box">>) /\ <<")">> \in Seq(T) /\ Plain(<<")">>)
        BY DEF Plain
      <3>2. <<"(*Box", "[", ".", ".", ".", "]", ")">> = (<<"(*Box">> \o Brackets) \o <<")">>
        BY DEF Brackets
      <3>3. Receiver(T, <<"(*Box", "[", ".", ".", ".", "]", ")">>)
        BY <3>1, <3>2 DEF Receiver
      <3> QED BY <2>3, <3>3
    <2> QED BY <1>1, <2>1, <2>2, <2>3
  <1>5. \E R : f.receiver \in Seq(R)
    <2> DEFINE R == {<<"Arrange">>, <<"(*Box", "[", ".", ".", ".", "]", ")">>}
    <2>1. /\ <<>> \in Seq(R) /\ << <<"Arrange">> >> \in Seq(R)
          /\ << <<"(*Box", "[", ".", ".", ".", "]", ")">> >> \in Seq(R)
      <3>1. \A x \in R : <<x>> \in Seq(R)
        OBVIOUS
      <3> QED BY <3>1
    <2> HIDE DEF R
    <2> QED BY <1>1, <2>1
  <1>6. f.name \in T /\ Word(f.name) /\ f.name \notin Ordinals
    BY <1>1, OrdinalsAssumption DEF Word
  <1>7. f.closures \in Seq(T) /\ \A i \in 1..Len(f.closures) : f.closures[i] \in {"func1", "2"}
    <2>1. CASE f.closures = <<>>
      BY <2>1
    <2>2. CASE f.closures = <<"func1">>
      BY <2>2
    <2>3. CASE f.closures = <<"func1", "2">>
      BY <2>3
    <2> QED BY <1>1, <2>1, <2>2, <2>3
  <1>8. \A x \in {"func1", "2"} : x \in Ordinals /\ Word(x)
    BY OrdinalsAssumption DEF Word
  <1> HIDE DEF T
  <1> QED BY <1>2, <1>3, <1>4, <1>5, <1>6, <1>7, <1>8 DEF Named

\* Steps are named after their verbs, a Step that has a name of its own keeps it.
THEOREM StepsAreNamedForTheirVerbHolds == Spec => []StepsAreNamedForTheirVerb
  <1>1. ASSUME NEW f \in MCVerbs, NEW entry \in MCEntries, NEW role \in MCRoles,
               NEW own \in {<<>>, <<"own">>}
        PROVE  DoAs(VerbLabel(VerbStack(entry, f), role), own)
                   = IF own = <<>> THEN <<f.name>> \o role ELSE own
    BY VerbsAreNamed, VerbIsNamed DEF DoAs
  <1>2. NamesAreTheVerbs
    BY <1>1 DEF NamesAreTheVerbs
  <1>3. StepsAreNamedForTheirVerb
    BY <1>2 DEF StepsAreNamedForTheirVerb
  <1> QED BY <1>3, PTL
=============================================================================
