--------------------------- MODULE RegistryProofs ---------------------------
(***************************************************************************)
(* Proof that a stage implements the registry, and on the way that its     *)
(* answers agree, for every composition in which an alias stands for a     *)
(* service of its own container.  What makes them agree is that a scan     *)
(* asks the containers in order, so that the first one that has the type   *)
(* answers, and what a container answers it never changes.                 *)
(***************************************************************************)
EXTENDS ResolutionProofs

\* An alias stands for a service, no alias, of its own container.
DirectAliases ==
    \A s \in ScopeSet : \A t \in DOMAIN Regs[s] :
        Regs[s][t].kind = "alias" =>
            /\ Regs[s][t].target \in DOMAIN Regs[s]
            /\ Regs[s][Regs[s][t].target].kind # "alias"

\* What a container answers for t is its instance of Final(s, t).
Final(s, t) == IF Regs[s][t].kind = "alias" THEN Regs[s][t].target ELSE t

\* v is what container s answers for t, given the entries e.
Stood(e, s, t, v) ==
    /\ s \in ScopeSet /\ t \in DOMAIN Regs[s] /\ v \in Instances
    /\ Regs[s][Final(s, t)].kind = "instance" => v = [scope |-> s, typ |-> Final(s, t), run |-> 0]
    /\ Regs[s][Final(s, t)].kind = "scoped" => v = e[s][Final(s, t)]

\* None of the first k containers has t.
LackedBy(t, k) == \A j \in 1..k : t \notin DOMAIN Regs[Scopes[j]]

\* v is what the stage answers for t: the first container that has it answers.
StageGave(e, t, v) ==
    \E k \in 1..Len(Scopes) : LackedBy(t, k - 1) /\ Stood(e, Scopes[k], t, v)

\* How many containers a scan has asked.
Done(f) == Len(Scopes) - Len(f.rest)

\* Call c answers for s, asked for t.
Serves(c, s, t) ==
    \/ c.at \in BagAt /\ c.scope = s /\ c.typ = t
    \/ /\ c.at = "through" /\ c.scope = s
       /\ t \in DOMAIN Regs[s] /\ Regs[s][t].kind = "alias" /\ c.typ = Regs[s][t].target

\* What is known of a call by itself, ...
Sound(f) ==
    /\ f.at = "scan" =>
          /\ Done(f) \in 0..Len(Scopes)
          /\ \A j \in 1..Len(f.rest) : f.rest[j] = Scopes[Done(f) + j]
    /\ f.at \in {"entry", "lock", "build"} => Regs[f.scope][f.typ].kind = "scoped"

\* ... by the call c it is waiting for, ...
Calls(f, c) ==
    /\ f.at \in {"scan", "through", "build"}
    /\ f.at = "scan" =>
          /\ Done(f) \in 1..Len(Scopes)
          /\ LackedBy(f.typ, Done(f) - 1)
          /\ Serves(c, Scopes[Done(f)], f.typ)
    /\ f.at = "through" => Serves(c, f.scope, f.typ)

\* ... and by the result r it has been handed.
Handed(e, f, r) ==
    /\ f.at = "snapshot" => r = Running
    /\ f.at = "through" /\ r.tag = "value" => Stood(e, f.scope, f.typ, r.inst)
    /\ f.at = "through" /\ r.tag = "absent" => f.typ \notin DOMAIN Regs[f.scope]
    /\ f.at = "scan" /\ r.tag = "value" => StageGave(e, f.typ, r.inst)
    /\ f.at = "scan" /\ r.tag \in {"running", "absent"} /\ f.rest # <<>> => LackedBy(f.typ, Done(f))

SoundOK == \A g \in Goroutines : \A i \in 1..Len(stack[g]) : Sound(stack[g][i])

CallsOK ==
    \A g \in Goroutines : \A i \in 1..Len(stack[g]) :
        i + 1 \in 1..Len(stack[g]) => Calls(stack[g][i], stack[g][i + 1])

HandedOK ==
    \A g \in Goroutines : stack[g] # <<>> => Handed(entry, stack[g][Len(stack[g])], ret[g])

\* The stage, over any moment at which it may be closed.
StageOK ==
    /\ scopes \in {Scopes, <<>>}
    /\ \A t \in Types : cache[t] # None => StageGave(entry, t, cache[t])
    /\ \A a \in answers : a[1] = None => StageGave(entry, a[2], a[3])

-----------------------------------------------------------------------------
(* What a container or the stage answers is one thing, and stays it.       *)

LEMMA ScopesFacts ==
    /\ Scopes \in Seq(ScopeSet) /\ Len(Scopes) \in Nat
    /\ \A k \in 1..Len(Scopes) : Scopes[k] \in ScopeSet
    /\ \A s \in ScopeSet : \A t \in DOMAIN Regs[s] :
          t \in Types /\ Regs[s][t].kind \in {"instance", "alias", "scoped"}
  <1>1. Scopes \in Seq(ScopeSet)
    BY RegsAssumption
  <1>2. \A s \in ScopeSet : \A t \in DOMAIN Regs[s] :
            t \in Types /\ Regs[s][t].kind \in {"instance", "alias", "scoped"}
    BY RegsAssumption DEF Registration
  <1> QED BY <1>1, <1>2, ElementOfSeq, LenProperties

LEMMA FinalFacts ==
    ASSUME DirectAliases, NEW s \in ScopeSet, NEW t \in DOMAIN Regs[s]
    PROVE  /\ Final(s, t) \in DOMAIN Regs[s] /\ Final(s, t) \in Types
           /\ Regs[s][Final(s, t)].kind \in {"instance", "scoped"}
           /\ Final(s, Final(s, t)) = Final(s, t)
  BY ScopesFacts DEF DirectAliases, Final

LEMMA StoodOnce ==
    ASSUME DirectAliases, NEW e, NEW s, NEW t, NEW v, NEW w, Stood(e, s, t, v), Stood(e, s, t, w)
    PROVE  v = w
  BY FinalFacts DEF Stood

LEMMA StageGaveOnce ==
    ASSUME DirectAliases, NEW e, NEW t, NEW v, NEW w, StageGave(e, t, v), StageGave(e, t, w)
    PROVE  v = w
  <1>1. PICK k \in 1..Len(Scopes) : LackedBy(t, k - 1) /\ Stood(e, Scopes[k], t, v)
    BY DEF StageGave
  <1>2. PICK m \in 1..Len(Scopes) : LackedBy(t, m - 1) /\ Stood(e, Scopes[m], t, w)
    BY DEF StageGave
  <1>3. t \in DOMAIN Regs[Scopes[k]] /\ t \in DOMAIN Regs[Scopes[m]]
    BY <1>1, <1>2 DEF Stood
  <1>4. ~ (m < k) /\ ~ (k < m)
    BY <1>1, <1>2, <1>3, ScopesFacts DEF LackedBy
  <1>5. k = m
    BY <1>4, ScopesFacts
  <1> QED BY <1>1, <1>2, <1>5, StoodOnce

LEMMA StoodStays ==
    ASSUME DirectAliases, IInv, [Next]_vars, NEW s, NEW t, NEW v, Stood(entry, s, t, v)
    PROVE  Stood(entry', s, t, v)
  <1>1. s \in ScopeSet /\ t \in DOMAIN Regs[s] /\ v \in Instances /\ v # None
    BY InstancesAreSomething DEF Stood
  <1>2. Final(s, t) \in Types
    BY <1>1, FinalFacts
  <1>3. CASE Regs[s][Final(s, t)].kind = "scoped"
    <2>1. v = entry[s][Final(s, t)] /\ entry[s][Final(s, t)] # None
      BY <1>1, <1>3 DEF Stood
    <2>2. entry'[s][Final(s, t)] = v
      BY <1>1, <1>2, <2>1, StepKeepsInstances
    <2> QED BY <1>3, <2>2 DEF Stood
  <1>4. CASE Regs[s][Final(s, t)].kind # "scoped"
    BY <1>4 DEF Stood
  <1> QED BY <1>3, <1>4

LEMMA GaveStays ==
    ASSUME DirectAliases, IInv, [Next]_vars
    PROVE  /\ \A t, v : StageGave(entry, t, v) => StageGave(entry', t, v)
           /\ \A f, r : Handed(entry, f, r) => Handed(entry', f, r)
  <1>1. \A t, v : StageGave(entry, t, v) => StageGave(entry', t, v)
    BY StoodStays DEF StageGave
  <1>2. \A f, r : Handed(entry, f, r) => Handed(entry', f, r)
    BY <1>1, StoodStays DEF Handed
  <1> QED BY <1>1, <1>2

-----------------------------------------------------------------------------
(* What a call is handed by the one it waits for.                          *)

LEMMA HandedPanic ==
    ASSUME NEW e, NEW b, NEW c, Calls(b, c)
    PROVE  Handed(e, b, Panic)
  BY DEF Calls, Handed, Panic

\* Nobody but a factory waits for the stage, and a factory takes anything.
LEMMA HandedByStage ==
    ASSUME NEW e, NEW b, NEW c, Calls(b, c), c.at \in StageAt, NEW r, NEW d
    PROVE  b.at = "build" /\ Handed(e, b, r) /\ Calls(b, d)
  BY DEF Calls, Serves, Handed, StageAt, BagAt

LEMMA HandedAbsence ==
    ASSUME NEW e, NEW b, NEW c, Calls(b, c), c.at = "resolve", c.typ \notin DOMAIN Regs[c.scope]
    PROVE  Handed(e, b, Absent)
  <1>1. Absent.tag = "absent" /\ b.at \in {"scan", "through", "build"}
    BY DEF Absent, Calls
  <1>2. CASE b.at = "build"
    BY <1>2 DEF Handed
  <1>3. CASE b.at = "through"
    <2>1. c.scope = b.scope /\ c.typ = b.typ
      BY <1>3 DEF Calls, Serves
    <2> QED BY <1>1, <1>3, <2>1 DEF Handed
  <1>4. CASE b.at = "scan"
    <2>1. /\ Done(b) \in 1..Len(Scopes)
          /\ LackedBy(b.typ, Done(b) - 1)
          /\ b.typ \notin DOMAIN Regs[Scopes[Done(b)]]
      BY <1>4 DEF Calls, Serves
    <2>2. \A j \in 1..Done(b) : j \in 1..(Done(b) - 1) \/ j = Done(b)
      BY <2>1, ScopesFacts
    <2>3. LackedBy(b.typ, Done(b))
      BY <2>1, <2>2 DEF LackedBy
    <2> QED BY <1>1, <1>4, <2>3 DEF Handed
  <1> QED BY <1>1, <1>2, <1>3, <1>4

LEMMA HandedValue ==
    ASSUME DirectAliases, NEW e, NEW b, NEW c, Calls(b, c), NEW v, Stood(e, c.scope, c.typ, v)
    PROVE  Handed(e, b, Value(v))
  <1>1. Value(v).tag = "value" /\ Value(v).inst = v /\ b.at \in {"scan", "through", "build"}
    BY DEF Value, Calls
  <1>2. ASSUME NEW s, NEW t, Serves(c, s, t), s \in ScopeSet PROVE Stood(e, s, t, v)
    <2>1. CASE c.scope = s /\ c.typ = t
      BY <2>1
    <2>2. CASE /\ c.scope = s /\ t \in DOMAIN Regs[s]
               /\ Regs[s][t].kind = "alias" /\ c.typ = Regs[s][t].target
      <3>1. c.typ = Final(s, t) /\ Final(s, Final(s, t)) = Final(s, t)
        BY <1>2, <2>2, FinalFacts DEF Final
      <3> QED BY <2>2, <3>1 DEF Stood
    <2> QED BY <1>2, <2>1, <2>2 DEF Serves
  <1>3. CASE b.at = "build"
    BY <1>3 DEF Handed
  <1>4. CASE b.at = "through"
    <2>1. Serves(c, b.scope, b.typ) /\ c.scope = b.scope /\ c.scope \in ScopeSet
      BY <1>4 DEF Calls, Serves, Stood
    <2>2. Stood(e, b.scope, b.typ, v)
      BY <1>2, <2>1
    <2> QED BY <1>1, <1>4, <2>2 DEF Handed
  <1>5. CASE b.at = "scan"
    <2>1. /\ Done(b) \in 1..Len(Scopes)
          /\ LackedBy(b.typ, Done(b) - 1)
          /\ Serves(c, Scopes[Done(b)], b.typ)
      BY <1>5 DEF Calls
    <2>2. Stood(e, Scopes[Done(b)], b.typ, v)
      BY <1>2, <2>1, ScopesFacts
    <2>3. StageGave(e, b.typ, v)
      BY <2>1, <2>2 DEF StageGave
    <2> QED BY <1>1, <1>5, <2>3 DEF Handed
  <1> QED BY <1>1, <1>3, <1>4, <1>5

-----------------------------------------------------------------------------
(* What a step of g does to the calls, given what it does to its own stack. *)

StacksOK == SoundOK /\ CallsOK /\ HandedOK

LEMMA BecomeAgrees ==
    ASSUME DirectAliases, IInv, StacksOK, [Next]_vars,
           NEW g \in Goroutines, stack[g] # <<>>, NEW f \in Frame, Become(g, f),
           \A h \in Goroutines \ {g} : ret'[h] = ret[h],
           Sound(f), \A b : Calls(b, Top(g)) => Calls(b, f), Handed(entry', f, ret'[g])
    PROVE  StacksOK'
  <1>1. stack \in [Goroutines -> Seq(Frame)]
    BY DEF IInv, TypeOK
  <1>2. PICK n \in Nat \ {0} :
            /\ n = Len(stack[g]) /\ Len(stack'[g]) = n
            /\ Top(g) = stack[g][n]
            /\ stack'[g][n] = f
            /\ \A i \in 1..(n - 1) : stack'[g][i] = stack[g][i]
            /\ \A h \in Goroutines \ {g} : stack'[h] = stack[h]
    BY <1>1, BecomeStack DEF Top
  <1>3. SoundOK'
    <2> SUFFICES ASSUME NEW h \in Goroutines, NEW i \in 1..Len(stack'[h]) PROVE Sound(stack'[h][i])
      BY DEF SoundOK, Sound, Done
    <2>1. CASE h = g /\ i = n
      BY <1>2, <2>1
    <2>2. CASE ~ (h = g /\ i = n)
      <3>1. i \in 1..Len(stack[h]) /\ stack'[h][i] = stack[h][i]
        BY <1>2, <2>2
      <3> QED BY <3>1 DEF StacksOK, SoundOK
    <2> QED BY <2>1, <2>2
  <1>4. CallsOK'
    <2> SUFFICES ASSUME NEW h \in Goroutines, NEW i \in 1..Len(stack'[h]), i + 1 \in 1..Len(stack'[h])
                 PROVE  Calls(stack'[h][i], stack'[h][i + 1])
      BY DEF CallsOK, Calls, Serves, Done
    <2>1. i \in 1..Len(stack[h]) /\ i + 1 \in 1..Len(stack[h]) /\ Calls(stack[h][i], stack[h][i + 1])
      BY <1>2 DEF StacksOK, CallsOK
    <2>2. CASE h # g
      BY <1>2, <2>1, <2>2
    <2>3. CASE h = g /\ i + 1 # n
      <3>1. stack'[g][i] = stack[g][i] /\ stack'[g][i + 1] = stack[g][i + 1]
        BY <1>2, <2>1, <2>3
      <3> QED BY <2>1, <2>3, <3>1
    <2>4. CASE h = g /\ i + 1 = n
      <3>1. stack'[g][i] = stack[g][i] /\ stack'[g][i + 1] = f /\ stack[g][i + 1] = Top(g)
        BY <1>2, <2>1, <2>4
      <3> QED BY <2>1, <2>4, <3>1
    <2> QED BY <2>2, <2>3, <2>4
  <1>5. HandedOK'
    <2> SUFFICES ASSUME NEW h \in Goroutines, stack'[h] # <<>>
                 PROVE  Handed(entry', stack'[h][Len(stack'[h])], ret'[h])
      BY DEF HandedOK, Handed, Stood, StageGave, Done
    <2>1. CASE h = g
      BY <1>2, <2>1
    <2>2. CASE h # g
      BY <1>2, <2>2, GaveStays DEF StacksOK, HandedOK
    <2> QED BY <2>1, <2>2
  <1> QED BY <1>3, <1>4, <1>5 DEF StacksOK

LEMMA PushAgrees ==
    ASSUME DirectAliases, IInv, StacksOK, [Next]_vars,
           NEW g \in Goroutines, stack[g] # <<>>,
           NEW f \in Frame, NEW c \in Frame, Push(g, f, c),
           \A h \in Goroutines \ {g} : ret'[h] = ret[h],
           Sound(f), Sound(c), \A b : Calls(b, Top(g)) => Calls(b, f), Calls(f, c),
           Handed(entry', c, ret'[g])
    PROVE  StacksOK'
  <1>1. stack \in [Goroutines -> Seq(Frame)]
    BY DEF IInv, TypeOK
  <1>2. PICK n \in Nat \ {0} :
            /\ n = Len(stack[g]) /\ Len(stack'[g]) = n + 1
            /\ Top(g) = stack[g][n]
            /\ stack'[g][n] = f /\ stack'[g][n + 1] = c
            /\ \A i \in 1..(n - 1) : stack'[g][i] = stack[g][i]
            /\ \A h \in Goroutines \ {g} : stack'[h] = stack[h]
    <2>1. /\ Len(stack[g]) \in Nat \ {0}
          /\ Len(stack'[g]) = Len(stack[g]) + 1
          /\ stack'[g][Len(stack[g]) + 1] = c
          /\ stack'[g][Len(stack[g])] = f
          /\ \A i \in 1..(Len(stack[g]) - 1) : stack'[g][i] = stack[g][i]
          /\ \A h \in Goroutines \ {g} : stack'[h] = stack[h]
      BY <1>1, PushStack
    <2>2. Top(g) = stack[g][Len(stack[g])]
      BY DEF Top
    <2> QED BY <2>1, <2>2
  <1>3. SoundOK'
    <2> SUFFICES ASSUME NEW h \in Goroutines, NEW i \in 1..Len(stack'[h]) PROVE Sound(stack'[h][i])
      BY DEF SoundOK, Sound, Done
    <2>1. CASE h = g /\ i \in {n, n + 1}
      BY <1>2, <2>1
    <2>2. CASE ~ (h = g /\ i \in {n, n + 1})
      <3>1. i \in 1..Len(stack[h]) /\ stack'[h][i] = stack[h][i]
        BY <1>2, <2>2
      <3> QED BY <3>1 DEF StacksOK, SoundOK
    <2> QED BY <2>1, <2>2
  <1>4. CallsOK'
    <2> SUFFICES ASSUME NEW h \in Goroutines, NEW i \in 1..Len(stack'[h]), i + 1 \in 1..Len(stack'[h])
                 PROVE  Calls(stack'[h][i], stack'[h][i + 1])
      BY DEF CallsOK, Calls, Serves, Done
    <2>1. CASE h # g
      BY <1>2, <2>1 DEF StacksOK, CallsOK
    <2>2. CASE h = g /\ i = n
      BY <1>2, <2>2
    <2>3. CASE h = g /\ i # n
      <3>1. i \in 1..Len(stack[g]) /\ i + 1 \in 1..Len(stack[g]) /\ i \in 1..(n - 1)
        BY <1>2, <2>3
      <3>2. Calls(stack[g][i], stack[g][i + 1])
        BY <3>1 DEF StacksOK, CallsOK
      <3>3. CASE i + 1 = n
        BY <1>2, <2>3, <3>1, <3>2, <3>3
      <3>4. CASE i + 1 # n
        BY <1>2, <2>3, <3>1, <3>2, <3>4
      <3> QED BY <3>3, <3>4
    <2> QED BY <2>1, <2>2, <2>3
  <1>5. HandedOK'
    <2> SUFFICES ASSUME NEW h \in Goroutines, stack'[h] # <<>>
                 PROVE  Handed(entry', stack'[h][Len(stack'[h])], ret'[h])
      BY DEF HandedOK, Handed, Stood, StageGave, Done
    <2>1. CASE h = g
      BY <1>2, <2>1
    <2>2. CASE h # g
      BY <1>2, <2>2, GaveStays DEF StacksOK, HandedOK
    <2> QED BY <2>1, <2>2
  <1> QED BY <1>3, <1>4, <1>5 DEF StacksOK

LEMMA ReturnAgrees ==
    ASSUME DirectAliases, IInv, StacksOK, [Next]_vars,
           NEW g \in Goroutines, stack[g] # <<>>, NEW r, Return(g, r),
           \A b : Calls(b, Top(g)) => Handed(entry', b, r)
    PROVE  StacksOK'
  <1>1. stack \in [Goroutines -> Seq(Frame)] /\ ret \in [Goroutines -> Results]
    BY DEF IInv, TypeOK
  <1>2. PICK n \in Nat \ {0} :
            /\ n = Len(stack[g]) /\ Len(stack'[g]) = n - 1
            /\ Top(g) = stack[g][n]
            /\ \A i \in 1..(n - 1) : stack'[g][i] = stack[g][i]
            /\ \A h \in Goroutines \ {g} : stack'[h] = stack[h]
    BY <1>1, ReturnStack DEF Top
  <1>r. ret'[g] = r /\ \A h \in Goroutines \ {g} : ret'[h] = ret[h]
    BY <1>1 DEF Return
  <1>o. \A h \in Goroutines : \A i \in 1..Len(stack'[h]) :
            i \in 1..Len(stack[h]) /\ stack'[h][i] = stack[h][i]
    BY <1>2
  <1>3. SoundOK'
    <2> SUFFICES ASSUME NEW h \in Goroutines, NEW i \in 1..Len(stack'[h]) PROVE Sound(stack'[h][i])
      BY DEF SoundOK, Sound, Done
    <2> QED BY <1>o DEF StacksOK, SoundOK
  <1>4. CallsOK'
    <2> SUFFICES ASSUME NEW h \in Goroutines, NEW i \in 1..Len(stack'[h]), i + 1 \in 1..Len(stack'[h])
                 PROVE  Calls(stack'[h][i], stack'[h][i + 1])
      BY DEF CallsOK, Calls, Serves, Done
    <2> QED BY <1>o DEF StacksOK, CallsOK
  <1>5. HandedOK'
    <2> SUFFICES ASSUME NEW h \in Goroutines, stack'[h] # <<>>
                 PROVE  Handed(entry', stack'[h][Len(stack'[h])], ret'[h])
      BY DEF HandedOK, Handed, Stood, StageGave, Done
    <2>1. CASE h = g
      <3>1. stack' \in [Goroutines -> Seq(Frame)]
        BY <1>1, ReturnStack
      <3>2. n - 1 \in 1..(n - 1)
        <4>1. Len(stack'[g]) # 0
          BY <2>1, <3>1, EmptySeq
        <4>2. n - 1 \in Nat /\ n - 1 # 0
          BY <1>2, <4>1
        <4>3. \A m \in Nat : m # 0 => m \in 1..m
          OBVIOUS
        <4> QED BY <4>2, <4>3
      <3>3. n - 1 \in 1..Len(stack[g]) /\ n - 1 + 1 \in 1..Len(stack[g])
            /\ stack'[g][n - 1] = stack[g][n - 1] /\ n - 1 + 1 = n
        BY <1>2, <3>2
      <3>4. Calls(stack[g][n - 1], Top(g))
        BY <1>2, <3>3 DEF StacksOK, CallsOK
      <3> QED BY <1>2, <1>r, <2>1, <3>3, <3>4
    <2>2. CASE h # g
      BY <1>2, <1>r, <2>2, GaveStays DEF StacksOK, HandedOK
    <2> QED BY <2>1, <2>2
  <1> QED BY <1>3, <1>4, <1>5 DEF StacksOK

LEMMA StayAgrees ==
    ASSUME DirectAliases, IInv, StacksOK, [Next]_vars, stack' = stack,
           \A g \in Goroutines :
               stack[g] # <<>> => \/ ret'[g] = ret[g]
                                  \/ Handed(entry', stack[g][Len(stack[g])], ret'[g])
    PROVE  StacksOK'
  <1>1. SoundOK' /\ CallsOK'
    <2>1. SoundOK'
      <3> SUFFICES ASSUME NEW h \in Goroutines, NEW i \in 1..Len(stack[h]) PROVE Sound(stack[h][i])
        BY DEF SoundOK, Sound, Done
      <3> QED BY DEF StacksOK, SoundOK
    <2>2. CallsOK'
      <3> SUFFICES ASSUME NEW h \in Goroutines, NEW i \in 1..Len(stack'[h]), i + 1 \in 1..Len(stack'[h])
                   PROVE  Calls(stack'[h][i], stack'[h][i + 1])
        BY DEF CallsOK, Calls, Serves, Done
      <3> QED BY DEF StacksOK, CallsOK
    <2> QED BY <2>1, <2>2
  <1>2. HandedOK'
    <2> SUFFICES ASSUME NEW h \in Goroutines, stack[h] # <<>>
                 PROVE  Handed(entry', stack[h][Len(stack[h])], ret'[h])
      BY DEF HandedOK, Handed, Stood, StageGave, Done
    <2> QED BY GaveStays DEF StacksOK, HandedOK
  <1> QED BY <1>1, <1>2 DEF StacksOK

-----------------------------------------------------------------------------
(* One lemma per action that moves a call.                                 *)

LEMMA TopFacts ==
    ASSUME IInv, StacksOK, NEW g \in Goroutines, stack[g] # <<>>
    PROVE  /\ Top(g) \in Frame /\ Sound(Top(g)) /\ FrameOK(Top(g))
           /\ Handed(entry, Top(g), ret[g])
           /\ ret[g] \in Results
           /\ \A h \in Goroutines : ret[h] \in Results
  <1>1. Len(stack[g]) \in 1..Len(stack[g]) /\ Top(g) = stack[g][Len(stack[g])] /\ Top(g) \in Frame
    BY TopIsFrame DEF IInv, TypeOK
  <1>2. Sound(Top(g)) /\ Handed(entry, Top(g), ret[g])
    BY <1>1 DEF StacksOK, SoundOK, HandedOK
  <1> QED BY <1>1, <1>2, TopOK DEF IInv, TypeOK

LEMMA AskAgrees ==
    ASSUME DirectAliases, IInv, StacksOK, [Next]_vars,
           NEW g \in Goroutines, NEW t \in Types, Ask(g, t)
    PROVE  StacksOK'
  <1>1. PICK c : c = StageCall(t, {})
    OBVIOUS
  <1>2. c.at = "cached" /\ c \in Frame
    BY <1>1, StageCallFacts DEF FrameOK
  <1>3. /\ stack' = [stack EXCEPT ![g] = <<c>>] /\ stack \in [Goroutines -> Seq(Frame)]
        /\ ret' = [ret EXCEPT ![g] = Running] /\ ret \in [Goroutines -> Results]
    BY <1>1 DEF Ask, IInv, TypeOK
  <1>4. /\ Len(stack'[g]) = 1 /\ stack'[g][1] = c
        /\ \A h \in Goroutines \ {g} : stack'[h] = stack[h] /\ ret'[h] = ret[h]
    BY <1>2, <1>3
  <1>5. SoundOK'
    <2> SUFFICES ASSUME NEW h \in Goroutines, NEW i \in 1..Len(stack'[h]) PROVE Sound(stack'[h][i])
      BY DEF SoundOK, Sound, Done
    <2>1. CASE h = g
      <3>1. stack'[h][i] = c
        BY <1>4, <2>1
      <3> QED BY <1>2, <3>1 DEF Sound
    <2>2. CASE h # g
      BY <1>4, <2>2 DEF StacksOK, SoundOK
    <2> QED BY <2>1, <2>2
  <1>6. CallsOK'
    <2> SUFFICES ASSUME NEW h \in Goroutines, NEW i \in 1..Len(stack'[h]), i + 1 \in 1..Len(stack'[h])
                 PROVE  Calls(stack'[h][i], stack'[h][i + 1])
      BY DEF CallsOK, Calls, Serves, Done
    <2>1. h # g
      <3>1. \A j \in 1..1 : j + 1 \notin 1..1
        OBVIOUS
      <3> QED BY <1>4, <3>1
    <2> QED BY <1>4, <2>1 DEF StacksOK, CallsOK
  <1>7. HandedOK'
    <2> SUFFICES ASSUME NEW h \in Goroutines, stack'[h] # <<>>
                 PROVE  Handed(entry', stack'[h][Len(stack'[h])], ret'[h])
      BY DEF HandedOK, Handed, Stood, StageGave, Done
    <2>1. CASE h = g
      <3>1. stack'[h][Len(stack'[h])] = c
        BY <1>4, <2>1
      <3> QED BY <1>2, <3>1 DEF Handed
    <2>2. CASE h # g
      BY <1>4, <2>2, GaveStays DEF StacksOK, HandedOK
    <2> QED BY <2>1, <2>2
  <1> QED BY <1>5, <1>6, <1>7 DEF StacksOK

LEMMA CachedAgrees ==
    ASSUME DirectAliases, IInv, StacksOK, [Next]_vars, NEW g \in Goroutines, Cached(g)
    PROVE  StacksOK'
  <1>1. stack[g] # <<>> /\ Top(g).at = "cached" /\ ret[g] = Running
    BY DEF Cached, In
  <1>2. ASSUME NEW v, Return(g, v) PROVE StacksOK'
    <2>1. \A b : Calls(b, Top(g)) => Handed(entry', b, v)
      BY <1>1, HandedByStage DEF StageAt
    <2> QED BY <1>1, <1>2, <2>1, ReturnAgrees
  <1>3. CASE Goto(g, "snapshot") /\ ret' = ret
    <2>1. PICK f : f = [Top(g) EXCEPT !.at = "snapshot"]
      OBVIOUS
    <2>2. f \in Frame /\ f.at = "snapshot" /\ Become(g, f)
      BY <1>1, <1>3, <2>1, TopFacts DEF Goto, Frame, StageAt
    <2>3. Sound(f) /\ Handed(entry', f, ret'[g])
      BY <1>1, <1>3, <2>2 DEF Sound, Handed
    <2>4. \A b : Calls(b, Top(g)) => Calls(b, f)
      BY <1>1, HandedByStage DEF StageAt
    <2> QED BY <1>1, <1>3, <2>2, <2>3, <2>4, BecomeAgrees
  <1>4. (\E v : Return(g, v)) \/ (Goto(g, "snapshot") /\ ret' = ret)
    BY DEF Cached
  <1> QED BY <1>2, <1>3, <1>4

LEMMA SnapshotAgrees ==
    ASSUME DirectAliases, IInv, StacksOK, StageOK, [Next]_vars, NEW g \in Goroutines, Snapshot(g)
    PROVE  StacksOK'
  <1>1. stack[g] # <<>> /\ Top(g).at = "snapshot" /\ ret' = ret
    BY DEF Snapshot, In
  <1>2. PICK f : f = [Top(g) EXCEPT !.at = "scan", !.rest = scopes]
    OBVIOUS
  <1>3. /\ f \in Frame /\ f.at = "scan" /\ f.rest = scopes /\ Become(g, f)
        /\ f.typ = Top(g).typ
    BY <1>1, <1>2, TopFacts DEF Snapshot, Frame, StageAt, IInv, TypeOK
  <1>4. ret'[g] = Running /\ Running.tag = "running"
    BY <1>1, TopFacts DEF Handed, Running
  <1>5. CASE scopes = Scopes
    <2>1. Done(f) = 0 /\ \A j \in 1..Len(f.rest) : f.rest[j] = Scopes[Done(f) + j]
      BY <1>3, <1>5, ScopesFacts DEF Done
    <2>2. LackedBy(f.typ, Done(f))
      BY <2>1 DEF LackedBy
    <2>3. Sound(f) /\ Handed(entry', f, ret'[g])
      BY <1>3, <1>4, <2>1, <2>2, ScopesFacts DEF Sound, Handed
    <2>4. \A b : Calls(b, Top(g)) => Calls(b, f)
      BY <1>1, HandedByStage DEF StageAt
    <2> QED BY <1>1, <1>3, <2>3, <2>4, BecomeAgrees
  <1>6. CASE scopes = <<>>
    <2>1. Len(f.rest) = 0 /\ Done(f) = Len(Scopes)
      BY <1>3, <1>6, ScopesFacts DEF Done
    <2>3. Sound(f) /\ Handed(entry', f, ret'[g])
      BY <1>3, <1>4, <1>6, <2>1, ScopesFacts DEF Sound, Handed
    <2>4. \A b : Calls(b, Top(g)) => Calls(b, f)
      BY <1>1, HandedByStage DEF StageAt
    <2> QED BY <1>1, <1>3, <2>3, <2>4, BecomeAgrees
  <1> QED BY <1>5, <1>6 DEF StageOK

LEMMA ScanAgrees ==
    ASSUME DirectAliases, IInv, StacksOK, [Next]_vars, NEW g \in Goroutines, Scan(g)
    PROVE  StacksOK'
  <1>1. stack[g] # <<>> /\ Top(g).at = "scan" /\ ret[g] \in {Running, Absent}
    BY DEF Scan, In
  <1>2. CASE Top(g).rest = <<>>
    <2>1. Return(g, Absent)
      BY <1>2 DEF Scan
    <2>2. \A b : Calls(b, Top(g)) => Handed(entry', b, Absent)
      BY <1>1, HandedByStage DEF StageAt
    <2> QED BY <1>1, <2>1, <2>2, ReturnAgrees
  <1>3. CASE Top(g).rest # <<>>
    <2> DEFINE q == Top(g).rest
    <2>1. /\ q \in Seq(ScopeSet) /\ q # <<>> /\ Len(q) \in Nat /\ Len(q) # 0
          /\ Head(q) = q[1] /\ Head(q) \in ScopeSet
          /\ Tail(q) \in Seq(ScopeSet) /\ Len(Tail(q)) = Len(q) - 1
          /\ \A j \in 1..(Len(q) - 1) : Tail(q)[j] = q[j + 1]
      <3>1. q \in Seq(ScopeSet) /\ q # <<>>
        BY <1>1, <1>3, TopFacts DEF Frame
      <3> HIDE DEF q
      <3> QED BY <3>1, HeadTailProperties, EmptySeq, LenProperties
    <2>2. PICK f, c : /\ f = [Top(g) EXCEPT !.rest = Tail(q)]
                      /\ c = ResolveCall(Head(q), Top(g).typ, Top(g).path)
      OBVIOUS
    <2>3. /\ f \in Frame /\ f.at = "scan" /\ f.rest = Tail(q) /\ f.typ = Top(g).typ
          /\ Top(g).typ \in Types /\ Top(g).path \in SUBSET Types
      BY <1>1, <2>1, <2>2, TopFacts DEF Frame
    <2>4. c \in Frame /\ c.at = "resolve" /\ c.scope = q[1] /\ c.typ = Top(g).typ
      BY <2>1, <2>2, <2>3 DEF ResolveCall, Call, Frame, BagAt
    <2>5. Push(g, f, c) /\ ret' = [ret EXCEPT ![g] = Running]
      BY <1>3, <2>2 DEF Scan
    <2>6. /\ Done(Top(g)) \in 0..Len(Scopes) /\ Done(Top(g)) = Len(Scopes) - Len(q)
          /\ \A j \in 1..Len(q) : q[j] = Scopes[Done(Top(g)) + j]
          /\ LackedBy(Top(g).typ, Done(Top(g)))
      <3>1. ret[g].tag \in {"running", "absent"}
        BY <1>1 DEF Running, Absent
      <3> QED BY <1>1, <1>3, <3>1, TopFacts DEF Sound, Handed, Done
    <2> HIDE DEF q
    <2>7. /\ Done(f) = Done(Top(g)) + 1 /\ Done(f) \in 1..Len(Scopes)
          /\ Done(f) - 1 = Done(Top(g)) /\ Scopes[Done(f)] = q[1]
      <3>1. Done(f) = Len(Scopes) - Len(Tail(q))
        BY <2>3 DEF Done
      <3>2. Done(f) = Done(Top(g)) + 1
        BY <2>1, <2>6, <3>1, ScopesFacts
      <3>3. 1 \in 1..Len(q) /\ q[1] = Scopes[Done(Top(g)) + 1]
        BY <2>1, <2>6
      <3> QED BY <2>1, <2>6, <3>2, <3>3, ScopesFacts
    <2>8. Sound(f)
      <3>1. \A j \in 1..Len(Tail(q)) : Tail(q)[j] = Scopes[Done(f) + j]
        <4> SUFFICES ASSUME NEW j \in 1..Len(Tail(q)) PROVE Tail(q)[j] = Scopes[Done(f) + j]
          OBVIOUS
        <4>1. j \in 1..(Len(q) - 1) /\ j + 1 \in 1..Len(q)
          BY <2>1
        <4>2. Tail(q)[j] = q[j + 1] /\ q[j + 1] = Scopes[Done(Top(g)) + (j + 1)]
          BY <2>1, <2>6, <4>1
        <4>3. Done(Top(g)) + (j + 1) = Done(f) + j
          BY <2>6, <2>7, <4>1
        <4> QED BY <4>2, <4>3
      <3>2. Done(f) \in 0..Len(Scopes)
        BY <2>7
      <3> QED BY <2>3, <3>1, <3>2 DEF Sound
    <2>9. Calls(f, c) /\ Sound(c) /\ Handed(entry', c, ret'[g])
      <3>1. Serves(c, Scopes[Done(f)], f.typ)
        BY <2>3, <2>4, <2>7 DEF Serves, BagAt
      <3> QED BY <2>3, <2>4, <2>6, <2>7, <3>1 DEF Calls, Sound, Handed
    <2>10. \A b : Calls(b, Top(g)) => Calls(b, f)
      BY <1>1, HandedByStage DEF StageAt
    <2>11. \A h \in Goroutines \ {g} : ret'[h] = ret[h]
      BY <2>5 DEF IInv, TypeOK
    <2> QED BY <1>1, <2>3, <2>4, <2>5, <2>8, <2>9, <2>10, <2>11, PushAgrees
  <1> QED BY <1>2, <1>3

LEMMA RememberAgrees ==
    ASSUME DirectAliases, IInv, StacksOK, [Next]_vars, NEW g \in Goroutines, Remember(g)
    PROVE  StacksOK'
  <1>1. stack[g] # <<>> /\ Top(g).at = "scan"
    BY DEF Remember, In
  <1>2. PICK r : Return(g, r)
    BY DEF Remember
  <1>3. \A b : Calls(b, Top(g)) => Handed(entry', b, r)
    BY <1>1, HandedByStage DEF StageAt
  <1> QED BY <1>1, <1>2, <1>3, ReturnAgrees

LEMMA ThroughAgrees ==
    ASSUME DirectAliases, IInv, StacksOK, [Next]_vars, NEW g \in Goroutines, Through(g)
    PROVE  StacksOK'
  <1>1. stack[g] # <<>> /\ Top(g).at = "through" /\ entry' = entry
    BY DEF Through, In, bagVars
  <1>2. PICK f : f = Top(g)
    OBVIOUS
  <1>3. /\ f \in Frame /\ f.at = "through" /\ f.scope \in ScopeSet /\ f.typ \in Types
        /\ f.path \in SUBSET Types /\ Sound(f) /\ Handed(entry, f, ret[g])
    BY <1>1, <1>2, TopFacts DEF Frame, FrameOK
  <1>4. CASE Push(g, f, ResolveCall(f.scope, f.typ, f.path)) /\ ret' = ret
    <2>1. PICK c : c = ResolveCall(f.scope, f.typ, f.path)
      OBVIOUS
    <2>2. c \in Frame /\ c.at = "resolve" /\ c.scope = f.scope /\ c.typ = f.typ
      BY <1>3, <2>1 DEF ResolveCall, Call, Frame, BagAt
    <2>3. Calls(f, c) /\ Sound(c) /\ Handed(entry', c, ret'[g])
      BY <1>3, <2>2 DEF Calls, Serves, Sound, Handed, BagAt
    <2> QED BY <1>1, <1>2, <1>3, <1>4, <2>1, <2>2, <2>3, PushAgrees
  <1>5. CASE ret[g].tag = "value" /\ Return(g, ret[g])
    <2>1. PICK v : ret[g] = Value(v) /\ v = ret[g].inst
      <3>1. ret[g] \in Results
        BY <1>1, TopFacts
      <3>2. ret[g] = Value(ret[g].inst)
        BY <1>5, <3>1 DEF Results, Value
      <3> QED BY <3>2
    <2>2. Stood(entry, f.scope, f.typ, v)
      BY <1>3, <1>5, <2>1 DEF Handed
    <2>3. \A b : Calls(b, Top(g)) => Handed(entry', b, Value(v))
      BY <1>1, <1>2, <2>2, HandedValue
    <2> QED BY <1>1, <1>5, <2>1, <2>3, ReturnAgrees
  <1>6. CASE /\ ret[g] = Absent
             /\ Become(g, StageCall(f.typ, f.path))
             /\ ret' = [ret EXCEPT ![g] = Running]
    <2>1. PICK c : c = StageCall(f.typ, f.path)
      OBVIOUS
    <2>2. c \in Frame /\ c.at = "cached"
      BY <1>3, <2>1, StageCallFacts DEF FrameOK
    <2>3. Sound(c) /\ Handed(entry', c, ret'[g])
      BY <2>2 DEF Sound, Handed
    <2>4. f.typ \notin DOMAIN Regs[f.scope]
      BY <1>3, <1>6 DEF Handed, Absent
    <2>5. \A s, t : s \in ScopeSet => ~ Serves(f, s, t)
      BY <1>3, <2>4 DEF Serves, BagAt, DirectAliases
    <2>6. \A b : Calls(b, f) => Calls(b, c)
      <3> SUFFICES ASSUME NEW b, Calls(b, f) PROVE Calls(b, c)
        OBVIOUS
      <3>1. b.at # "through"
        BY <1>3, <2>4 DEF Calls, Serves, BagAt, DirectAliases
      <3>2. b.at # "scan"
        BY <2>5, ScopesFacts DEF Calls
      <3> QED BY <3>1, <3>2 DEF Calls
    <2>7. \A h \in Goroutines \ {g} : ret'[h] = ret[h]
      BY <1>6 DEF IInv, TypeOK
    <2> QED BY <1>1, <1>2, <1>6, <2>1, <2>2, <2>3, <2>6, <2>7, BecomeAgrees
  <1> QED BY <1>2, <1>4, <1>5, <1>6 DEF Through

LEMMA ResolveAgrees ==
    ASSUME DirectAliases, IInv, StacksOK, [Next]_vars, NEW g \in Goroutines, Resolve(g)
    PROVE  StacksOK'
  <1>1. stack[g] # <<>> /\ Top(g).at = "resolve" /\ entry' = entry
    BY DEF Resolve, In, bagVars
  <1>2. PICK f, s, t : f = Top(g) /\ s = f.scope /\ t = f.typ
    OBVIOUS
  <1>3. /\ f \in Frame /\ f.at = "resolve" /\ s \in ScopeSet /\ t \in Types
        /\ f.path \in SUBSET Types
    BY <1>1, <1>2, TopFacts DEF Frame, FrameOK, BagAt
  <1>4. ASSUME NEW r, Return(g, r), \A b : Calls(b, f) => Handed(entry', b, r)
        PROVE  StacksOK'
    BY <1>1, <1>2, <1>4, ReturnAgrees
  <1>5. ASSUME NEW c \in Frame, Become(g, c), ret' = ret, Sound(c), c.at \in {"through", "entry"},
               c.at = "through" => ret[g] = Running,
               \A b : Calls(b, f) => Calls(b, c)
        PROVE  StacksOK'
    <2>1. Handed(entry', c, ret'[g])
      BY <1>5 DEF Handed, Running
    <2> QED BY <1>1, <1>2, <1>5, <2>1, BecomeAgrees
  <1>6. CASE t \notin DOMAIN Regs[s] /\ Return(g, Absent)
    <2>1. \A b : Calls(b, f) => Handed(entry', b, Absent)
      BY <1>2, <1>3, <1>6, HandedAbsence
    <2> QED BY <1>4, <1>6, <2>1
  <1>7. CASE Return(g, Panic)
    BY <1>4, <1>7, HandedPanic
  <1>8. CASE /\ t \in DOMAIN Regs[s]
             /\ Reg(s, t).kind = "alias"
             /\ Become(g, ThroughCall(s, Reg(s, t).target, f.path \cup {t}))
             /\ ret' = ret /\ ret[g] = Running
    <2>1. PICK c : c = ThroughCall(s, Regs[s][t].target, f.path \cup {t})
      OBVIOUS
    <2>2. Regs[s][t].target \in Types /\ Regs[s][t].kind = "alias" /\ f.path \cup {t} \in SUBSET Types
      BY <1>3, <1>8, RegsAssumption DEF Reg
    <2>3. c \in Frame /\ c.at = "through" /\ c.scope = s /\ c.typ = Regs[s][t].target
      BY <1>3, <2>1, <2>2 DEF ThroughCall, Call, Frame, BagAt
    <2>4. Sound(c) /\ Become(g, c)
      BY <1>8, <2>1, <2>3 DEF Sound, Reg
    <2>5. \A u, x : Serves(f, u, x) => Serves(c, u, x)
      BY <1>2, <1>3, <1>8, <2>2, <2>3 DEF Serves, BagAt
    <2>6. \A b : Calls(b, f) => Calls(b, c)
      BY <2>5 DEF Calls
    <2> QED BY <1>5, <1>8, <2>3, <2>4, <2>6
  <1>9. CASE /\ t \in DOMAIN Regs[s]
             /\ Reg(s, t).kind = "instance"
             /\ Return(g, Value([scope |-> s, typ |-> t, run |-> 0]))
    <2>1. PICK v : v = [scope |-> s, typ |-> t, run |-> 0]
      OBVIOUS
    <2>2. v \in Instances
      BY <1>3, <2>1 DEF Instances
    <2>3. Stood(entry', f.scope, f.typ, v)
      BY <1>2, <1>3, <1>9, <2>1, <2>2 DEF Stood, Final, Reg
    <2>4. \A b : Calls(b, f) => Handed(entry', b, Value(v))
      BY <2>3, HandedValue
    <2> QED BY <1>4, <1>9, <2>1, <2>4
  <1>10. CASE /\ t \in DOMAIN Regs[s]
              /\ Reg(s, t).kind = "scoped"
              /\ Goto(g, "entry")
              /\ ret' = ret
    <2>1. PICK c : c = [f EXCEPT !.at = "entry"]
      OBVIOUS
    <2>2. c \in Frame /\ c.at = "entry" /\ c.scope = s /\ c.typ = t /\ Become(g, c)
      BY <1>2, <1>3, <1>10, <2>1 DEF Goto, Frame, BagAt
    <2>3. Sound(c)
      BY <1>10, <2>2 DEF Sound, Reg
    <2>4. \A u, x : Serves(f, u, x) => Serves(c, u, x)
      BY <1>2, <1>3, <2>2 DEF Serves, BagAt
    <2>5. \A b : Calls(b, f) => Calls(b, c)
      BY <2>4 DEF Calls
    <2> QED BY <1>5, <1>10, <2>2, <2>3, <2>5
  <1> QED BY <1>2, <1>6, <1>7, <1>8, <1>9, <1>10 DEF Resolve

LEMMA EntryForAgrees ==
    ASSUME DirectAliases, IInv, StacksOK, [Next]_vars, NEW g \in Goroutines, EntryFor(g)
    PROVE  StacksOK'
  <1>1. stack[g] # <<>> /\ Top(g).at = "entry"
    BY DEF EntryFor, In
  <1>2. CASE Return(g, Panic)
    BY <1>1, <1>2, HandedPanic, ReturnAgrees
  <1>3. CASE Goto(g, "lock") /\ ret' = ret
    <2>1. PICK f, c : f = Top(g) /\ c = [f EXCEPT !.at = "lock"]
      OBVIOUS
    <2>2. /\ f \in Frame /\ Sound(f) /\ f.at = "entry"
          /\ c \in Frame /\ c.at = "lock" /\ c.scope = f.scope /\ c.typ = f.typ /\ Become(g, c)
      BY <1>1, <1>3, <2>1, TopFacts DEF Goto, Frame, BagAt
    <2>3. Sound(c) /\ Handed(entry', c, ret'[g])
      BY <2>2 DEF Sound, Handed
    <2>4. \A u, x : Serves(f, u, x) => Serves(c, u, x)
      BY <2>2 DEF Serves, BagAt
    <2>5. \A b : Calls(b, f) => Calls(b, c)
      BY <2>4 DEF Calls
    <2> QED BY <1>1, <1>3, <2>1, <2>2, <2>3, <2>5, BecomeAgrees
  <1> QED BY <1>2, <1>3 DEF EntryFor

LEMMA LockBuiltAgrees ==
    ASSUME DirectAliases, IInv, StacksOK, [Next]_vars, NEW g \in Goroutines, LockBuilt(g)
    PROVE  StacksOK'
  <1>1. stack[g] # <<>> /\ Top(g).at = "lock" /\ entry' = entry
    BY DEF LockBuilt, In, bagVars
  <1>2. PICK s, t, v : s = Top(g).scope /\ t = Top(g).typ /\ v = entry[s][t]
    OBVIOUS
  <1>3. v # None /\ Return(g, Value(v))
    BY <1>2 DEF LockBuilt
  <1>4. s \in ScopeSet /\ t \in DOMAIN Regs[s] /\ t \in Types /\ Regs[s][t].kind = "scoped"
    BY <1>1, <1>2, TopFacts DEF FrameOK, Frame, BagAt, Sound
  <1>5. v \in Instances
    BY <1>2, <1>3, <1>4 DEF IInv, TypeOK
  <1>6. Stood(entry', Top(g).scope, Top(g).typ, v)
    BY <1>1, <1>2, <1>4, <1>5 DEF Stood, Final
  <1>7. \A b : Calls(b, Top(g)) => Handed(entry', b, Value(v))
    BY <1>6, HandedValue
  <1> QED BY <1>1, <1>3, <1>7, ReturnAgrees

LEMMA LockAndBuildAgrees ==
    ASSUME DirectAliases, IInv, StacksOK, [Next]_vars, NEW g \in Goroutines, LockAndBuild(g)
    PROVE  StacksOK'
  <1>1. stack[g] # <<>> /\ Top(g).at = "lock" /\ ret' = ret
    BY DEF LockAndBuild, In
  <1>2. PICK f, s, t : f = Top(g) /\ s = f.scope /\ t = f.typ
    OBVIOUS
  <1>3. /\ f \in Frame /\ Sound(f) /\ f.at = "lock" /\ s \in ScopeSet /\ t \in DOMAIN Regs[s]
    BY <1>1, <1>2, TopFacts DEF FrameOK, Frame, BagAt
  <1>4. Regs[s][t].needs \subseteq Types
    BY <1>3, RegsAssumption DEF Registration
  <1>5. PICK c : c = [[f EXCEPT !.at = "build"] EXCEPT !.todo = Regs[s][t].needs]
    OBVIOUS
  <1>6. /\ c \in Frame /\ c.at = "build" /\ c.scope = f.scope /\ c.typ = f.typ
    <2>1. PICK d : d = [f EXCEPT !.at = "build"]
      OBVIOUS
    <2>2. d \in Frame /\ d.at = "build" /\ d.scope = f.scope /\ d.typ = f.typ
      BY <1>3, <2>1 DEF Frame, BagAt
    <2>3. c = [d EXCEPT !.todo = Regs[s][t].needs]
      BY <1>5, <2>1
    <2> HIDE <1>5
    <2> QED BY <1>4, <2>2, <2>3 DEF Frame
  <1>7. Become(g, c)
    BY <1>2, <1>5 DEF LockAndBuild, Reg
  <1>8. Sound(c) /\ Handed(entry', c, ret'[g])
    BY <1>3, <1>6 DEF Sound, Handed
  <1>9. \A u, x : Serves(f, u, x) => Serves(c, u, x)
    BY <1>3, <1>6 DEF Serves, BagAt
  <1>10. \A b : Calls(b, f) => Calls(b, c)
    BY <1>9 DEF Calls
  <1> QED BY <1>1, <1>2, <1>6, <1>7, <1>8, <1>10, BecomeAgrees

LEMMA FactoryAsksAgrees ==
    ASSUME DirectAliases, IInv, StacksOK, [Next]_vars, NEW g \in Goroutines, FactoryAsks(g)
    PROVE  StacksOK'
  <1>1. stack[g] # <<>> /\ Top(g).at = "build" /\ ret[g] = Running /\ ret' = ret
    BY DEF FactoryAsks, In
  <1>2. PICK f : f = Top(g)
    OBVIOUS
  <1>3. /\ f \in Frame /\ f.at = "build" /\ Sound(f) /\ f.scope \in ScopeSet
        /\ f.typ \in Types /\ f.path \in SUBSET Types /\ f.todo \in SUBSET Types
    BY <1>1, <1>2, TopFacts DEF Frame, FrameOK, BagAt
  <1>4. PICK d \in f.todo :
            Push(g, [f EXCEPT !.todo = @ \ {d}], ThroughCall(f.scope, d, f.path \cup {f.typ}))
    BY <1>2 DEF FactoryAsks
  <1>5. PICK e, c : e = [f EXCEPT !.todo = f.todo \ {d}] /\ c = ThroughCall(f.scope, d, f.path \cup {f.typ})
    OBVIOUS
  <1>6. d \in Types /\ f.path \cup {f.typ} \in SUBSET Types /\ f.todo \ {d} \in SUBSET Types
    BY <1>3
  <1>7. /\ e \in Frame /\ e.at = "build" /\ e.scope = f.scope /\ e.typ = f.typ
    BY <1>3, <1>5, <1>6 DEF Frame
  <1>8. c \in Frame /\ c.at = "through"
    BY <1>3, <1>5, <1>6 DEF ThroughCall, Call, Frame, BagAt
  <1>9. Push(g, e, c)
    BY <1>4, <1>5
  <1>10. Sound(e) /\ Sound(c) /\ Calls(e, c) /\ Handed(entry', c, ret'[g])
    BY <1>1, <1>3, <1>7, <1>8 DEF Sound, Calls, Handed, Running
  <1>11. \A u, x : Serves(f, u, x) => Serves(e, u, x)
    BY <1>3, <1>7 DEF Serves, BagAt
  <1>12. \A b : Calls(b, f) => Calls(b, e)
    BY <1>11 DEF Calls
  <1> QED BY <1>1, <1>2, <1>7, <1>8, <1>9, <1>10, <1>12, PushAgrees

LEMMA FactoryReturnsAgrees ==
    ASSUME DirectAliases, IInv, StacksOK, [Next]_vars, NEW g \in Goroutines, FactoryReturns(g)
    PROVE  StacksOK'
  <1>1. stack[g] # <<>> /\ Top(g).at = "build"
    BY DEF FactoryReturns, In
  <1>2. PICK s, t : s = Top(g).scope /\ t = Top(g).typ
    OBVIOUS
  <1>3. s \in ScopeSet /\ t \in DOMAIN Regs[s] /\ t \in Types /\ Regs[s][t].kind = "scoped"
    BY <1>1, <1>2, TopFacts DEF FrameOK, Frame, BagAt, Sound
  <1>4. PICK v \in Instances : entry' = [entry EXCEPT ![s][t] = v] /\ Return(g, Value(v))
    <2>1. [scope |-> s, typ |-> t, run |-> runs[s][t]] \in Instances
      BY <1>3 DEF Instances, IInv, TypeOK
    <2> QED BY <1>2, <2>1 DEF FactoryReturns
  <1>5. entry'[s][t] = v
    BY <1>3, <1>4 DEF IInv, TypeOK
  <1>6. Stood(entry', Top(g).scope, Top(g).typ, v)
    BY <1>2, <1>3, <1>5 DEF Stood, Final
  <1>7. \A b : Calls(b, Top(g)) => Handed(entry', b, Value(v))
    BY <1>6, HandedValue
  <1> QED BY <1>1, <1>4, <1>7, ReturnAgrees

LEMMA FactoryStaysAgrees ==
    ASSUME DirectAliases, IInv, StacksOK, [Next]_vars, NEW g \in Goroutines,
           FactoryGets(g) \/ FactoryPanics(g)
    PROVE  StacksOK'
  <1>1. stack[g] # <<>> /\ Top(g).at = "build" /\ stack' = stack
    BY DEF FactoryGets, FactoryPanics, In
  <1>2. \A h \in Goroutines \ {g} : ret'[h] = ret[h]
    BY DEF FactoryGets, FactoryPanics, IInv, TypeOK
  <1>3. Handed(entry', stack[g][Len(stack[g])], ret'[g])
    BY <1>1 DEF Handed, Top
  <1> QED BY <1>1, <1>2, <1>3, StayAgrees

LEMMA NextAgrees ==
    ASSUME DirectAliases, IInv, StacksOK, StageOK, [Next]_vars
    PROVE  StacksOK'
  <1>1. ASSUME NEW g \in Goroutines, Unwind(g) PROVE StacksOK'
    BY <1>1, HandedPanic, ReturnAgrees DEF Unwind
  <1>2. ASSUME NEW g \in Goroutines, Advance(g) PROVE StacksOK'
    BY <1>1, <1>2, CachedAgrees, SnapshotAgrees, ScanAgrees, RememberAgrees, ThroughAgrees,
       ResolveAgrees, EntryForAgrees, LockBuiltAgrees, LockAndBuildAgrees,
       FactoryAsksAgrees, FactoryStaysAgrees, FactoryReturnsAgrees
    DEF Advance
  <1>3. ASSUME NEW g \in Goroutines, NEW t \in Types, Ask(g, t) PROVE StacksOK'
    BY <1>3, AskAgrees
  <1>4. CASE Close \/ Finished \/ UNCHANGED vars
    <2>1. stack' = stack /\ ret' = ret
      BY <1>4 DEF Close, CloseStage, CloseScope, CloseInstance, Finished, goVars, vars
    <2> QED BY <2>1, StayAgrees
  <1> QED BY <1>2, <1>3, <1>4 DEF Next

\* What the stage has remembered and what it has answered, after a step.
LEMMA NextStage ==
    ASSUME DirectAliases, IInv, StacksOK, StageOK, [Next]_vars
    PROVE  StageOK'
  <1>1. /\ \A t \in Types : cache[t] # None => StageGave(entry', t, cache[t])
        /\ \A a \in answers : a[1] = None => StageGave(entry', a[2], a[3])
    BY GaveStays DEF StageOK
  <1>2. scopes' \in {Scopes, <<>>}
    <2>1. CASE CloseStage
      BY <2>1 DEF CloseStage
    <2>2. CASE ~ CloseStage
      <3>1. scopes' = scopes
        BY <2>2
        DEF Next, Advance, Ask, Cached, Snapshot, Scan, Remember, Through, Resolve,
            EntryFor, LockBuilt, LockAndBuild, FactoryAsks, FactoryGets, FactoryReturns,
            FactoryPanics, Unwind, Close, CloseScope, CloseInstance, Finished, stageVars, vars
      <3> QED BY <3>1 DEF StageOK
    <2> QED BY <2>1, <2>2
  <1> SUFFICES ASSUME \/ ~ \A t \in Types : cache'[t] # None => StageGave(entry', t, cache'[t])
                      \/ ~ \A a \in answers' : a[1] = None => StageGave(entry', a[2], a[3])
               PROVE  FALSE
    BY <1>2 DEF StageOK, StageGave, Stood
  <1>3. ASSUME NEW g \in Goroutines, Cached(g) PROVE FALSE
    <2>1. cache' = cache /\ Top(g).typ \in Types
      BY <1>3, TopFacts DEF Cached, In, Frame, stageVars
    <2>2. PICK t \in Types : t = Top(g).typ
      BY <2>1
    <2>3. answers' = answers \/ (cache[t] # None /\ answers' = answers \cup {<<None, t, cache[t]>>})
      BY <1>3, <2>2 DEF Cached, Answer
    <2> QED BY <1>1, <2>1, <2>3
  <1>4. ASSUME NEW g \in Goroutines, Remember(g) PROVE FALSE
    <2>1. /\ stack[g] # <<>> /\ Top(g).at = "scan" /\ ret[g].tag = "value"
          /\ Top(g).typ \in Types
      BY <1>4, TopFacts DEF Remember, In, Frame
    <2>2. StageGave(entry', Top(g).typ, ret[g].inst)
      BY <2>1, TopFacts, GaveStays DEF Handed
    <2>3. PICK t, v : /\ t \in Types /\ t = Top(g).typ
                     /\ v = IF cache[t] # None THEN cache[t] ELSE ret[g].inst
      BY <2>1
    <2>4. cache' = [cache EXCEPT ![t] = v] /\ answers' = answers \cup {<<None, t, v>>}
      BY <1>4, <2>3 DEF Remember, Answer
    <2>5. StageGave(entry', t, v)
      BY <1>1, <2>2, <2>3
    <2>6. \A x \in Types : cache'[x] = IF x = t THEN v ELSE cache[x]
      BY <2>4 DEF IInv, TypeOK
    <2> QED BY <1>1, <2>4, <2>5, <2>6
  <1>5. ASSUME NEW who, NEW t, NEW v, Answer(who, t, v), who # None, cache' = cache PROVE FALSE
    BY <1>1, <1>5 DEF Answer
  <1>6. ASSUME NEW g \in Goroutines, LockBuilt(g) \/ FactoryReturns(g) PROVE FALSE
    <2>1. Top(g).scope # None
      BY <1>6, TopFacts, NoneAssumption DEF LockBuilt, FactoryReturns, In, FrameOK, BagAt
    <2>2. cache' = cache /\ \E t, v : Answer(Top(g).scope, t, v)
      BY <1>6 DEF LockBuilt, FactoryReturns, stageVars
    <2> QED BY <1>5, <2>1, <2>2
  <1>7. CASE CloseStage
    <2>1. answers' = answers /\ \A t \in Types : cache'[t] = None
      BY <1>7 DEF CloseStage
    <2> QED BY <1>1, <2>1
  <1>8. CASE ~ CloseStage /\ \A g \in Goroutines :
                  ~ Cached(g) /\ ~ Remember(g) /\ ~ LockBuilt(g) /\ ~ FactoryReturns(g)
    <2>1. answers' = answers /\ cache' = cache
      BY <1>8 DEF Next, Advance, Ask, Snapshot, Scan, Through, Resolve,
           EntryFor, LockAndBuild, FactoryAsks, FactoryGets,
           FactoryPanics, Unwind, Close, CloseScope, CloseInstance,
           Finished, stageVars, vars
    <2> QED BY <1>1, <2>1
  <1> QED BY <1>3, <1>4, <1>6, <1>7, <1>8

LEMMA InitAgrees == Init => StacksOK /\ StageOK
  <1> SUFFICES ASSUME Init PROVE StacksOK /\ StageOK
    OBVIOUS
  <1>1. \A g \in Goroutines : stack[g] = <<>> /\ Len(stack[g]) = 0
    BY DEF Init
  <1>2. StacksOK
    BY <1>1 DEF StacksOK, SoundOK, CallsOK, HandedOK
  <1>3. StageOK
    BY DEF Init, StageOK
  <1> QED BY <1>2, <1>3

LEMMA InvAgreement ==
    ASSUME DirectAliases, IInv, StageOK, AnswersOK
    PROVE  Agreement
  <1> SUFFICES ASSUME NEW a \in answers, NEW b \in answers, a[1] = b[1], a[2] = b[2]
               PROVE  a[3] = b[3]
    BY DEF Agreement
  <1>1. a[1] \in ScopeSet \cup {None}
    BY DEF IInv, TypeOK
  <1>2. CASE a[1] = None
    BY <1>2, StageGaveOnce DEF StageOK
  <1>3. CASE a[1] \in ScopeSet
    BY <1>3 DEF AnswersOK
  <1> QED BY <1>1, <1>2, <1>3

\* In every composition whose aliases are direct: whoever is given an instance
\* of a type by the stage, or by one scope, is given the same one, on either
\* side of a Close that empties the cache and the stage's list of scopes.
THEOREM AgreementHolds ==
    ASSUME DirectAliases
    PROVE  Spec => []Agreement
  <1>1. Init => StacksOK /\ StageOK /\ AnswersOK
    BY InitAgrees, InitClosing
  <1>2. IInv /\ (StacksOK /\ StageOK /\ AnswersOK) /\ [Next]_vars => (StacksOK /\ StageOK /\ AnswersOK)'
    BY NextAgrees, NextStage, AnswersKept
  <1>3. IInv /\ (StacksOK /\ StageOK /\ AnswersOK) => Agreement
    BY InvAgreement
  <1> QED BY <1>1, <1>2, <1>3, Invariance, PTL DEF Spec

-----------------------------------------------------------------------------
(***************************************************************************)
(* The registry.  What it owns is what the entries hold, what it has       *)
(* handed out is what the stage has answered, what is due is the batch of  *)
(* the scope being closed.  A factory's return creates, an answer of the   *)
(* stage hands out, CloseScope ends what its scope has queued and          *)
(* CloseInstance frees; every other step leaves the registry alone.        *)
(***************************************************************************)

Owned(e) == [p \in ScopeSet \X Types |-> e[p[1]][p[2]]]

HandedOut(A) == {<<a[2], a[3]>> : a \in {b \in A : b[1] = None}}

NamesIn(q) == {<<q[i].scope, q[i].typ>> : i \in DOMAIN q}

\* Who is in a factory has run it, and only closers are queued or taken.
MarksOK ==
    /\ \A s \in ScopeSet, t \in Types : holder[s][t] # None => runs[s][t] # 0
    /\ \A s \in ScopeSet : \A i \in 1..Len(closers[s]) : IsCloser(s, closers[s][i].typ)
    /\ \A i \in 1..Len(batch) : IsCloser(batch[i].scope, batch[i].typ)

\* What the refinement rests on.
RegistryInv == OrderInv /\ StacksOK /\ StageOK /\ MarksOK

LEMMA InitMarks == Init => MarksOK
  <1> SUFFICES ASSUME Init PROVE MarksOK
    OBVIOUS
  <1>1. /\ \A s \in ScopeSet, t \in Types : holder[s][t] = None
        /\ \A s \in ScopeSet : Len(closers[s]) = 0
        /\ Len(batch) = 0
    BY DEF Init
  <1> QED BY <1>1 DEF MarksOK

LEMMA NextMarks ==
    ASSUME IInv, ClosingOK, CallsLinked, ShutOK, MarksOK, [Next]_vars
    PROVE  MarksOK'
  <1>0. /\ holder \in [ScopeSet -> [Types -> Goroutines \cup {None}]]
        /\ runs \in [ScopeSet -> [Types -> Nat]]
        /\ closers \in [ScopeSet -> Seq(Instances)]
    BY DEF IInv, TypeOK
  <1>1. \A s \in ScopeSet, t \in Types : holder'[s][t] # None => runs'[s][t] # 0
    <2> SUFFICES ASSUME NEW s \in ScopeSet, NEW t \in Types, holder'[s][t] # None
                 PROVE  runs'[s][t] # 0
      OBVIOUS
    <2>1. ASSUME NEW g \in Goroutines, LockAndBuild(g) PROVE runs'[s][t] # 0
      <3>1. PICK u, x : u = Top(g).scope /\ x = Top(g).typ
        OBVIOUS
      <3>2. /\ holder' = [holder EXCEPT ![u][x] = g]
            /\ runs' = [runs EXCEPT ![u][x] = @ + 1]
        BY <2>1, <3>1 DEF LockAndBuild
      <3>3. u \in ScopeSet /\ x \in Types
        BY <2>1, <3>1, TopOK DEF LockAndBuild, In, FrameOK, BagAt, Frame
      <3>4. CASE u = s /\ x = t
        BY <1>0, <3>2, <3>3, <3>4
      <3>5. CASE ~ (u = s /\ x = t)
        <4>1. holder'[s][t] = holder[s][t] /\ runs'[s][t] = runs[s][t]
          BY <1>0, <3>2, <3>3, <3>5
        <4> QED BY <4>1 DEF MarksOK
      <3> QED BY <3>4, <3>5
    <2>2. CASE \A g \in Goroutines : ~ LockAndBuild(g)
      <3>1. runs' = runs
        BY <2>2
        DEF Next, Advance, Ask, Cached, Snapshot, Scan, Remember, Through, Resolve,
            EntryFor, LockBuilt, FactoryAsks, FactoryGets, FactoryReturns,
            FactoryPanics, Unwind, Close, CloseStage, CloseScope, CloseInstance,
            Finished, bagVars, vars
      <3>2. holder[s][t] # None
        <4>1. ASSUME NEW u, NEW x, holder' = [holder EXCEPT ![u][x] = None] PROVE holder[s][t] # None
          BY <1>0, <4>1
        <4>2. holder' = holder \/ \E u, x : holder' = [holder EXCEPT ![u][x] = None]
          BY <2>2
          DEF Next, Advance, Ask, Cached, Snapshot, Scan, Remember, Through, Resolve,
              EntryFor, LockBuilt, FactoryAsks, FactoryGets, FactoryReturns,
              FactoryPanics, Unwind, Close, CloseStage, CloseScope, CloseInstance,
              Finished, bagVars, vars
        <4> QED BY <4>1, <4>2
      <3> QED BY <3>1, <3>2 DEF MarksOK
    <2> QED BY <2>1, <2>2
  <1>2. /\ \A s \in ScopeSet : \A i \in 1..Len(closers'[s]) : IsCloser(s, closers'[s][i].typ)
        /\ \A i \in 1..Len(batch') : IsCloser(batch'[i].scope, batch'[i].typ)
    <2>1. ASSUME NEW g \in Goroutines, FactoryReturns(g)
          PROVE  /\ \A s \in ScopeSet : \A i \in 1..Len(closers'[s]) : IsCloser(s, closers'[s][i].typ)
                 /\ batch' = batch
      <3>1. PICK s \in ScopeSet, t \in Types, v \in Instances :
                /\ Scoped(s, t) /\ v.typ = t
                /\ closers' = IF Reg(s, t).closer THEN [closers EXCEPT ![s] = Append(@, v)] ELSE closers
                /\ batch' = batch
        BY <2>1, FactoryReturnsOver
      <3>2. CASE closers' = closers
        BY <3>1, <3>2 DEF MarksOK
      <3>3. CASE Reg(s, t).closer /\ closers' = [closers EXCEPT ![s] = Append(@, v)]
        <4>1. /\ closers'[s] = Append(closers[s], v)
              /\ \A u \in ScopeSet \ {s} : closers'[u] = closers[u]
          BY <1>0, <3>3
        <4>2. /\ Len(closers'[s]) = Len(closers[s]) + 1 /\ Len(closers[s]) \in Nat
              /\ closers'[s][Len(closers[s]) + 1] = v
              /\ \A i \in 1..Len(closers[s]) : closers'[s][i] = closers[s][i]
          BY <4>1, ClosingTypes, AppendFacts
        <4>3. \A i \in 1..Len(closers'[s]) : i = Len(closers[s]) + 1 \/ i \in 1..Len(closers[s])
          BY <4>2
        <4>4. IsCloser(s, t)
          BY <3>1, <3>3 DEF Scoped, IsCloser
        <4>5. \A i \in 1..Len(closers'[s]) : IsCloser(s, closers'[s][i].typ)
          BY <3>1, <4>2, <4>3, <4>4 DEF MarksOK
        <4> QED BY <3>1, <4>1, <4>5 DEF MarksOK
      <3> QED BY <3>1, <3>2, <3>3
    <2>2. CASE CloseScope
      <3>1. PICK s : s = toClose[Len(toClose)]
        OBVIOUS
      <3>2. batch' = closers[s] /\ closers' = [closers EXCEPT ![s] = <<>>] /\ toClose # <<>>
        BY <2>2, <3>1 DEF CloseScope
      <3>3. s \in ScopeSet
        <4>1. toClose \in Seq(ScopeSet)
          BY DEF IInv, TypeOK
        <4> QED BY <3>1, <3>2, <4>1, EmptySeq, LenProperties, ElementOfSeq
      <3>4. /\ closers'[s] = <<>> /\ Len(closers'[s]) = 0
            /\ \A u \in ScopeSet \ {s} : closers'[u] = closers[u]
        BY <1>0, <3>2, <3>3
      <3>5. \A i \in 1..Len(closers[s]) : closers[s][i].scope = s
        BY <3>3 DEF ClosingOK, NamesOK
      <3> QED BY <3>2, <3>3, <3>4, <3>5 DEF MarksOK
    <2>3. CASE CloseInstance
      <3>1. batch # <<>> /\ batch' = SubSeq(batch, 1, Len(batch) - 1) /\ closers' = closers
        BY <2>3 DEF CloseInstance, bagVars
      <3>2. /\ Len(batch) \in Nat \ {0} /\ Len(batch') = Len(batch) - 1
            /\ \A i \in 1..(Len(batch) - 1) : batch'[i] = batch[i]
        BY <3>1, ClosingTypes, FrontFacts
      <3> QED BY <3>1, <3>2 DEF MarksOK
    <2>4. CASE ~ CloseScope /\ ~ CloseInstance /\ \A g \in Goroutines : ~ FactoryReturns(g)
      <3>1. batch' = batch /\ closers' = closers
        BY <2>4
        DEF Next, Advance, Ask, Cached, Snapshot, Scan, Remember, Through, Resolve,
            EntryFor, LockBuilt, LockAndBuild, FactoryAsks, FactoryGets,
            FactoryPanics, Unwind, Close, CloseStage, Finished, bagVars, endVars, vars
      <3> QED BY <3>1 DEF MarksOK
    <2> QED BY <2>1, <2>2, <2>3, <2>4 DEF MarksOK
  <1> QED BY <1>1, <1>2 DEF MarksOK, IsCloser, Reg

-----------------------------------------------------------------------------
(* What the four steps that show do to the registry.                       *)

LEMMA StageAnswer ==
    ASSUME NEW A, NEW t, NEW v, NEW B, B = A \cup {<<None, t, v>>}
    PROVE  HandedOut(B) = HandedOut(A) \cup {<<t, v>>}
  <1>1. HandedOut(B) \subseteq HandedOut(A) \cup {<<t, v>>}
    BY DEF HandedOut
  <1>2. <<None, t, v>>[1] = None /\ <<None, t, v>>[2] = t /\ <<None, t, v>>[3] = v
    OBVIOUS
  <1>3. <<t, v>> \in HandedOut(B)
    BY <1>2 DEF HandedOut
  <1>4. HandedOut(A) \subseteq HandedOut(B)
    BY DEF HandedOut
  <1> QED BY <1>1, <1>3, <1>4

LEMMA FactoryReturnsCreates ==
    ASSUME RegistryInv, [Next]_vars, NEW g \in Goroutines, FactoryReturns(g)
    PROVE  \E e \in ScopeSet \X Types : Promise!Create(e)
  <1>1. PICK s \in ScopeSet, t \in Types, v \in Instances :
            /\ s = Top(g).scope /\ t = Top(g).typ
            /\ v.scope = s /\ v.typ = t
            /\ entry' = [entry EXCEPT ![s][t] = v]
            /\ entry[s][t] = None /\ entry'[s][t] = v
            /\ \A u \in ScopeSet, x \in Types : ~ (u = s /\ x = t) => entry'[u][x] = entry[u][x]
            /\ batch' = batch /\ released' = released
    BY FactoryReturnsOver DEF RegistryInv, OrderInv
  <1>2. v.run # 0
    <2>1. /\ Len(stack[g]) \in 1..Len(stack[g]) /\ Top(g) = stack[g][Len(stack[g])]
          /\ Top(g).at = "build"
      BY TopIsFrame DEF RegistryInv, OrderInv, IInv, TypeOK, FactoryReturns, In
    <2>2. holder[s][t] = g
      BY <1>1, <2>1 DEF RegistryInv, OrderInv, IInv, StackInv, BuildersHold
    <2>3. entry' = [entry EXCEPT ![s][t] = [scope |-> s, typ |-> t, run |-> runs[s][t]]]
      BY <1>1 DEF FactoryReturns
    <2>4. entry'[s][t] = [scope |-> s, typ |-> t, run |-> runs[s][t]]
      BY <2>3 DEF RegistryInv, OrderInv, IInv, TypeOK
    <2> QED BY <1>1, <2>2, <2>4, NoneAssumption DEF RegistryInv, MarksOK
  <1>3. \A u \in ScopeSet, x \in Types : entry[u][x] # v
    <2> SUFFICES ASSUME NEW u \in ScopeSet, NEW x \in Types, entry[u][x] = v PROVE FALSE
      OBVIOUS
    <2>1. u = s /\ x = t
      BY <1>1, InstancesAreSomething DEF RegistryInv, OrderInv, ClosingOK, NamesOK
    <2> QED BY <1>1, <2>1, InstancesAreSomething
  <1>4. HandedOut(answers') = HandedOut(answers)
    <2>1. PICK x, y : answers' = answers \cup {<<s, x, y>>}
      BY <1>1 DEF FactoryReturns, Answer
    <2>2. s # None
      BY NoneAssumption
    <2>3. \A a \in answers' : a[1] = None => a \in answers
      BY <2>1, <2>2
    <2>4. answers \subseteq answers'
      BY <2>1
    <2> QED BY <2>3, <2>4 DEF HandedOut
  <1>5. PICK e \in ScopeSet \X Types : e = <<s, t>>
    OBVIOUS
  <1>6. /\ Owned(entry)[e] = None /\ Owned(entry')[e] = v
        /\ \A d \in ScopeSet \X Types : Owned(entry)[d] # v
    BY <1>1, <1>3, <1>5 DEF Owned
  <1>7. Owned(entry') = [Owned(entry) EXCEPT ![e] = Owned(entry')[e]]
    <2>1. \A d \in ScopeSet \X Types : d # e => Owned(entry')[d] = Owned(entry)[d]
      BY <1>1, <1>5 DEF Owned
    <2> QED BY <2>1 DEF Owned
  <1>8. v \in Instances \ {w \in Instances : w.run = 0}
    BY <1>2
  <1>9. Promise!Create(e)
    <2>1. UNCHANGED <<HandedOut(answers), NamesIn(batch), NamesIn(released)>>
      BY <1>1, <1>4 DEF NamesIn, HandedOut
    <2> QED BY <1>6, <1>7, <1>8, <2>1 DEF Promise!Create, Owned, HandedOut, NamesIn
  <1> QED BY <1>9

\* An answer of the stage is an instance that exists, the one it always gave.
LEMMA AnswerHands ==
    ASSUME DirectAliases, RegistryInv, [Next]_vars, StageOK', NEW t, NEW v,
           answers' = answers \cup {<<None, t, v>>},
           UNCHANGED <<entry, batch, released>>
    PROVE  \E h \in HandedOut(answers') : Promise!Hand(h[1], h[2])
  <1>1. StageGave(entry, t, v)
    <2>1. <<None, t, v>> \in answers'
      OBVIOUS
    <2>2. \A a \in answers' : a[1] = None => StageGave(entry', a[2], a[3])
      BY DEF StageOK, StageGave, Stood
    <2>3. StageGave(entry', t, v)
      BY <2>1, <2>2
    <2> QED BY <2>3
  <1>2. v \in {w \in Instances : w.run = 0} \/ \E e \in ScopeSet \X Types : Owned(entry)[e] = v
    <2>1. PICK s : Stood(entry, s, t, v)
      BY <1>1 DEF StageGave
    <2>2. s \in ScopeSet /\ t \in DOMAIN Regs[s] /\ v \in Instances
      BY <2>1 DEF Stood
    <2>3. Final(s, t) \in Types /\ Regs[s][Final(s, t)].kind \in {"instance", "scoped"}
      BY <2>2, FinalFacts
    <2>4. CASE Regs[s][Final(s, t)].kind = "instance"
      BY <2>1, <2>2, <2>4 DEF Stood
    <2>5. CASE Regs[s][Final(s, t)].kind = "scoped"
      <3>1. v = entry[s][Final(s, t)] /\ <<s, Final(s, t)>> \in ScopeSet \X Types
        BY <2>1, <2>2, <2>3, <2>5 DEF Stood
      <3>2. Owned(entry)[<<s, Final(s, t)>>] = v
        BY <3>1 DEF Owned
      <3> QED BY <3>1, <3>2
    <2> QED BY <2>3, <2>4, <2>5
  <1>3. \A h \in HandedOut(answers) : h[1] = t => h[2] = v
    <2> SUFFICES ASSUME NEW h \in HandedOut(answers), h[1] = t PROVE h[2] = v
      OBVIOUS
    <2>1. PICK a \in answers : a[1] = None /\ h = <<a[2], a[3]>>
      BY DEF HandedOut
    <2>2. StageGave(entry, t, h[2])
      BY <2>1 DEF RegistryInv, StageOK
    <2> QED BY <1>1, <2>2, StageGaveOnce
  <1>4. HandedOut(answers') = HandedOut(answers) \cup {<<t, v>>}
    BY StageAnswer
  <1>5. PICK h \in HandedOut(answers') : h = <<t, v>> /\ h[1] = t /\ h[2] = v
    <2>1. <<t, v>> \in HandedOut(answers')
      BY <1>4
    <2> QED BY ONLY <2>1
  <1>6. UNCHANGED <<Owned(entry), NamesIn(batch), NamesIn(released)>>
    BY DEF Owned, NamesIn
  <1>7. Promise!Hand(t, v)
    BY <1>2, <1>3, <1>4, <1>6 DEF Promise!Hand, Owned, HandedOut, NamesIn
  <1> QED BY <1>5, <1>7

\* In a list of entries' instances the names tell the instances.
LEMMA NamesTell ==
    ASSUME NEW v \in Instances, NEW w \in Instances, v = Own(v), w = Own(w),
           <<v.scope, v.typ>> = <<w.scope, w.typ>>
    PROVE  v = w
  BY DEF Own

LEMMA CloseScopeEnds ==
    ASSUME RegistryInv, CloseScope
    PROVE  \E E \in SUBSET (ScopeSet \X Types) : Promise!End(E)
  <1>1. PICK s : s = toClose[Len(toClose)]
    OBVIOUS
  <1>2. /\ batch = <<>> /\ toClose # <<>> /\ batch' = closers[s]
        /\ entry' = entry /\ released' = released /\ answers' = answers
    BY <1>1 DEF CloseScope
  <1>3. s \in ScopeSet
    <2>1. toClose \in Seq(ScopeSet)
      BY DEF RegistryInv, OrderInv, IInv, TypeOK
    <2> QED BY <1>1, <1>2, <2>1, EmptySeq, LenProperties, ElementOfSeq
  <1>4. /\ DOMAIN closers[s] = 1..Len(closers[s]) /\ DOMAIN released = 1..Len(released)
        /\ \A i \in 1..Len(closers[s]) :
              /\ closers[s][i] \in Instances /\ closers[s][i].scope = s
              /\ closers[s][i] = Own(closers[s][i])
        /\ \A i \in 1..Len(released) : released[i] \in Instances /\ released[i] = Own(released[i])
        /\ \A i \in 1..Len(closers[s]), j \in 1..Len(released) : closers[s][i] # released[j]
    BY <1>3, ClosingTypes, LenProperties DEF RegistryInv, OrderInv, ClosingOK, NamesOK, PlacesOK
  <1>5. PICK E : E = NamesIn(closers[s])
    OBVIOUS
  <1>6. E \in SUBSET (ScopeSet \X Types)
    BY <1>4, <1>5 DEF NamesIn, Instances
  <1>7. \A e \in E : Owned(entry)[e] # None
    <2> SUFFICES ASSUME NEW e \in E PROVE Owned(entry)[e] # None
      OBVIOUS
    <2>1. PICK i \in 1..Len(closers[s]) : e = <<closers[s][i].scope, closers[s][i].typ>>
      BY <1>4, <1>5 DEF NamesIn
    <2>2. Owned(entry)[e] = closers[s][i]
      BY <1>4, <1>6, <2>1 DEF Owned, Own
    <2> QED BY <1>4, <2>2, InstancesAreSomething
  <1>8. NamesIn(batch) = {} /\ NamesIn(batch') = E
    BY <1>2, <1>5 DEF NamesIn
  <1>9. E \cap NamesIn(released) = {}
    <2> SUFFICES ASSUME NEW e \in E, e \in NamesIn(released) PROVE FALSE
      OBVIOUS
    <2>1. PICK i \in 1..Len(closers[s]) : e = <<closers[s][i].scope, closers[s][i].typ>>
      BY <1>4, <1>5 DEF NamesIn
    <2>2. PICK j \in 1..Len(released) : e = <<released[j].scope, released[j].typ>>
      BY <1>4 DEF NamesIn
    <2>3. closers[s][i] = released[j]
      BY <1>4, <2>1, <2>2, NamesTell
    <2> QED BY <1>4, <2>3
  <1>10. UNCHANGED <<Owned(entry), HandedOut(answers), NamesIn(released)>>
    BY <1>2 DEF Owned, HandedOut, NamesIn
  <1>11. /\ E \cap (NamesIn(batch) \cup NamesIn(released)) = {}
         /\ NamesIn(batch') = NamesIn(batch) \cup E
    BY <1>8, <1>9
  <1>12. Promise!End(E)
    BY <1>7, <1>10, <1>11 DEF Promise!End, Owned, HandedOut, NamesIn
  <1> QED BY <1>6, <1>12

LEMMA CloseInstanceFrees ==
    ASSUME RegistryInv, CloseInstance
    PROVE  \E e \in ScopeSet \X Types : Promise!Free(e)
  <1> DEFINE n == Len(batch)
             m == Len(released)
             v == batch[n]
  <1>1. /\ batch # <<>> /\ batch' = SubSeq(batch, 1, n - 1)
        /\ released' = Append(released, v)
        /\ entry' = entry /\ answers' = answers
    BY DEF CloseInstance, bagVars
  <1>2. /\ n \in Nat \ {0} /\ Len(batch') = n - 1 /\ batch' \in Seq(Instances)
        /\ \A i \in 1..(n - 1) : batch'[i] = batch[i]
    BY <1>1, ClosingTypes, FrontFacts DEF RegistryInv, OrderInv
  <1>3. /\ n \in 1..n /\ v \in Instances /\ m \in Nat
        /\ \A i \in 1..n : batch[i] \in Instances
    BY <1>2, ClosingTypes DEF RegistryInv, OrderInv
  <1>4. /\ Len(released') = m + 1 /\ released'[m + 1] = v /\ released' \in Seq(Instances)
        /\ \A i \in 1..m : released'[i] = released[i]
    BY <1>1, <1>3, ClosingTypes, AppendFacts DEF RegistryInv, OrderInv
  <1>5. /\ DOMAIN batch = 1..n /\ DOMAIN batch' = 1..(n - 1)
        /\ DOMAIN released = 1..m /\ DOMAIN released' = 1..(m + 1)
    BY <1>2, <1>4, ClosingTypes, LenProperties DEF RegistryInv, OrderInv
  <1>6. /\ \A i \in 1..n : batch[i] = Own(batch[i])
        /\ \A i, j \in 1..n : batch[i] = batch[j] => i = j
    BY DEF RegistryInv, OrderInv, ClosingOK, NamesOK, PlacesOK
  <1>7. PICK e \in ScopeSet \X Types : e = <<v.scope, v.typ>>
    BY <1>3 DEF Instances
  <1>d. n = Len(batch) /\ m = Len(released) /\ v = batch[n] /\ e = <<v.scope, v.typ>>
    BY <1>7
  <1> HIDE DEF n, m, v
  <1>8. e \in NamesIn(batch)
    BY <1>3, <1>5, <1>d DEF NamesIn
  <1>9. \A d \in NamesIn(batch) :
            ~ (d[1] = e[1] /\ e[2] \in Uses[d[1]][d[2]])
    <2> SUFFICES ASSUME NEW d \in NamesIn(batch), d[1] = e[1], e[2] \in Uses[d[1]][d[2]]
                 PROVE  FALSE
      OBVIOUS
    <2>1. PICK i \in 1..n : d = <<batch[i].scope, batch[i].typ>>
      BY <1>5 DEF NamesIn
    <2>2. PICK u \in ScopeSet, x \in Types, y \in Types :
              u = batch[i].scope /\ x = batch[i].typ /\ y = v.typ
      BY <1>3 DEF Instances
    <2>3. u = v.scope /\ y \in Uses[u][x]
      BY <1>d, <2>1, <2>2
    <2>4. entry[u][x] = batch[i] /\ entry[u][y] = v /\ entry[u][x] # None
      BY <1>3, <1>6, <1>d, <2>2, <2>3, InstancesAreSomething DEF Own
    <2>5. IsCloser(u, x) /\ IsCloser(u, y)
      BY <1>3, <1>d, <2>2, <2>3 DEF RegistryInv, MarksOK
    <2>6. Placed(v, batch)
      BY <1>3, <1>d DEF Placed
    <2>7. Before(batch[i], v, batch) \/ Gone(batch[i], u)
      BY <2>3, <2>4, <2>5, <2>6 DEF RegistryInv, OrderInv, OrderOK
    <2>8. ~ Before(batch[i], v, batch)
      <3> SUFFICES ASSUME Before(batch[i], v, batch) PROVE FALSE
        OBVIOUS
      <3>1. PICK k \in 1..n, j \in 1..n : j < k /\ batch[j] = v
        BY <1>d DEF Before
      <3>2. j = n
        BY <1>3, <1>6, <1>d, <3>1
      <3> QED BY <1>2, <3>1, <3>2
    <2>9. ~ Gone(batch[i], u)
      BY <1>d, <2>2 DEF RegistryInv, OrderInv, ClosingOK, PlacesOK, Gone, Placed
    <2> QED BY <2>7, <2>8, <2>9
  <1>10. NamesIn(batch') = NamesIn(batch) \ {e}
    <2>1. ASSUME NEW d \in NamesIn(batch') PROVE d \in NamesIn(batch) /\ d # e
      <3>1. PICK i \in 1..(n - 1) : d = <<batch'[i].scope, batch'[i].typ>>
        BY <1>5, <2>1 DEF NamesIn
      <3>2. i \in 1..n /\ i # n /\ batch'[i] = batch[i]
        BY <1>2, <3>1
      <3>3. d \in NamesIn(batch)
        BY <1>5, <3>1, <3>2 DEF NamesIn
      <3>4. CASE d = e
        <4>1. batch[i] = v
          BY <1>3, <1>6, <1>d, <3>1, <3>2, <3>4, NamesTell
        <4> QED BY <1>3, <1>6, <1>d, <3>2, <4>1
      <3> QED BY <3>3, <3>4
    <2>2. ASSUME NEW d \in NamesIn(batch), d # e PROVE d \in NamesIn(batch')
      <3>1. PICK i \in 1..n : d = <<batch[i].scope, batch[i].typ>>
        BY <1>5, <2>2 DEF NamesIn
      <3>2. i \in 1..(n - 1)
        BY <1>2, <1>d, <2>2, <3>1
      <3> QED BY <1>2, <1>5, <3>1, <3>2 DEF NamesIn
    <2> QED BY <2>1, <2>2
  <1>11. NamesIn(released') = NamesIn(released) \cup {e}
    <2>1. ASSUME NEW d \in NamesIn(released') PROVE d \in NamesIn(released) \/ d = e
      <3>1. PICK i \in 1..(m + 1) : d = <<released'[i].scope, released'[i].typ>>
        BY <1>5, <2>1 DEF NamesIn
      <3>2. i \in 1..m \/ i = m + 1
        BY <1>3
      <3>3. CASE i = m + 1
        BY <1>4, <1>d, <3>1, <3>3
      <3>4. CASE i \in 1..m
        BY <1>4, <1>5, <3>1, <3>4 DEF NamesIn
      <3> QED BY <3>2, <3>3, <3>4
    <2>2. ASSUME NEW d \in NamesIn(released) PROVE d \in NamesIn(released')
      <3>1. PICK i \in 1..m : d = <<released[i].scope, released[i].typ>>
        BY <1>5, <2>2 DEF NamesIn
      <3>2. i \in 1..(m + 1) /\ released'[i] = released[i]
        BY <1>3, <1>4, <3>1
      <3> QED BY <1>5, <3>1, <3>2 DEF NamesIn
    <2>3. e \in NamesIn(released')
      <3>1. m + 1 \in 1..(m + 1)
        BY <1>3
      <3> QED BY <1>4, <1>5, <1>d, <3>1 DEF NamesIn
    <2> QED BY <2>1, <2>2, <2>3
  <1>12. UNCHANGED <<Owned(entry), HandedOut(answers)>>
    BY <1>1 DEF Owned, HandedOut
  <1>13. Promise!Free(e)
    <2>1. \A d \in NamesIn(batch) :
              <<d, e>> \notin {p \in (ScopeSet \X Types) \X (ScopeSet \X Types) :
                                  /\ p[1][1] = p[2][1]
                                  /\ p[2][2] \in Uses[p[1][1]][p[1][2]]}
      BY <1>9
    <2> QED BY <1>8, <1>10, <1>11, <1>12, <2>1 DEF Promise!Free, Owned, HandedOut, NamesIn
  <1> QED BY <1>7, <1>13

\* Every step of the stage is a step of the registry, or none.
LEMMA NextImplements ==
    ASSUME DirectAliases, RegistryInv, StageOK', [Next]_vars
    PROVE  [Promise!Next]_(Promise!regVars)
  <1>1. ASSUME NEW g \in Goroutines, FactoryReturns(g) PROVE Promise!Next
    BY <1>1, FactoryReturnsCreates DEF Promise!Next
  <1>2. CASE CloseScope
    BY <1>2, CloseScopeEnds DEF Promise!Next
  <1>3. CASE CloseInstance
    BY <1>3, CloseInstanceFrees DEF Promise!Next
  <1>4. ASSUME UNCHANGED <<entry, batch, released>>, NEW t, NEW v,
               answers' = answers \cup {<<None, t, v>>}
        PROVE  Promise!Next
    BY <1>4, AnswerHands DEF Promise!Next, HandedOut
  <1>5. ASSUME UNCHANGED <<entry, batch, released>>, HandedOut(answers') = HandedOut(answers)
        PROVE  UNCHANGED Promise!regVars
    BY <1>5 DEF Promise!regVars, HandedOut
  <1>6. ASSUME NEW g \in Goroutines, Cached(g) \/ Remember(g)
        PROVE  Promise!Next \/ UNCHANGED Promise!regVars
    <2>1. UNCHANGED <<entry, batch, released>>
      BY <1>6 DEF Cached, Remember, bagVars, endVars
    <2>2. answers' = answers \/ \E t, v : answers' = answers \cup {<<None, t, v>>}
      BY <1>6 DEF Cached, Remember, Answer
    <2> QED BY <1>4, <1>5, <2>1, <2>2
  <1>7. ASSUME NEW g \in Goroutines, LockBuilt(g) PROVE UNCHANGED Promise!regVars
    <2>1. PICK who, t, v : who = Top(g).scope /\ answers' = answers \cup {<<who, t, v>>}
      BY <1>7 DEF LockBuilt, Answer
    <2>2. who # None
      BY <1>7, <2>1, TopOK, NoneAssumption
      DEF LockBuilt, In, FrameOK, BagAt, RegistryInv, OrderInv
    <2>3. \A a \in answers' : a[1] = None => a \in answers
      BY <2>1, <2>2
    <2>4. answers \subseteq answers'
      BY <2>1
    <2>5. HandedOut(answers') = HandedOut(answers)
      BY <2>3, <2>4 DEF HandedOut
    <2>6. UNCHANGED <<entry, batch, released>>
      BY <1>7 DEF LockBuilt, bagVars, endVars
    <2> QED BY <1>5, <2>5, <2>6
  <1>8. CASE /\ ~ CloseScope /\ ~ CloseInstance
             /\ \A g \in Goroutines :
                    ~ Cached(g) /\ ~ Remember(g) /\ ~ LockBuilt(g) /\ ~ FactoryReturns(g)
    <2>1. UNCHANGED <<entry, batch, released, answers>>
      BY <1>8
      DEF Next, Advance, Ask, Snapshot, Scan, Through, Resolve,
          EntryFor, LockAndBuild, FactoryAsks, FactoryGets,
          FactoryPanics, Unwind, Close, CloseStage, Finished, bagVars, endVars, vars
    <2> QED BY <1>5, <2>1
  <1> QED BY <1>1, <1>2, <1>3, <1>6, <1>7, <1>8

LEMMA InitImplements == Init => Promise!Init
  <1> SUFFICES ASSUME Init PROVE Promise!Init
    OBVIOUS
  <1>1. /\ \A s \in ScopeSet, t \in Types : entry[s][t] = None
        /\ batch = <<>> /\ released = <<>> /\ answers = {}
    BY DEF Init
  <1> QED BY <1>1 DEF Promise!Init

\* The stage over its scopes implements the registry (README.md, DESIGN.md), in
\* every composition whose aliases are direct, with any goroutines: one instance
\* for a registration and for one only, every caller of the stage told the same,
\* each io.Closer closed at most once and after whatever was built over it.
THEOREM ImplementsRegistryHolds ==
    ASSUME DirectAliases
    PROVE  Spec => ImplementsRegistry
  <1>1. Init => StacksOK /\ StageOK /\ MarksOK
    BY InitAgrees, InitMarks
  <1>2. OrderInv /\ (StacksOK /\ StageOK /\ MarksOK) /\ [Next]_vars => (StacksOK /\ StageOK /\ MarksOK)'
    BY NextAgrees, NextStage, NextMarks DEF OrderInv
  <1>3. OrderInv /\ (StacksOK /\ StageOK /\ MarksOK) /\ (StacksOK /\ StageOK /\ MarksOK)' /\ [Next]_vars
            => [Promise!Next]_(Promise!regVars)
    BY NextImplements DEF RegistryInv
  <1> QED BY <1>1, <1>2, <1>3, InitImplements, Ordered, PTL
          DEF Spec, ImplementsRegistry, Promise!Spec
=============================================================================
