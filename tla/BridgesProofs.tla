---------------------------- MODULE BridgesProofs ----------------------------
(***************************************************************************)
(* Proof about Bridges, for every composition of bag, dig and do scopes,   *)
(* cyclic or not, and any number of goroutines: a type one container       *)
(* provides is one instance to everybody, except where two goroutines have *)
(* met in a dig container.  Every value that travels is the one its scope  *)
(* keeps (CallsOK, KeptOK); what is kept is never replaced, because what   *)
(* is being built has no value yet (OpenOK).  A lock sees to that in a bag *)
(* and in do; in dig, one goroutine could replace it only by returning     *)
(* from a build inside a build of the same type, and everything the inner  *)
(* one is built over, that type included, would be there (ValuesOK).       *)
(***************************************************************************)
EXTENDS Bridges, SequenceTheorems, FiniteSetTheorems, WellFoundedInduction, TLAPS

InScope == {"resolve", "lock", "build"}

Frame ==
    [at    : {"stage", "scan"} \cup InScope,
     scope : ScopeSet \cup {None},
     typ   : Types,
     path  : SUBSET Types,
     run   : Nat,
     todo  : SUBSET Types,
     rest  : Seq(ScopeSet)]

Results ==
    [tag : {"running", "absent", "panic"}, inst : {None}]
        \cup [tag : {"value"}, inst : Instances]

TypesOK ==
    /\ stack \in [Goroutines -> Seq(Frame)]
    /\ ret \in [Goroutines -> Results]
    /\ cache \in [Types -> Instances \cup {None}]
    /\ holder \in [ScopeSet -> [Types -> Goroutines \cup {None}]]
    /\ value \in [ScopeSet -> [Types -> Instances \cup {None}]]
    /\ runs \in [ScopeSet -> [Types -> Nat]]

-----------------------------------------------------------------------------
(* What a call waits for and has been given.                               *)

\* A constructor of s makes t itself; a bridge hands on what it is given.
Makes(s, t) == t \in DOMAIN Regs[s] /\ ~Regs[s][t].bridge

\* Of what (s, t) needs, it asks its own scope for one part and the stage for
\* another.
AsksOwn(s, t, d) ==
    /\ ~Regs[s][t].bridge
    /\ IF Kind[s] = "bag" THEN Exposes(s, d) ELSE d \in DOMAIN Regs[s]
AsksStage(s, t, d) ==
    IF Kind[s] = "bag"
    THEN ~Exposes(s, d)
    ELSE Regs[s][t].bridge \/ (Kind[s] = "do" /\ d \notin DOMAIN Regs[s])

\* None of the first n scopes answers for t.
NoneOf(n, t) == \A m \in 1..n : ~Exposes(Scopes[m], t)

\* The value is there, in w: of what the stage is asked for, in the first scope
\* that answers for it.
StageReady(w, t) ==
    \A n \in 1..Len(Scopes) :
        Exposes(Scopes[n], t) /\ NoneOf(n - 1, t) => w[Scopes[n]][t] # None
DepReady(w, s, t, d) ==
    /\ AsksOwn(s, t, d) => w[s][d] # None
    /\ AsksStage(s, t, d) => StageReady(w, d)

\* What a build has asked for so far, and how many scopes a scan has.
Asked(f) == Regs[f.scope][f.typ].needs \ f.todo
Reached(f) == Len(Scopes) - Len(f.rest)

\* v is the instance of t, where there is to be one.
Alone(s, cr) == Locks(s) \/ s \notin cr
Good(w, cr, t, v) ==
    \A s \in ScopeSet :
        Providers(t) = {s} /\ Alone(s, cr) => w[s][t] # None /\ v = w[s][t]

FrameOK(f) ==
    /\ f \in Frame
    /\ f.at \in InScope => f.scope \in ScopeSet
    /\ f.at \in {"lock", "build"} => f.typ \in DOMAIN Regs[f.scope]
    /\ f.at = "build" => f.todo \subseteq Regs[f.scope][f.typ].needs
    /\ f.at = "scan" =>
          /\ Len(f.rest) <= Len(Scopes)
          /\ \A i \in 1..Len(f.rest) : f.rest[i] = Scopes[Reached(f) + i]

\* Call p waits for call c.
ScanWaits(p, c) ==
    /\ p.at = "scan"
    /\ c.at \in InScope
    /\ c.typ = p.typ
    /\ Reached(p) \in 1..Len(Scopes)
    /\ c.scope = Scopes[Reached(p)]
    /\ NoneOf(Reached(p) - 1, p.typ)
    /\ c.at # "resolve" => Exposes(c.scope, c.typ)
BuildWaits(w, p, c) ==
    /\ p.at = "build"
    /\ c.typ \in Asked(p)
    /\ \/ c.at \in {"stage", "scan"} /\ AsksStage(p.scope, p.typ, c.typ)
       \/ c.at \in InScope /\ c.scope = p.scope /\ AsksOwn(p.scope, p.typ, c.typ)
    /\ \A d \in Asked(p) \ {c.typ} : DepReady(w, p.scope, p.typ, d)
Waits(w, p, c) == ScanWaits(p, c) \/ BuildWaits(w, p, c)

\* Call f, the innermost, has been given r.
ScanGiven(w, cr, f, r) ==
    /\ r \in {Running, Absent} => NoneOf(Reached(f), f.typ)
    /\ r.tag = "value" => StageReady(w, f.typ) /\ Good(w, cr, f.typ, r.inst)
BuildGiven(w, cr, f, r) ==
    /\ (r = Running \/ r.tag = "value" \/ (r = Absent /\ Kind[f.scope] = "bag")) =>
          \A d \in Asked(f) : DepReady(w, f.scope, f.typ, d)
    /\ Regs[f.scope][f.typ].bridge =>
          /\ r.tag = "value" => f.todo = {} /\ Good(w, cr, f.typ, r.inst)
          /\ r = Running => f.todo # {}
Given(w, cr, f, r) ==
    /\ f.at \in {"stage", "resolve", "lock"} => r = Running
    /\ f.at = "scan" => ScanGiven(w, cr, f, r)
    /\ f.at = "build" => BuildGiven(w, cr, f, r)

\* The calls of one goroutine.
Linked(w, cr, q, r) ==
    /\ \A i \in 1..Len(q) : FrameOK(q[i])
    /\ \A i \in 1..(Len(q) - 1) : Waits(w, q[i], q[i + 1])
    /\ q # <<>> => Given(w, cr, q[Len(q)], r)

CallsOK == \A g \in Goroutines : Linked(value, crowded, stack[g], ret[g])

-----------------------------------------------------------------------------
(* What is built, handed out and being built.                              *)

\* What is built is built over values that are there.
ValuesOK(w, cr) ==
    \A s \in ScopeSet, t \in Types :
        w[s][t] # None =>
            /\ t \in DOMAIN Regs[s]
            /\ \A d \in Regs[s][t].needs : DepReady(w, s, t, d)
            /\ Good(w, cr, t, w[s][t])

CacheOK(w, cr, c) ==
    \A t \in Types : c[t] # None => StageReady(w, t) /\ Good(w, cr, t, c[t])

AnswersOK(w, cr, as) == \A a \in as : Good(w, cr, a[2], a[3])

Builds(f, s, t) == f.at = "build" /\ f.scope = s /\ f.typ = t

\* What is being built has no value yet, and is being built once where a lock
\* guards it.
Open(w, h, cr, g, q) ==
    \A i \in 1..Len(q) : \A s \in ScopeSet, t \in Types :
        Builds(q[i], s, t) =>
            /\ Makes(s, t) /\ Alone(s, cr) => w[s][t] = None
            /\ Locks(s) => h[s][t] = g
            /\ Locks(s) => \A j \in 1..Len(q) : Builds(q[j], s, t) => i = j
OpenOK == \A g \in Goroutines : Open(value, holder, crowded, g, stack[g])

\* Two goroutines in a dig container have met.
MeetOK ==
    \A s \in Unlocked, g, h \in Goroutines :
        g # h /\ g \in Inside(s) /\ h \in Inside(s) => s \in crowded

KeptOK ==
    /\ ValuesOK(value, crowded)
    /\ CacheOK(value, crowded, cache)
    /\ AnswersOK(value, crowded, answers)

StepInv == TypesOK /\ CallsOK /\ KeptOK /\ OpenOK
IInv == StepInv /\ MeetOK
-----------------------------------------------------------------------------
(* The three things a step does to the calls of its goroutine.             *)

LEMMA FrontFacts ==
    ASSUME NEW S, NEW q \in Seq(S), q # <<>>
    PROVE  /\ Len(q) \in Nat \ {0}
           /\ SubSeq(q, 1, Len(q) - 1) \in Seq(S)
           /\ Len(SubSeq(q, 1, Len(q) - 1)) = Len(q) - 1
           /\ \A i \in 1..(Len(q) - 1) : SubSeq(q, 1, Len(q) - 1)[i] = q[i]
  <1>1. Len(q) \in Nat \ {0}
    BY EmptySeq, LenProperties
  <1>2. PICK n \in Nat : n = Len(q) - 1
    BY <1>1
  <1>3. \A i \in 1..n : q[i] \in S
    BY <1>1, <1>2, ElementOfSeq
  <1>4. /\ SubSeq(q, 1, n) \in Seq(S)
        /\ Len(SubSeq(q, 1, n)) = IF 1 <= n THEN n - 1 + 1 ELSE 0
        /\ \A i \in 1..(n - 1 + 1) : SubSeq(q, 1, n)[i] = q[1 + i - 1]
    BY <1>2, <1>3, SubSeqProperties
  <1>5. \A i \in 1..n : i \in 1..(n - 1 + 1) /\ 1 + i - 1 = i
    OBVIOUS
  <1>6. (IF 1 <= n THEN n - 1 + 1 ELSE 0) = n
    OBVIOUS
  <1>7. Len(SubSeq(q, 1, n)) = n /\ \A i \in 1..n : SubSeq(q, 1, n)[i] = q[i]
    BY <1>4, <1>5, <1>6
  <1> QED BY <1>1, <1>2, <1>4, <1>7

LEMMA AppendFacts ==
    ASSUME NEW S, NEW q \in Seq(S), NEW x \in S
    PROVE  /\ Append(q, x) \in Seq(S)
           /\ Len(Append(q, x)) = Len(q) + 1
           /\ Append(q, x)[Len(q) + 1] = x
           /\ \A i \in 1..Len(q) : Append(q, x)[i] = q[i]
  OBVIOUS

\* The innermost call replaces itself ...
LEMMA Replaced ==
    ASSUME NEW q \in Seq(Frame), q # <<>>, NEW f \in Frame,
           NEW p, p = Append(SubSeq(q, 1, Len(q) - 1), f)
    PROVE  /\ p \in Seq(Frame) /\ p # <<>>
           /\ Len(q) \in Nat \ {0} /\ Len(p) = Len(q)
           /\ p[Len(q)] = f
           /\ \A i \in 1..(Len(q) - 1) : p[i] = q[i]
  <1>1. PICK b \in Seq(Frame) : b = SubSeq(q, 1, Len(q) - 1)
    BY FrontFacts
  <1>2. /\ Len(q) \in Nat \ {0} /\ Len(b) = Len(q) - 1
        /\ \A i \in 1..(Len(q) - 1) : b[i] = q[i]
    BY <1>1, FrontFacts
  <1>3. /\ p \in Seq(Frame) /\ Len(p) = Len(b) + 1 /\ p[Len(b) + 1] = f
        /\ \A i \in 1..Len(b) : p[i] = b[i]
    BY <1>1, AppendFacts
  <1>4. Len(p) = Len(q) /\ Len(p) # 0
    BY <1>2, <1>3
  <1>5. p # <<>>
    BY <1>3, <1>4, EmptySeq
  <1> QED BY <1>2, <1>3, <1>4, <1>5

\* ... or, as f, calls c.
Calling(q, f, c) == SubSeq(q, 1, Len(q) - 1) \o <<f, c>>

IsCalling(p, q, f, c) ==
    /\ p \in Seq(Frame) /\ p # <<>>
    /\ Len(q) \in Nat \ {0} /\ Len(p) = Len(q) + 1
    /\ p[Len(q) + 1] = c /\ p[Len(q)] = f
    /\ \A i \in 1..(Len(q) - 1) : p[i] = q[i]

LEMMA Pushed ==
    ASSUME NEW q \in Seq(Frame), q # <<>>, NEW f \in Frame, NEW c \in Frame,
           NEW p, p = Calling(q, f, c)
    PROVE  IsCalling(p, q, f, c)
  <1>1. PICK b \in Seq(Frame) : b = SubSeq(q, 1, Len(q) - 1)
    BY FrontFacts
  <1>2. /\ Len(q) \in Nat \ {0} /\ Len(b) = Len(q) - 1
        /\ \A i \in 1..(Len(q) - 1) : b[i] = q[i]
    BY <1>1, FrontFacts
  <1>3. PICK e \in Seq(Frame) : e = <<f, c>> /\ Len(e) = 2 /\ e[1] = f /\ e[2] = c
    <2>1. <<f, c>> \in Seq(Frame) /\ Len(<<f, c>>) = 2 /\ <<f, c>>[1] = f /\ <<f, c>>[2] = c
      OBVIOUS
    <2> QED BY ONLY <2>1, Zenon
  <1>4. /\ p \in Seq(Frame) /\ Len(p) = Len(b) + Len(e)
        /\ \A i \in 1..(Len(b) + Len(e)) : p[i] = IF i <= Len(b) THEN b[i] ELSE e[i - Len(b)]
    BY <1>1, <1>3, ConcatProperties DEF Calling
  <1>5. Len(p) = Len(q) + 1 /\ Len(p) # 0
    BY <1>2, <1>3, <1>4
  <1>6. p # <<>>
    BY <1>4, <1>5, EmptySeq
  <1>7. p[Len(q)] = f /\ p[Len(q) + 1] = c
    <2>1. /\ Len(q) \in 1..(Len(b) + Len(e)) /\ ~ (Len(q) <= Len(b)) /\ Len(q) - Len(b) = 1
          /\ Len(q) + 1 \in 1..(Len(b) + Len(e)) /\ ~ (Len(q) + 1 <= Len(b))
          /\ Len(q) + 1 - Len(b) = 2
      BY <1>2, <1>3
    <2> QED BY ONLY <1>3, <1>4, <2>1
  <1>8. \A i \in 1..(Len(q) - 1) : p[i] = q[i]
    BY <1>2, <1>3, <1>4
  <1> QED BY <1>2, <1>4, <1>5, <1>6, <1>7, <1>8 DEF IsCalling

-----------------------------------------------------------------------------
(* Values come and stay.                                                   *)

Grows(w, w2, cr) ==
    \A s \in ScopeSet, t \in Types :
        w[s][t] # None =>
            /\ w2[s][t] # None
            /\ Makes(s, t) /\ Alone(s, cr) => w2[s][t] = w[s][t]

LEMMA RegFacts ==
    ASSUME NEW s \in ScopeSet, NEW t \in DOMAIN Regs[s]
    PROVE  /\ t \in Types
           /\ Regs[s][t].needs \subseteq Types
           /\ Regs[s][t].bridge \in BOOLEAN
           /\ Regs[s][t].bridge => Kind[s] = "dig" /\ Regs[s][t].needs = {t}
           /\ Kind[s] = "bag" => Regs[s][t].exposed /\ ~Regs[s][t].bridge
  <1>1. /\ Regs[s][t] \in Registration /\ DOMAIN Regs[s] \subseteq Types
        /\ Regs[s][t].bridge => Kind[s] = "dig" /\ Regs[s][t].needs = {t}
        /\ Kind[s] = "bag" => Regs[s][t].exposed
    BY BridgesAssumption
  <1> QED BY <1>1 DEF Registration

LEMMA ScopeFacts ==
    /\ Len(Scopes) \in Nat
    /\ \A n \in 1..Len(Scopes) : Scopes[n] \in ScopeSet
    /\ \A i, j \in 1..Len(Scopes) : Scopes[i] = Scopes[j] => i = j
  BY BridgesAssumption, LenProperties DEF ScopeSet

LEMMA ProviderMakes ==
    ASSUME NEW s, NEW t, Providers(t) = {s}
    PROVE  Makes(s, t)
  BY DEF Providers, Makes

LEMMA ReadyGrows ==
    ASSUME NEW w, NEW w2, NEW cr, Grows(w, w2, cr), NEW t \in Types, StageReady(w, t)
    PROVE  StageReady(w2, t)
  BY ScopeFacts DEF StageReady, Grows

LEMMA DepGrows ==
    ASSUME NEW w, NEW w2, NEW cr, Grows(w, w2, cr), NEW s \in ScopeSet, NEW t,
           NEW d \in Types, DepReady(w, s, t, d)
    PROVE  DepReady(w2, s, t, d)
  BY ReadyGrows DEF DepReady, Grows

LEMMA GoodGrows ==
    ASSUME NEW w, NEW w2, NEW cr, NEW cr2, Grows(w, w2, cr), cr \subseteq cr2,
           NEW t, NEW v, Good(w, cr, t, v)
    PROVE  Good(w2, cr2, t, v)
  <1> SUFFICES ASSUME NEW s \in ScopeSet, Providers(t) = {s}, Alone(s, cr2)
               PROVE  w2[s][t] # None /\ v = w2[s][t]
    BY DEF Good
  <1>1. Alone(s, cr) /\ Makes(s, t) /\ t \in Types
    BY ProviderMakes, RegFacts DEF Alone, Makes
  <1>2. w[s][t] # None /\ v = w[s][t]
    BY <1>1 DEF Good
  <1> QED BY <1>1, <1>2 DEF Grows

LEMMA Same ==
    ASSUME NEW w, NEW cr
    PROVE  Grows(w, w, cr)
  BY DEF Grows

LEMMA AskedTypes ==
    ASSUME NEW f, FrameOK(f), f.at = "build"
    PROVE  /\ f.scope \in ScopeSet /\ f.typ \in DOMAIN Regs[f.scope]
           /\ f.typ \in Types /\ Asked(f) \subseteq Types
           /\ Asked(f) \subseteq Regs[f.scope][f.typ].needs
           /\ Regs[f.scope][f.typ].needs \subseteq Types
  <1>1. f.scope \in ScopeSet /\ f.typ \in DOMAIN Regs[f.scope]
    BY DEF FrameOK, InScope
  <1>2. f.typ \in Types /\ Regs[f.scope][f.typ].needs \subseteq Types
    BY <1>1, RegFacts
  <1>3. Asked(f) \subseteq Regs[f.scope][f.typ].needs
    BY DEF Asked
  <1> QED BY <1>1, <1>2, <1>3

LEMMA FrameTypes ==
    ASSUME NEW f, FrameOK(f)
    PROVE  /\ f \in Frame /\ f.typ \in Types /\ f.at \in {"stage", "scan"} \cup InScope
           /\ f.path \subseteq Types /\ f.rest \in Seq(ScopeSet) /\ f.todo \subseteq Types
           /\ f.run \in Nat /\ Len(f.rest) \in Nat
  BY LenProperties DEF FrameOK, Frame

LEMMA WaitsGrows ==
    ASSUME NEW w, NEW w2, NEW cr, Grows(w, w2, cr), NEW p, FrameOK(p), NEW c, Waits(w, p, c)
    PROVE  Waits(w2, p, c)
  <1>1. CASE ScanWaits(p, c)
    BY <1>1 DEF Waits
  <1>2. CASE BuildWaits(w, p, c)
    <2>1. p.scope \in ScopeSet /\ Asked(p) \subseteq Types
      BY <1>2, AskedTypes DEF BuildWaits
    <2>2. \A d \in Asked(p) \ {c.typ} : DepReady(w2, p.scope, p.typ, d)
      BY <1>2, <2>1, DepGrows DEF BuildWaits
    <2> QED BY <1>2, <2>2 DEF BuildWaits, Waits
  <1> QED BY <1>1, <1>2 DEF Waits

LEMMA GivenGrows ==
    ASSUME NEW w, NEW w2, NEW cr, NEW cr2, Grows(w, w2, cr), cr \subseteq cr2,
           NEW f, FrameOK(f), NEW r, Given(w, cr, f, r)
    PROVE  Given(w2, cr2, f, r)
  <1>1. ASSUME f.at = "scan" PROVE ScanGiven(w2, cr2, f, r)
    BY <1>1, FrameTypes, ReadyGrows, GoodGrows DEF Given, ScanGiven
  <1>2. ASSUME f.at = "build" PROVE BuildGiven(w2, cr2, f, r)
    <2>1. f.scope \in ScopeSet /\ f.typ \in Types /\ Asked(f) \subseteq Types /\ BuildGiven(w, cr, f, r)
      BY <1>2, AskedTypes DEF Given
    <2>2. ASSUME r = Running \/ r.tag = "value" \/ (r = Absent /\ Kind[f.scope] = "bag")
          PROVE  \A d \in Asked(f) : DepReady(w2, f.scope, f.typ, d)
      BY <2>1, <2>2, DepGrows DEF BuildGiven
    <2>3. ASSUME Regs[f.scope][f.typ].bridge, r.tag = "value" PROVE f.todo = {} /\ Good(w2, cr2, f.typ, r.inst)
      BY <2>1, <2>3, GoodGrows DEF BuildGiven
    <2> QED BY <2>1, <2>2, <2>3 DEF BuildGiven
  <1> QED BY <1>1, <1>2 DEF Given

LEMMA LinkedGrows ==
    ASSUME NEW w, NEW w2, NEW cr, NEW cr2, Grows(w, w2, cr), cr \subseteq cr2,
           NEW q \in Seq(Frame), NEW r, Linked(w, cr, q, r)
    PROVE  Linked(w2, cr2, q, r)
  <1>1. Len(q) \in Nat /\ (q # <<>> => Len(q) \in 1..Len(q))
    BY LenProperties, EmptySeq
  <1>2. \A i \in 1..(Len(q) - 1) : Waits(w2, q[i], q[i + 1])
    <2> SUFFICES ASSUME NEW i \in 1..(Len(q) - 1) PROVE Waits(w2, q[i], q[i + 1])
      OBVIOUS
    <2>1. FrameOK(q[i]) /\ Waits(w, q[i], q[i + 1])
      BY <1>1 DEF Linked
    <2> QED BY <2>1, WaitsGrows
  <1>3. ASSUME q # <<>> PROVE Given(w2, cr2, q[Len(q)], r)
    BY <1>1, <1>3, GivenGrows DEF Linked
  <1> QED BY <1>2, <1>3 DEF Linked

\* Call f goes on as e, which is the same call to the one that waits for it.
Turn(f, e) ==
    /\ e.typ = f.typ /\ e.scope = f.scope
    /\ f.at \in InScope <=> e.at \in InScope
    /\ f.at \in {"stage", "scan"} <=> e.at \in {"stage", "scan"}
    /\ e.at # "resolve" => f.at # "resolve" \/ Exposes(f.scope, f.typ)

LEMMA TurnWaits ==
    ASSUME NEW w, NEW p, NEW f, NEW e, Turn(f, e), Waits(w, p, f)
    PROVE  Waits(w, p, e)
  <1>1. CASE ScanWaits(p, f)
    BY <1>1 DEF ScanWaits, Turn, Waits
  <1>2. CASE BuildWaits(w, p, f)
    BY <1>2 DEF BuildWaits, Turn, Waits
  <1> QED BY <1>1, <1>2 DEF Waits

LEMMA LinkedBecome ==
    ASSUME NEW w, NEW cr, NEW q \in Seq(Frame), q # <<>>, NEW r, Linked(w, cr, q, r),
           NEW f, FrameOK(f), Turn(q[Len(q)], f), NEW r2, Given(w, cr, f, r2),
           NEW p, p = Append(SubSeq(q, 1, Len(q) - 1), f)
    PROVE  p \in Seq(Frame) /\ Linked(w, cr, p, r2)
  <1>1. PICK n \in Nat \ {0} : n = Len(q)
    BY FrontFacts
  <1>2. /\ p \in Seq(Frame) /\ p # <<>> /\ Len(p) = n /\ p[n] = f
        /\ \A i \in 1..(n - 1) : p[i] = q[i]
    BY <1>1, FrameTypes, Replaced
  <1>3. \A i \in 1..n : FrameOK(p[i])
    BY <1>1, <1>2 DEF Linked
  <1>4. \A i \in 1..(n - 1) : Waits(w, p[i], p[i + 1])
    <2> SUFFICES ASSUME NEW i \in 1..(n - 1) PROVE Waits(w, p[i], p[i + 1])
      OBVIOUS
    <2>1. Waits(w, q[i], q[i + 1]) /\ p[i] = q[i]
      BY <1>1, <1>2 DEF Linked
    <2>2. CASE i + 1 = n
      BY <1>1, <1>2, <2>1, <2>2, TurnWaits
    <2>3. CASE i + 1 # n
      BY <1>2, <2>1, <2>3
    <2> QED BY <2>2, <2>3
  <1> QED BY <1>2, <1>3, <1>4 DEF Linked

LEMMA LinkedPush ==
    ASSUME NEW w, NEW cr, NEW q \in Seq(Frame), q # <<>>, NEW r, Linked(w, cr, q, r),
           NEW f, FrameOK(f), Turn(q[Len(q)], f),
           NEW c, FrameOK(c), Waits(w, f, c), NEW r2, Given(w, cr, c, r2),
           NEW p, p = Calling(q, f, c)
    PROVE  p \in Seq(Frame) /\ Linked(w, cr, p, r2)
  <1>1. PICK n \in Nat \ {0} : n = Len(q)
    BY FrontFacts
  <1>2. /\ p \in Seq(Frame) /\ p # <<>> /\ Len(p) = n + 1 /\ p[n] = f /\ p[n + 1] = c
        /\ \A i \in 1..(n - 1) : p[i] = q[i]
    <2>1. f \in Frame /\ c \in Frame
      BY FrameTypes
    <2>2. IsCalling(p, q, f, c)
      BY <2>1, Pushed
    <2> QED BY <1>1, <2>2 DEF IsCalling
  <1>3. \A i \in 1..(n + 1) : FrameOK(p[i])
    <2> SUFFICES ASSUME NEW i \in 1..(n + 1) PROVE FrameOK(p[i])
      OBVIOUS
    <2>1. CASE i \in {n, n + 1}
      BY <1>2, <2>1
    <2>2. CASE i \notin {n, n + 1}
      BY <1>1, <1>2, <2>2 DEF Linked
    <2> QED BY <2>1, <2>2
  <1>4. \A i \in 1..n : Waits(w, p[i], p[i + 1])
    <2> SUFFICES ASSUME NEW i \in 1..n PROVE Waits(w, p[i], p[i + 1])
      OBVIOUS
    <2>1. CASE i = n
      BY <1>2, <2>1
    <2>2. CASE i # n
      <3>1. Waits(w, q[i], q[i + 1]) /\ p[i] = q[i]
        BY <1>1, <1>2, <2>2 DEF Linked
      <3>2. CASE i + 1 = n
        <4>1. Waits(w, q[i], f)
          BY <1>1, <3>1, <3>2, TurnWaits
        <4> QED BY <1>2, <3>1, <3>2, <4>1
      <3>3. CASE i + 1 # n
        <4>1. i + 1 \in 1..(n - 1)
          BY <2>2, <3>3
        <4>2. p[i + 1] = q[i + 1]
          BY <1>2, <4>1
        <4> QED BY <3>1, <4>2
      <3> QED BY <3>2, <3>3
    <2> QED BY <2>1, <2>2
  <1>5. Len(p) - 1 = n /\ p[Len(p)] = c
    BY <1>2
  <1>6. Given(w, cr, p[Len(p)], r2)
    BY <1>5
  <1>7. \A i \in 1..Len(p) : FrameOK(p[i])
    BY <1>2, <1>3
  <1> QED BY <1>2, <1>4, <1>5, <1>6, <1>7 DEF Linked

\* What call c returns r for.
Told(w, cr, c, r) ==
    /\ r \in {Absent, Panic} \/ r.tag = "value"
    /\ r.tag = "value" =>
          /\ c.at # "resolve"
          /\ Good(w, cr, c.typ, r.inst)
          /\ c.at \in {"stage", "scan"} => StageReady(w, c.typ)
          /\ c.at \in InScope => w[c.scope][c.typ] # None
    /\ r = Absent =>
          \/ c.at = "resolve" /\ ~Exposes(c.scope, c.typ)
          \/ c.at = "scan" /\ NoneOf(Len(Scopes), c.typ)

LEMMA ResultTags ==
    /\ Running.tag = "running" /\ Absent.tag = "absent" /\ Panic.tag = "panic"
    /\ Running # Absent /\ Running # Panic /\ Absent # Panic
    /\ \A v : Value(v).tag = "value" /\ Value(v).inst = v
  BY DEF Running, Absent, Panic, Value

LEMMA TellScan ==
    ASSUME NEW w, NEW cr, NEW p, FrameOK(p), NEW c, ScanWaits(p, c), NEW r, Told(w, cr, c, r)
    PROVE  Given(w, cr, p, r)
  <1>1. PICK n \in 1..Len(Scopes) : n = Reached(p) /\ c.scope = Scopes[n] /\ NoneOf(n - 1, p.typ)
    BY DEF ScanWaits
  <1>2. n \in Nat /\ n - 1 \in Nat /\ Len(Scopes) \in Nat
    BY ScopeFacts
  <1>3. ASSUME r \in {Running, Absent} PROVE NoneOf(n, p.typ)
    <2>1. r = Absent
      BY <1>3, ResultTags DEF Told
    <2>2. ~Exposes(c.scope, c.typ) /\ c.typ = p.typ
      BY <2>1 DEF Told, ScanWaits, InScope
    <2> QED BY <1>1, <1>2, <2>2 DEF NoneOf
  <1>4. ASSUME r.tag = "value" PROVE StageReady(w, p.typ) /\ Good(w, cr, p.typ, r.inst)
    <2>1. /\ c.typ = p.typ /\ Exposes(c.scope, p.typ) /\ w[c.scope][p.typ] # None
          /\ Good(w, cr, p.typ, r.inst)
      BY <1>4 DEF Told, ScanWaits
    <2>2. ASSUME NEW m \in 1..Len(Scopes), Exposes(Scopes[m], p.typ), NoneOf(m - 1, p.typ)
          PROVE  m = n
      <3>1. ~ (n < m)
        BY <1>1, <1>2, <2>1, <2>2 DEF NoneOf
      <3>2. ~ (m < n)
        BY <1>1, <1>2, <2>1, <2>2 DEF NoneOf
      <3> QED BY <1>2, <3>1, <3>2
    <2> QED BY <1>1, <2>1, <2>2 DEF StageReady
  <1>5. p.at = "scan"
    BY DEF ScanWaits
  <1> QED BY <1>1, <1>3, <1>4, <1>5 DEF Given, ScanGiven

LEMMA TellBuild ==
    ASSUME NEW w, NEW cr, NEW p, FrameOK(p), NEW c, BuildWaits(w, p, c), NEW r, Told(w, cr, c, r)
    PROVE  Given(w, cr, p, r)
  <1>1. /\ p.at = "build" /\ p.scope \in ScopeSet /\ p.typ \in DOMAIN Regs[p.scope]
        /\ c.typ \in Asked(p) /\ Asked(p) \subseteq Regs[p.scope][p.typ].needs
    BY AskedTypes DEF BuildWaits
  <1>2. r # Running
    BY ResultTags DEF Told
  <1>3. ASSUME r.tag = "value" \/ (r = Absent /\ Kind[p.scope] = "bag")
        PROVE  DepReady(w, p.scope, p.typ, c.typ)
    <2>1. CASE c.at \in {"stage", "scan"} /\ AsksStage(p.scope, p.typ, c.typ)
      <3>1. StageReady(w, c.typ)
        <4>1. CASE r.tag = "value"
          BY <2>1, <4>1 DEF Told
        <4>2. CASE r = Absent
          <5>1. NoneOf(Len(Scopes), c.typ)
            BY <2>1, <4>2 DEF Told, InScope
          <5> QED BY <5>1 DEF NoneOf, StageReady
        <4> QED BY <1>3, <4>1, <4>2
      <3>2. ~AsksOwn(p.scope, p.typ, c.typ)
        BY <1>1, <2>1, RegFacts DEF AsksOwn, AsksStage
      <3> QED BY <3>1, <3>2 DEF DepReady
    <2>2. CASE c.at \in InScope /\ c.scope = p.scope /\ AsksOwn(p.scope, p.typ, c.typ)
      <3>1. ~AsksStage(p.scope, p.typ, c.typ)
        BY <1>1, <2>2, RegFacts DEF AsksOwn, AsksStage
      <3>2. r.tag = "value"
        <4>1. ASSUME r = Absent, Kind[p.scope] = "bag" PROVE FALSE
          <5>1. Exposes(p.scope, c.typ)
            BY <2>2, <4>1 DEF AsksOwn
          <5> QED BY <2>2, <4>1, <5>1 DEF Told, InScope
        <4> QED BY <1>3, <4>1
      <3> QED BY <2>2, <3>1, <3>2 DEF DepReady, Told
    <2> QED BY <2>1, <2>2 DEF BuildWaits
  <1>4. ASSUME r = Running \/ r.tag = "value" \/ (r = Absent /\ Kind[p.scope] = "bag")
        PROVE  \A d \in Asked(p) : DepReady(w, p.scope, p.typ, d)
    BY <1>2, <1>3, <1>4 DEF BuildWaits
  <1>5. ASSUME Regs[p.scope][p.typ].bridge, r.tag = "value"
        PROVE  p.todo = {} /\ Good(w, cr, p.typ, r.inst)
    <2>1. c.typ = p.typ /\ Regs[p.scope][p.typ].needs = {p.typ}
      BY <1>1, <1>5, RegFacts
    <2>2. p.todo = {}
      BY <1>1, <2>1 DEF FrameOK, Asked
    <2> QED BY <1>5, <2>1, <2>2 DEF Told
  <1> QED BY <1>1, <1>2, <1>4, <1>5 DEF Given, BuildGiven

LEMMA LinkedReturn ==
    ASSUME NEW w, NEW cr, NEW q \in Seq(Frame), q # <<>>, NEW r, Linked(w, cr, q, r),
           NEW r2, Told(w, cr, q[Len(q)], r2), NEW p, p = SubSeq(q, 1, Len(q) - 1)
    PROVE  p \in Seq(Frame) /\ Linked(w, cr, p, r2)
  <1>1. PICK n \in Nat \ {0} : n = Len(q)
    BY FrontFacts
  <1>2. p \in Seq(Frame) /\ Len(p) = n - 1 /\ \A i \in 1..(n - 1) : p[i] = q[i]
    BY <1>1, FrontFacts
  <1>3. \A i \in 1..Len(p) : FrameOK(p[i])
    BY <1>1, <1>2 DEF Linked
  <1>4. \A i \in 1..(Len(p) - 1) : Waits(w, p[i], p[i + 1])
    BY <1>1, <1>2 DEF Linked
  <1>5. ASSUME p # <<>> PROVE Given(w, cr, p[Len(p)], r2)
    <2>1. Len(p) # 0
      BY <1>2, <1>5, EmptySeq
    <2>2. n - 1 \in 1..(n - 1) /\ n - 1 + 1 = n
      BY <1>2, <2>1
    <2>3. FrameOK(q[n - 1]) /\ Waits(w, q[n - 1], q[n]) /\ p[n - 1] = q[n - 1]
      BY <1>1, <1>2, <2>2 DEF Linked
    <2> QED BY <1>1, <1>2, <2>3, TellScan, TellBuild DEF Waits
  <1> QED BY <1>2, <1>3, <1>4, <1>5 DEF Linked

-----------------------------------------------------------------------------
(* What a step does to the calls of all goroutines.                        *)

LEMMA Shift ==
    ASSUME TypesOK, CallsOK, NEW w2, NEW cr2, Grows(value, w2, crowded), crowded \subseteq cr2,
           w2 = value', cr2 = crowded',
           NEW g \in Goroutines, NEW p \in Seq(Frame), NEW r \in Results,
           stack' = [stack EXCEPT ![g] = p], ret' = [ret EXCEPT ![g] = r],
           Linked(w2, crowded, p, r)
    PROVE  /\ CallsOK'
           /\ stack' \in [Goroutines -> Seq(Frame)] /\ ret' \in [Goroutines -> Results]
           /\ stack'[g] = p /\ \A h \in Goroutines : h # g => stack'[h] = stack[h]
  <1>1. /\ stack' \in [Goroutines -> Seq(Frame)] /\ ret' \in [Goroutines -> Results]
        /\ stack'[g] = p /\ ret'[g] = r
        /\ \A h \in Goroutines : h # g => stack'[h] = stack[h] /\ ret'[h] = ret[h]
    BY DEF TypesOK
  <1>2. Linked(w2, cr2, p, r)
    BY Same, LinkedGrows
  <1>3. ASSUME NEW h \in Goroutines PROVE Linked(w2, cr2, stack[h], ret[h])
    <2>1. PICK q \in Seq(Frame) : q = stack[h]
      BY DEF TypesOK
    <2>2. Linked(value, crowded, q, ret[h])
      BY <2>1 DEF CallsOK
    <2> QED BY <2>1, <2>2, LinkedGrows
  <1>4. \A h \in Goroutines : Linked(w2, cr2, stack'[h], ret'[h])
    BY <1>1, <1>2, <1>3
  <1>5. \A h \in Goroutines : Linked(value', crowded', stack'[h], ret'[h])
    BY <1>4
  <1> QED BY <1>1, <1>5 DEF CallsOK

\* Every build of p is one of q, at the same place.
OpenSame(q, p) ==
    \A i \in 1..Len(p) : \A s \in ScopeSet, t \in Types :
        Builds(p[i], s, t) => i \in 1..Len(q) /\ Builds(q[i], s, t)

LEMMA OpenShrinks ==
    ASSUME NEW w, NEW h, NEW cr, NEW cr2, cr \subseteq cr2, NEW g, NEW q, NEW p,
           Open(w, h, cr, g, q), OpenSame(q, p)
    PROVE  Open(w, h, cr2, g, p)
  BY DEF Open, OpenSame, Alone

LEMMA KeptGrows ==
    ASSUME NEW w, NEW cr, NEW cr2, cr \subseteq cr2
    PROVE  /\ ValuesOK(w, cr) => ValuesOK(w, cr2)
           /\ \A c : CacheOK(w, cr, c) => CacheOK(w, cr2, c)
           /\ \A as : AnswersOK(w, cr, as) => AnswersOK(w, cr2, as)
  <1>1. \A t, v : Good(w, cr, t, v) => Good(w, cr2, t, v)
    BY Same, GoodGrows
  <1> QED BY <1>1 DEF ValuesOK, CacheOK, AnswersOK

\* A step that builds nothing.
LEMMA QuietStep ==
    ASSUME IInv, NEW cr2, crowded \subseteq cr2, cr2 = crowded',
           NEW g \in Goroutines, NEW p \in Seq(Frame), NEW r \in Results,
           stack' = [stack EXCEPT ![g] = p], ret' = [ret EXCEPT ![g] = r],
           Linked(value, crowded, p, r), OpenSame(stack[g], p),
           UNCHANGED <<value, holder, runs>>,
           NEW c \in [Types -> Instances \cup {None}], c = cache', CacheOK(value, crowded, c),
           NEW as, as = answers', AnswersOK(value, crowded, as)
    PROVE  StepInv'
  <1>1. /\ CallsOK'
        /\ stack' \in [Goroutines -> Seq(Frame)] /\ ret' \in [Goroutines -> Results]
        /\ stack'[g] = p /\ \A h \in Goroutines : h # g => stack'[h] = stack[h]
    BY Same, Shift DEF IInv, StepInv
  <1>2. TypesOK'
    BY <1>1 DEF IInv, StepInv, TypesOK
  <1>3. KeptOK'
    <2>1. ValuesOK(value, cr2) /\ CacheOK(value, cr2, c) /\ AnswersOK(value, cr2, as)
      BY KeptGrows DEF IInv, StepInv, KeptOK
    <2>2. ValuesOK(value, cr2)' /\ CacheOK(value, cr2, cache)' /\ AnswersOK(value, cr2, answers)'
      BY <2>1 DEF ValuesOK, CacheOK, AnswersOK, DepReady, StageReady, Good
    <2> QED BY <2>1, <2>2 DEF KeptOK, ValuesOK, CacheOK, AnswersOK
  <1>4. OpenOK'
    <2>1. \A h \in Goroutines : Open(value, holder, crowded, h, stack[h])
      BY DEF IInv, StepInv, OpenOK
    <2>2. \A h \in Goroutines : OpenSame(stack[h], stack'[h])
      <3>1. \A q : OpenSame(q, q)
        BY DEF OpenSame
      <3> QED BY <1>1, <3>1
    <2>3. \A h \in Goroutines : Open(value, holder, cr2, h, stack'[h])
      BY <2>1, <2>2, OpenShrinks
    <2> QED BY <2>3 DEF OpenOK, Open
  <1> QED BY <1>1, <1>2, <1>3, <1>4 DEF StepInv

LEMMA TopFacts ==
    ASSUME IInv, NEW g \in Goroutines, stack[g] # <<>>
    PROVE  /\ stack[g] \in Seq(Frame) /\ Len(stack[g]) \in Nat \ {0}
           /\ Len(stack[g]) \in 1..Len(stack[g])
           /\ Top(g) = stack[g][Len(stack[g])]
           /\ FrameOK(Top(g)) /\ Given(value, crowded, Top(g), ret[g])
           /\ Linked(value, crowded, stack[g], ret[g])
           /\ Below(g) = SubSeq(stack[g], 1, Len(stack[g]) - 1)
  <1>1. stack[g] \in Seq(Frame) /\ Linked(value, crowded, stack[g], ret[g])
    BY DEF IInv, StepInv, TypesOK, CallsOK
  <1>2. Len(stack[g]) \in Nat \ {0}
    BY <1>1, FrontFacts
  <1> QED BY <1>1, <1>2 DEF Linked, Top, Below

LEMMA SameKept ==
    ASSUME IInv
    PROVE  /\ cache \in [Types -> Instances \cup {None}]
           /\ CacheOK(value, crowded, cache) /\ AnswersOK(value, crowded, answers)
  BY DEF IInv, StepInv, TypesOK, KeptOK

\* The innermost call goes on as f ...
LEMMA Becomes ==
    ASSUME IInv, NEW cr2, crowded \subseteq cr2, cr2 = crowded',
           NEW g \in Goroutines, stack[g] # <<>>,
           NEW f, FrameOK(f), Turn(Top(g), f), f.at # "build", Given(value, crowded, f, ret[g]),
           Become(g, f), UNCHANGED <<ret, value, holder, runs, cache, answers>>
    PROVE  StepInv'
  <1>1. PICK q \in Seq(Frame) :
            q = stack[g] /\ q # <<>> /\ Linked(value, crowded, q, ret[g]) /\ q[Len(q)] = Top(g)
    BY TopFacts
  <1>2. PICK p : p = Append(SubSeq(q, 1, Len(q) - 1), f)
    OBVIOUS
  <1>3. p \in Seq(Frame) /\ Linked(value, crowded, p, ret[g])
    BY <1>1, <1>2, LinkedBecome
  <1>4. OpenSame(q, p)
    <2>1. /\ Len(q) \in Nat \ {0} /\ Len(p) = Len(q) /\ p[Len(q)] = f
          /\ \A i \in 1..(Len(q) - 1) : p[i] = q[i]
      BY <1>1, <1>2, FrameTypes, Replaced
    <2> QED BY <2>1 DEF OpenSame, Builds
  <1>5. /\ ret[g] \in Results /\ ret' = [ret EXCEPT ![g] = ret[g]]
        /\ stack' = [stack EXCEPT ![g] = p]
    BY <1>1, <1>2 DEF IInv, StepInv, TypesOK, Become, Below
  <1> QED BY <1>1, <1>3, <1>4, <1>5, SameKept, QuietStep

\* ... calls another ...
LEMMA CallsOn ==
    ASSUME IInv, NEW cr2, crowded \subseteq cr2, cr2 = crowded',
           NEW g \in Goroutines, stack[g] # <<>>,
           NEW f, FrameOK(f), f.at = Top(g).at, f.scope = Top(g).scope, f.typ = Top(g).typ,
           f.at # "resolve",
           NEW c, FrameOK(c), c.at \in {"stage", "resolve", "lock"}, Waits(value, f, c),
           Push(g, f, c), ret' = [ret EXCEPT ![g] = Running],
           UNCHANGED <<value, holder, runs, cache, answers>>
    PROVE  StepInv'
  <1>1. PICK q \in Seq(Frame) :
            q = stack[g] /\ q # <<>> /\ Linked(value, crowded, q, ret[g]) /\ q[Len(q)] = Top(g)
    BY TopFacts
  <1>2. PICK p : p = Calling(q, f, c)
    OBVIOUS
  <1>3. Turn(q[Len(q)], f) /\ Given(value, crowded, c, Running)
    BY <1>1 DEF Turn, Given
  <1>4. p \in Seq(Frame) /\ Linked(value, crowded, p, Running)
    BY <1>1, <1>2, <1>3, LinkedPush
  <1>5. OpenSame(q, p)
    <2>1. IsCalling(p, q, f, c)
      BY <1>1, <1>2, FrameTypes, Pushed
    <2>2. /\ Len(q) \in Nat \ {0} /\ Len(p) = Len(q) + 1 /\ p[Len(q)] = f /\ p[Len(q) + 1] = c
          /\ \A i \in 1..(Len(q) - 1) : p[i] = q[i]
      BY <2>1 DEF IsCalling
    <2> SUFFICES ASSUME NEW i \in 1..Len(p), NEW s \in ScopeSet, NEW t \in Types, Builds(p[i], s, t)
                 PROVE  i \in 1..Len(q) /\ Builds(q[i], s, t)
      BY DEF OpenSame
    <2>3. i # Len(q) + 1
      BY <2>2 DEF Builds
    <2>4. CASE i = Len(q)
      BY <1>1, <2>2, <2>4 DEF Builds
    <2>5. CASE i # Len(q)
      BY <2>2, <2>3, <2>5
    <2> QED BY <2>4, <2>5
  <1>6. Running \in Results /\ stack' = [stack EXCEPT ![g] = p]
    BY <1>1, <1>2 DEF Running, Results, Push, Below, Calling
  <1> QED BY <1>1, <1>4, <1>5, <1>6, SameKept, QuietStep

\* ... or returns.
LEMMA ComesBack ==
    ASSUME IInv, NEW cr2, crowded \subseteq cr2, cr2 = crowded',
           NEW g \in Goroutines, stack[g] # <<>>,
           NEW r \in Results, Told(value, crowded, Top(g), r), Return(g, r),
           UNCHANGED <<value, holder, runs>>,
           NEW c \in [Types -> Instances \cup {None}], c = cache', CacheOK(value, crowded, c),
           NEW as, as = answers', AnswersOK(value, crowded, as)
    PROVE  StepInv'
  <1>1. PICK q \in Seq(Frame) :
            q = stack[g] /\ q # <<>> /\ Linked(value, crowded, q, ret[g]) /\ q[Len(q)] = Top(g)
    BY TopFacts
  <1>2. PICK p : p = SubSeq(q, 1, Len(q) - 1)
    OBVIOUS
  <1>3. p \in Seq(Frame) /\ Linked(value, crowded, p, r)
    BY <1>1, <1>2, LinkedReturn
  <1>4. OpenSame(q, p)
    <2>1. Len(q) \in Nat \ {0} /\ Len(p) = Len(q) - 1 /\ \A i \in 1..(Len(q) - 1) : p[i] = q[i]
      BY <1>1, <1>2, FrontFacts
    <2> QED BY <2>1 DEF OpenSame
  <1>5. stack' = [stack EXCEPT ![g] = p] /\ ret' = [ret EXCEPT ![g] = r]
    BY <1>1, <1>2 DEF Return, Below
  <1> QED BY <1>1, <1>3, <1>4, <1>5, QuietStep

LEMMA ResultFacts ==
    /\ Running \in Results /\ Absent \in Results /\ Panic \in Results
    /\ \A v \in Instances : Value(v) \in Results
  BY DEF Running, Absent, Panic, Value, Results

LEMMA ResultValues ==
    ASSUME NEW r \in Results, r.tag = "value"
    PROVE  r.inst \in Instances /\ r = Value(r.inst)
  BY DEF Results, Value

LEMMA InstancesAreSomething == \A v \in Instances : v # None
  BY BridgesAssumption

LEMMA CallFacts ==
    ASSUME NEW where, NEW s, NEW t, NEW p
    PROVE  /\ Call(where, s, t, p).at = where /\ Call(where, s, t, p).scope = s
           /\ Call(where, s, t, p).typ = t
  BY DEF Call

LEMMA CallOK ==
    ASSUME NEW t \in Types, NEW p \in SUBSET Types
    PROVE  /\ FrameOK(Call("stage", None, t, p))
           /\ \A s \in ScopeSet :
                 /\ FrameOK(Call("resolve", s, t, p))
                 /\ t \in DOMAIN Regs[s] => FrameOK(Call("lock", s, t, p))
  BY DEF FrameOK, Frame, InScope, Call

-----------------------------------------------------------------------------
(* One lemma per action.                                                   *)

LEMMA AskKeeps ==
    ASSUME IInv, NEW cr2, crowded \subseteq cr2, cr2 = crowded',
           NEW g \in Goroutines, NEW t \in Types, Ask(g, t)
    PROVE  StepInv'
  <1>1. PICK f : f = Call("stage", None, t, {}) /\ FrameOK(f) /\ f.at = "stage"
    BY CallOK, CallFacts
  <1>2. PICK p : p = <<f>> /\ p \in Seq(Frame) /\ Len(p) = 1 /\ p[1] = f /\ p # <<>>
    <2>1. f \in Frame
      BY <1>1, FrameTypes
    <2>2. <<f>> \in Seq(Frame) /\ Len(<<f>>) = 1 /\ <<f>>[1] = f /\ <<f>> # <<>>
      BY <2>1
    <2> QED BY ONLY <2>2, Zenon
  <1>3. Linked(value, crowded, p, Running)
    BY <1>1, <1>2 DEF Linked, Given
  <1>4. OpenSame(stack[g], p)
    BY <1>1, <1>2 DEF OpenSame, Builds
  <1>5. /\ stack' = [stack EXCEPT ![g] = p] /\ ret' = [ret EXCEPT ![g] = Running]
        /\ UNCHANGED <<value, holder, runs, cache, answers>>
    BY <1>1, <1>2 DEF Ask
  <1> QED BY <1>2, <1>3, <1>4, <1>5, SameKept, ResultFacts, QuietStep

LEMMA StageLooksKeeps ==
    ASSUME IInv, NEW cr2, crowded \subseteq cr2, cr2 = crowded', NEW g \in Goroutines, StageLooks(g)
    PROVE  StepInv'
  <1>1. PICK f : f = Top(g) /\ stack[g] # <<>> /\ f.at = "stage" /\ FrameOK(f)
                 /\ Given(value, crowded, f, ret[g]) /\ f.typ \in Types
    BY TopFacts, FrameTypes DEF StageLooks, In
  <1>2. UNCHANGED <<value, holder, runs, cache>>
    BY DEF StageLooks
  <1>3. CASE cache[f.typ] # None /\ Return(g, Value(cache[f.typ])) /\ Answer(None, f.typ, cache[f.typ])
    <2>1. PICK v \in Instances : v = cache[f.typ] /\ StageReady(value, f.typ) /\ Good(value, crowded, f.typ, v)
      BY <1>1, <1>3, SameKept DEF CacheOK
    <2>2. Told(value, crowded, f, Value(v)) /\ Value(v) \in Results
      BY <1>1, <2>1, ResultTags, ResultFacts DEF Told, InScope
    <2>3. PICK as : as = answers' /\ as = answers \cup {<<None, f.typ, v>>}
      BY <1>3, <2>1 DEF Answer
    <2>4. AnswersOK(value, crowded, as)
      BY <2>1, <2>3, SameKept DEF AnswersOK
    <2> QED BY <1>1, <1>2, <1>3, <2>1, <2>2, <2>3, <2>4, SameKept, ComesBack
  <1>4. CASE /\ cache[f.typ] = None
             /\ Become(g, [f EXCEPT !.at = "scan", !.rest = Scopes])
             /\ UNCHANGED <<ret, answers>>
    <2>1. PICK e : e = [f EXCEPT !.at = "scan", !.rest = Scopes]
      OBVIOUS
    <2>2. /\ e \in Frame /\ e.at = "scan" /\ e.typ = f.typ /\ e.scope = f.scope /\ e.rest = Scopes
      BY <1>1, <2>1, BridgesAssumption DEF Frame, FrameOK
    <2>3. Reached(e) = 0 /\ FrameOK(e)
      BY <2>2, ScopeFacts DEF Reached, FrameOK, InScope
    <2>4. ret[g] = Running
      BY <1>1 DEF Given
    <2>5. Given(value, crowded, e, ret[g])
      BY <2>2, <2>3, <2>4, ResultTags DEF Given, ScanGiven, NoneOf
    <2>6. Turn(f, e)
      BY <1>1, <2>2 DEF Turn, InScope
    <2> QED BY <1>1, <1>2, <1>4, <2>1, <2>2, <2>3, <2>5, <2>6, Becomes
  <1> QED BY <1>1, <1>3, <1>4 DEF StageLooks

LEMMA ScanKeeps ==
    ASSUME IInv, NEW cr2, crowded \subseteq cr2, cr2 = crowded', NEW g \in Goroutines, Scan(g)
    PROVE  StepInv'
  <1>1. PICK f : f = Top(g) /\ stack[g] # <<>> /\ f.at = "scan" /\ FrameOK(f)
                 /\ Given(value, crowded, f, ret[g])
    BY TopFacts DEF Scan, In
  <1>2. UNCHANGED <<value, holder, runs, cache, answers>> /\ ret[g] \in {Running, Absent}
    BY DEF Scan
  <1>3. PICK m \in Nat : m = Len(f.rest)
    BY <1>1, FrameTypes
  <1>4. PICK n \in Nat : n = Len(Scopes)
    BY ScopeFacts
  <1>5. /\ f.typ \in Types /\ f.path \in SUBSET Types /\ f.rest \in Seq(ScopeSet)
        /\ m <= n /\ \A i \in 1..m : f.rest[i] = Scopes[n - m + i]
        /\ Reached(f) = n - m /\ NoneOf(n - m, f.typ)
    BY <1>1, <1>2, <1>3, <1>4, FrameTypes DEF FrameOK, Reached, Given, ScanGiven
  <1>6. CASE f.rest = <<>> /\ Return(g, Absent)
    <2>1. m = 0
      BY <1>3, <1>6
    <2>2. Told(value, crowded, f, Absent)
      BY <1>1, <1>4, <1>5, <2>1, ResultTags DEF Told
    <2> QED BY <1>1, <1>2, <1>6, <2>2, SameKept, ResultFacts, ComesBack
  <1>7. CASE /\ f.rest # <<>>
             /\ Push(g, [f EXCEPT !.rest = Tail(f.rest)],
                     Call("resolve", Head(f.rest), f.typ, IF Kind[Head(f.rest)] = "bag" THEN f.path ELSE {}))
             /\ ret' = [ret EXCEPT ![g] = Running]
    <2>1. m # 0
      BY <1>3, <1>5, <1>7, EmptySeq
    <2>2. PICK k : k = Tail(f.rest) /\ k \in Seq(ScopeSet) /\ Len(k) = m - 1
                   /\ \A i \in 1..(m - 1) : k[i] = f.rest[i + 1]
      <3>1. PICK q \in Seq(ScopeSet) : q = f.rest /\ q # <<>> /\ Len(q) = m
        BY <1>3, <1>5, <1>7
      <3>2. /\ Tail(q) \in Seq(ScopeSet) /\ Len(Tail(q)) = m - 1
            /\ \A i \in 1..(m - 1) : Tail(q)[i] = q[i + 1]
        BY <3>1, HeadTailProperties
      <3> QED BY <3>1, <3>2
    <2>3. PICK s : s = Head(f.rest) /\ s = Scopes[n - m + 1] /\ s \in ScopeSet
      <3>1. Head(f.rest) = f.rest[1] /\ 1 \in 1..m
        BY <1>3, <1>5, <1>7, <2>1
      <3>2. f.rest[1] = Scopes[n - m + 1] /\ n - m + 1 \in 1..n
        BY <1>5, <2>1, <3>1
      <3> QED BY <1>4, <3>1, <3>2, ScopeFacts
    <2>4. PICK e : e = [f EXCEPT !.rest = k]
      OBVIOUS
    <2>5. /\ e \in Frame /\ e.at = "scan" /\ e.typ = f.typ /\ e.scope = f.scope /\ e.rest = k
      BY <1>1, <2>2, <2>4 DEF Frame, FrameOK
    <2>6. Reached(e) = n - m + 1 /\ n - m + 1 \in 1..n
      <3>1. Len(e.rest) = m - 1
        BY <2>2, <2>5
      <3>2. n - (m - 1) = n - m + 1 /\ n - m + 1 \in 1..n
        BY <1>5, <2>1
      <3> QED BY <1>4, <3>1, <3>2 DEF Reached
    <2>7. FrameOK(e)
      <3>1. \A i \in 1..(m - 1) : k[i] = Scopes[n - m + 1 + i]
        <4> SUFFICES ASSUME NEW i \in 1..(m - 1) PROVE k[i] = Scopes[n - m + 1 + i]
          OBVIOUS
        <4>1. i + 1 \in 1..m /\ n - m + (i + 1) = n - m + 1 + i
          OBVIOUS
        <4> QED BY <1>5, <2>2, <4>1
      <3>2. m - 1 <= n
        BY <1>5
      <3> QED BY <1>4, <2>2, <2>5, <2>6, <3>1, <3>2 DEF FrameOK, InScope
    <2>p. PICK p \in SUBSET Types : p = IF Kind[s] = "bag" THEN f.path ELSE {}
      BY <1>5
    <2>8. PICK c : c = Call("resolve", s, f.typ, p)
      OBVIOUS
    <2>9. FrameOK(c) /\ c.at = "resolve" /\ c.scope = s /\ c.typ = f.typ
      <3>1. FrameOK(Call("resolve", s, f.typ, p))
        BY <1>5, <2>3, CallOK
      <3> QED BY <2>8, <3>1, CallFacts
    <2>10. Waits(value, e, c)
      <3>1. n - m + 1 - 1 = n - m
        BY <1>5
      <3> QED BY <1>4, <1>5, <2>3, <2>5, <2>6, <2>9, <3>1 DEF Waits, ScanWaits, InScope
    <2>11. Push(g, e, c)
      BY <1>7, <2>2, <2>3, <2>4, <2>p, <2>8
    <2> QED BY <1>1, <1>2, <1>7, <2>5, <2>7, <2>9, <2>10, <2>11, CallsOn
  <1> QED BY <1>1, <1>6, <1>7 DEF Scan

LEMMA RememberKeeps ==
    ASSUME IInv, NEW cr2, crowded \subseteq cr2, cr2 = crowded', NEW g \in Goroutines, Remember(g)
    PROVE  StepInv'
  <1>1. PICK f : f = Top(g) /\ stack[g] # <<>> /\ f.at = "scan" /\ FrameOK(f)
                 /\ Given(value, crowded, f, ret[g]) /\ f.typ \in Types
    BY TopFacts, FrameTypes DEF Remember, In
  <1>2. ret[g].tag = "value" /\ ret[g] \in Results
    BY DEF Remember, IInv, StepInv, TypesOK
  <1>3. PICK v : v = IF cache[f.typ] # None THEN cache[f.typ] ELSE ret[g].inst
    OBVIOUS
  <1>4. /\ UNCHANGED <<value, holder, runs>> /\ cache' = [cache EXCEPT ![f.typ] = v]
        /\ Return(g, Value(v)) /\ Answer(None, f.typ, v)
    BY <1>1, <1>3 DEF Remember
  <1>5. v \in Instances /\ StageReady(value, f.typ) /\ Good(value, crowded, f.typ, v)
    BY <1>1, <1>2, <1>3, SameKept, ResultValues DEF CacheOK, Given, ScanGiven
  <1>6. PICK c \in [Types -> Instances \cup {None}] : c = cache' /\ c = [cache EXCEPT ![f.typ] = v]
    BY <1>4, <1>5, SameKept
  <1>7. CacheOK(value, crowded, c)
    BY <1>1, <1>5, <1>6, SameKept DEF CacheOK
  <1>8. PICK as : as = answers' /\ as = answers \cup {<<None, f.typ, v>>}
    BY <1>4 DEF Answer
  <1>9. AnswersOK(value, crowded, as)
    BY <1>5, <1>8, SameKept DEF AnswersOK
  <1>10. Told(value, crowded, f, Value(v)) /\ Value(v) \in Results
    BY <1>1, <1>5, ResultTags, ResultFacts DEF Told, InScope
  <1> QED BY <1>1, <1>4, <1>6, <1>7, <1>8, <1>9, <1>10, ComesBack

\* What is handed on to the lock, and what is not.
LEMMA Locked ==
    ASSUME NEW f, FrameOK(f), f.at = "resolve", f.typ \in DOMAIN Regs[f.scope],
           Exposes(f.scope, f.typ),
           NEW e, e = [f EXCEPT !.at = "lock"], NEW w, NEW cr, NEW r, Given(w, cr, f, r)
    PROVE  FrameOK(e) /\ Turn(f, e) /\ e.at = "lock" /\ Given(w, cr, e, r)
  <1>1. e \in Frame /\ e.at = "lock" /\ e.typ = f.typ /\ e.scope = f.scope
    BY DEF FrameOK, Frame, InScope
  <1> QED BY <1>1 DEF FrameOK, Turn, Given, InScope

LEMMA BagResolvesKeeps ==
    ASSUME IInv, NEW cr2, crowded \subseteq cr2, cr2 = crowded', NEW g \in Goroutines, BagResolves(g)
    PROVE  StepInv'
  <1>1. PICK f : f = Top(g) /\ stack[g] # <<>> /\ f.at = "resolve" /\ FrameOK(f)
                 /\ Given(value, crowded, f, ret[g]) /\ f.scope \in ScopeSet
    BY TopFacts DEF BagResolves, In, FrameOK, InScope
  <1>2. UNCHANGED <<value, holder, runs, cache, answers>> /\ Kind[f.scope] = "bag"
    BY <1>1 DEF BagResolves
  <1>3. CASE f.typ \notin DOMAIN Regs[f.scope] /\ Return(g, Absent)
    <2>1. Told(value, crowded, f, Absent)
      BY <1>1, <1>3, ResultTags DEF Told, Exposes
    <2> QED BY <1>1, <1>2, <1>3, <2>1, SameKept, ResultFacts, ComesBack
  <1>4. CASE Return(g, Panic)
    <2>1. Told(value, crowded, f, Panic)
      BY ResultTags DEF Told
    <2> QED BY <1>1, <1>2, <1>4, <2>1, SameKept, ResultFacts, ComesBack
  <1>5. CASE /\ f.typ \in DOMAIN Regs[f.scope] /\ Become(g, [f EXCEPT !.at = "lock"])
             /\ UNCHANGED ret
    <2>1. PICK e : e = [f EXCEPT !.at = "lock"]
      OBVIOUS
    <2>2. Exposes(f.scope, f.typ)
      BY <1>1, <1>2, <1>5, RegFacts DEF Exposes
    <2>3. FrameOK(e) /\ Turn(f, e) /\ e.at = "lock" /\ Given(value, crowded, e, ret[g])
      BY <1>1, <1>5, <2>1, <2>2, Locked
    <2>4. Become(g, e) /\ e.at # "build"
      BY <1>5, <2>1, <2>3
    <2> QED BY <1>1, <1>2, <1>5, <2>3, <2>4, Becomes
  <1> QED BY <1>1, <1>3, <1>4, <1>5 DEF BagResolves

LEMMA AdapterResolvesKeeps ==
    ASSUME IInv, NEW cr2, crowded \subseteq cr2, cr2 = crowded', NEW g \in Goroutines, AdapterResolves(g)
    PROVE  StepInv'
  <1>1. PICK f : f = Top(g) /\ stack[g] # <<>> /\ f.at = "resolve" /\ FrameOK(f)
                 /\ Given(value, crowded, f, ret[g])
    BY TopFacts DEF AdapterResolves, In
  <1>2. UNCHANGED <<value, holder, runs, cache, answers>>
    BY DEF AdapterResolves
  <1>3. CASE ~Exposes(f.scope, f.typ) /\ Return(g, Absent)
    <2>1. Told(value, crowded, f, Absent)
      BY <1>1, <1>3, ResultTags DEF Told
    <2> QED BY <1>1, <1>2, <1>3, <2>1, SameKept, ResultFacts, ComesBack
  <1>4. CASE /\ Exposes(f.scope, f.typ) /\ Become(g, [f EXCEPT !.at = "lock"])
             /\ UNCHANGED ret
    <2>1. PICK e : e = [f EXCEPT !.at = "lock"]
      OBVIOUS
    <2>2. FrameOK(e) /\ Turn(f, e) /\ e.at = "lock" /\ Given(value, crowded, e, ret[g])
      BY <1>1, <1>4, <2>1, Locked DEF Exposes
    <2>3. Become(g, e) /\ e.at # "build"
      BY <1>4, <2>1, <2>2
    <2> QED BY <1>1, <1>2, <1>4, <2>2, <2>3, Becomes
  <1> QED BY <1>1, <1>3, <1>4 DEF AdapterResolves

LEMMA BuiltKeeps ==
    ASSUME IInv, NEW cr2, crowded \subseteq cr2, cr2 = crowded', NEW g \in Goroutines, Built(g)
    PROVE  StepInv'
  <1>1. PICK f : f = Top(g) /\ stack[g] # <<>> /\ f.at = "lock" /\ FrameOK(f)
                 /\ f.scope \in ScopeSet /\ f.typ \in Types
    BY TopFacts, FrameTypes DEF Built, In, FrameOK, InScope
  <1>2. PICK v : v = value[f.scope][f.typ]
    OBVIOUS
  <1>3. /\ UNCHANGED <<value, holder, runs, cache>> /\ v # None
        /\ Return(g, Value(v)) /\ Answer(f.scope, f.typ, v)
    BY <1>1, <1>2 DEF Built
  <1>4. v \in Instances
    BY <1>1, <1>2, <1>3 DEF IInv, StepInv, TypesOK
  <1>5. Good(value, crowded, f.typ, v)
    BY <1>1, <1>2, <1>3 DEF IInv, StepInv, KeptOK, ValuesOK
  <1>6. PICK as : as = answers' /\ as = answers \cup {<<f.scope, f.typ, v>>}
    BY <1>3 DEF Answer
  <1>7. AnswersOK(value, crowded, as)
    BY <1>5, <1>6, SameKept DEF AnswersOK
  <1>8. Told(value, crowded, f, Value(v)) /\ Value(v) \in Results
    BY <1>1, <1>2, <1>3, <1>4, <1>5, ResultTags, ResultFacts DEF Told, InScope
  <1> QED BY <1>1, <1>3, <1>6, <1>7, <1>8, SameKept, ComesBack

\* A build asks for one more of what it needs.
LEMMA AsksOn ==
    ASSUME IInv, NEW cr2, crowded \subseteq cr2, cr2 = crowded',
           NEW g \in Goroutines, stack[g] # <<>>, NEW f, f = Top(g), f.at = "build",
           ret[g] = Running, NEW d \in f.todo,
           NEW c, FrameOK(c), c.typ = d,
           \/ c.at = "stage" /\ AsksStage(f.scope, f.typ, d)
           \/ c.at \in {"resolve", "lock"} /\ c.scope = f.scope /\ AsksOwn(f.scope, f.typ, d),
           Push(g, [f EXCEPT !.todo = f.todo \ {d}], c),
           UNCHANGED <<ret, value, holder, runs, cache, answers>>
    PROVE  StepInv'
  <1>1. FrameOK(f) /\ Given(value, crowded, f, ret[g])
    BY TopFacts
  <1>2. PICK e : e = [f EXCEPT !.todo = f.todo \ {d}]
    OBVIOUS
  <1>3. /\ e \in Frame /\ e.at = "build" /\ e.typ = f.typ /\ e.scope = f.scope
        /\ e.todo = f.todo \ {d} /\ f.todo \subseteq Regs[f.scope][f.typ].needs
        /\ f.scope \in ScopeSet /\ f.typ \in DOMAIN Regs[f.scope]
    BY <1>1, <1>2 DEF FrameOK, Frame, InScope
  <1>4. FrameOK(e)
    BY <1>3 DEF FrameOK, InScope
  <1>5. Waits(value, e, c)
    <2>1. Asked(e) = Asked(f) \cup {d}
      BY <1>3 DEF Asked
    <2>2. \A x \in Asked(f) : DepReady(value, f.scope, f.typ, x)
      BY <1>1 DEF Given, BuildGiven
    <2> QED BY <1>3, <2>1, <2>2 DEF Waits, BuildWaits, InScope
  <1>6. ret' = [ret EXCEPT ![g] = Running] /\ Push(g, e, c)
    BY <1>2 DEF IInv, StepInv, TypesOK
  <1> QED BY <1>3, <1>4, <1>5, <1>6, CallsOn

LEMMA BuildTop ==
    ASSUME IInv, NEW g \in Goroutines, In(g, "build")
    PROVE  \E f : /\ f = Top(g) /\ stack[g] # <<>> /\ f.at = "build" /\ FrameOK(f)
                  /\ Given(value, crowded, f, ret[g])
                  /\ f.scope \in ScopeSet /\ f.typ \in DOMAIN Regs[f.scope] /\ f.typ \in Types
                  /\ f.todo \subseteq Types /\ f.path \in SUBSET Types
  BY TopFacts, FrameTypes DEF In, FrameOK, InScope

LEMMA BagAsksKeeps ==
    ASSUME IInv, NEW cr2, crowded \subseteq cr2, cr2 = crowded', NEW g \in Goroutines, BagAsks(g)
    PROVE  StepInv'
  <1>1. PICK f : /\ f = Top(g) /\ stack[g] # <<>> /\ f.at = "build"
                 /\ f.scope \in ScopeSet /\ f.typ \in DOMAIN Regs[f.scope] /\ f.typ \in Types
                 /\ f.todo \subseteq Types /\ f.path \in SUBSET Types
    BY BuildTop DEF BagAsks
  <1>2. PICK p \in SUBSET Types : p = f.path \cup {f.typ}
    BY <1>1
  <1>3. PICK d \in f.todo :
            Push(g, [f EXCEPT !.todo = f.todo \ {d}],
                 IF Exposes(f.scope, d) THEN Call("resolve", f.scope, d, p)
                                        ELSE Call("stage", None, d, p))
    BY <1>1, <1>2 DEF BagAsks
  <1>4. /\ UNCHANGED <<ret, value, holder, runs, cache, answers>>
        /\ ret[g] = Running /\ Kind[f.scope] = "bag" /\ d \in Types
    BY <1>1 DEF BagAsks
  <1>5. PICK c : c = IF Exposes(f.scope, d) THEN Call("resolve", f.scope, d, p)
                                            ELSE Call("stage", None, d, p)
    OBVIOUS
  <1>6. FrameOK(Call("resolve", f.scope, d, p)) /\ FrameOK(Call("stage", None, d, p))
    BY <1>1, <1>4, CallOK
  <1>7. /\ FrameOK(c) /\ c.typ = d
        /\ \/ c.at = "stage" /\ AsksStage(f.scope, f.typ, d)
           \/ c.at \in {"resolve", "lock"} /\ c.scope = f.scope /\ AsksOwn(f.scope, f.typ, d)
    BY <1>1, <1>4, <1>5, <1>6, CallFacts, RegFacts DEF AsksOwn, AsksStage
  <1> QED BY <1>1, <1>3, <1>4, <1>5, <1>7, AsksOn

LEMMA InnerAsksKeeps ==
    ASSUME IInv, NEW cr2, crowded \subseteq cr2, cr2 = crowded', NEW g \in Goroutines, InnerAsks(g)
    PROVE  StepInv'
  <1>1. PICK f : /\ f = Top(g) /\ stack[g] # <<>> /\ f.at = "build"
                 /\ f.scope \in ScopeSet /\ f.typ \in DOMAIN Regs[f.scope] /\ f.typ \in Types
                 /\ f.todo \subseteq Types
    BY BuildTop DEF InnerAsks
  <1>2. PICK d \in f.todo \cap DOMAIN Regs[f.scope] :
            Push(g, [f EXCEPT !.todo = f.todo \ {d}], Call("lock", f.scope, d, {}))
    BY <1>1 DEF InnerAsks
  <1>3. /\ UNCHANGED <<ret, value, holder, runs, cache, answers>>
        /\ ret[g] = Running /\ Kind[f.scope] # "bag" /\ ~Regs[f.scope][f.typ].bridge /\ d \in Types
    BY <1>1 DEF InnerAsks
  <1>4. PICK c : c = Call("lock", f.scope, d, {})
    OBVIOUS
  <1>5. {} \in SUBSET Types
    OBVIOUS
  <1>6. FrameOK(Call("lock", f.scope, d, {}))
    BY <1>1, <1>2, <1>3, <1>5, CallOK
  <1>7. /\ FrameOK(c) /\ c.typ = d
        /\ c.at \in {"resolve", "lock"} /\ c.scope = f.scope /\ AsksOwn(f.scope, f.typ, d)
    BY <1>2, <1>3, <1>4, <1>6, CallFacts DEF AsksOwn
  <1> QED BY <1>1, <1>2, <1>3, <1>4, <1>7, AsksOn

LEMMA BridgeAsksKeeps ==
    ASSUME IInv, NEW cr2, crowded \subseteq cr2, cr2 = crowded', NEW g \in Goroutines, BridgeAsks(g)
    PROVE  StepInv'
  <1>1. PICK f : /\ f = Top(g) /\ stack[g] # <<>> /\ f.at = "build"
                 /\ f.scope \in ScopeSet /\ f.typ \in DOMAIN Regs[f.scope] /\ f.typ \in Types
                 /\ f.todo \subseteq Types
    BY BuildTop DEF BridgeAsks
  <1>2. PICK d \in f.todo :
            /\ \/ Regs[f.scope][f.typ].bridge
               \/ Kind[f.scope] = "do" /\ d \notin DOMAIN Regs[f.scope]
            /\ Push(g, [f EXCEPT !.todo = f.todo \ {d}], Call("stage", None, d, {}))
    BY <1>1 DEF BridgeAsks
  <1>3. /\ UNCHANGED <<ret, value, holder, runs, cache, answers>>
        /\ ret[g] = Running /\ Kind[f.scope] # "bag" /\ d \in Types
    BY <1>1 DEF BridgeAsks
  <1>4. PICK c : c = Call("stage", None, d, {})
    OBVIOUS
  <1>5. FrameOK(c) /\ c.typ = d /\ c.at = "stage" /\ AsksStage(f.scope, f.typ, d)
    <2>1. FrameOK(Call("stage", None, d, {}))
      BY <1>3, CallOK
    <2> QED BY <1>2, <1>3, <1>4, <2>1, CallFacts DEF AsksStage
  <1> QED BY <1>1, <1>2, <1>3, <1>4, <1>5, AsksOn

\* The innermost call takes what it is given, and stays.
LEMMA Stays ==
    ASSUME IInv, NEW cr2, crowded \subseteq cr2, cr2 = crowded',
           NEW g \in Goroutines, stack[g] # <<>>,
           NEW r \in Results, Given(value, crowded, Top(g), r), ret' = [ret EXCEPT ![g] = r],
           UNCHANGED <<stack, value, holder, runs, cache, answers>>
    PROVE  StepInv'
  <1>1. PICK q \in Seq(Frame) :
            q = stack[g] /\ q # <<>> /\ Linked(value, crowded, q, ret[g]) /\ q[Len(q)] = Top(g)
    BY TopFacts
  <1>2. Linked(value, crowded, q, r)
    BY <1>1 DEF Linked
  <1>3. OpenSame(stack[g], q) /\ stack' = [stack EXCEPT ![g] = q]
    BY <1>1 DEF OpenSame, IInv, StepInv, TypesOK
  <1> QED BY <1>2, <1>3, SameKept, QuietStep

LEMMA UnbuildableKeeps ==
    ASSUME IInv, NEW cr2, crowded \subseteq cr2, cr2 = crowded', NEW g \in Goroutines, Unbuildable(g)
    PROVE  StepInv'
  <1>1. PICK f : f = Top(g) /\ stack[g] # <<>> /\ f.at = "build"
    BY BuildTop DEF Unbuildable
  <1>2. Given(value, crowded, f, Panic)
    BY <1>1, ResultTags DEF Given, BuildGiven
  <1>3. /\ ret' = [ret EXCEPT ![g] = Panic]
        /\ UNCHANGED <<stack, value, holder, runs, cache, answers>>
    BY DEF Unbuildable
  <1> QED BY <1>1, <1>2, <1>3, ResultFacts, Stays

LEMMA GetsKeeps ==
    ASSUME IInv, NEW cr2, crowded \subseteq cr2, cr2 = crowded', NEW g \in Goroutines, Gets(g)
    PROVE  StepInv'
  <1>1. PICK f : /\ f = Top(g) /\ stack[g] # <<>> /\ f.at = "build"
                 /\ Given(value, crowded, f, ret[g])
                 /\ f.scope \in ScopeSet /\ f.typ \in DOMAIN Regs[f.scope]
    BY BuildTop DEF Gets
  <1>2. UNCHANGED <<stack, value, holder, runs, cache, answers>>
    BY DEF Gets
  <1>3. CASE ret' = [ret EXCEPT ![g] = Panic]
    <2>1. Given(value, crowded, f, Panic)
      BY <1>1, ResultTags DEF Given, BuildGiven
    <2> QED BY <1>1, <1>2, <1>3, <2>1, ResultFacts, Stays
  <1>4. CASE /\ ret' = [ret EXCEPT ![g] = Running]
             /\ ~Regs[f.scope][f.typ].bridge
             /\ ret[g].tag = "value" \/ (ret[g] = Absent /\ Kind[f.scope] = "bag")
    <2>1. Given(value, crowded, f, Running)
      BY <1>1, <1>4, ResultTags DEF Given, BuildGiven
    <2> QED BY <1>1, <1>2, <1>4, <2>1, ResultFacts, Stays
  <1>5. Kind[f.scope] = "bag" => ~Regs[f.scope][f.typ].bridge
    BY <1>1, RegFacts
  <1> QED BY <1>1, <1>3, <1>4, <1>5 DEF Gets

-----------------------------------------------------------------------------
(* Entering and leaving a build.                                           *)

LEMMA OneCell ==
    ASSUME NEW S, NEW T, NEW X, NEW w \in [S -> [T -> X]], NEW s \in S, NEW t \in T, NEW v \in X,
           NEW w2, w2 = [w EXCEPT ![s][t] = v]
    PROVE  /\ w2 \in [S -> [T -> X]]
           /\ w2[s][t] = v
           /\ \A s1 \in S, t1 \in T : ~ (s1 = s /\ t1 = t) => w2[s1][t1] = w[s1][t1]
  OBVIOUS

LEMMA BuildKeeps ==
    ASSUME IInv, NEW cr2, crowded \subseteq cr2, cr2 = crowded', NEW g \in Goroutines, Build(g)
    PROVE  StepInv'
  <1>1. PICK q \in Seq(Frame) :
            q = stack[g] /\ q # <<>> /\ Linked(value, crowded, q, ret[g]) /\ q[Len(q)] = Top(g)
    BY TopFacts DEF Build, In
  <1>2. PICK f : /\ f = Top(g) /\ f.at = "lock" /\ FrameOK(f) /\ f \in Frame
                 /\ Given(value, crowded, f, ret[g])
    BY TopFacts, FrameTypes DEF Build, In
  <1>3. PICK s \in ScopeSet, t \in Types : s = f.scope /\ t = f.typ /\ t \in DOMAIN Regs[s]
    BY <1>2, FrameTypes DEF FrameOK, InScope
  <1>4. /\ Regs[s][t].needs \subseteq Types
        /\ Regs[s][t].bridge => Regs[s][t].needs = {t}
    BY <1>3, RegFacts
  <1>5. /\ holder[s][t] = None /\ value[s][t] = None
        /\ holder' = IF Locks(s) THEN [holder EXCEPT ![s][t] = g] ELSE holder
        /\ runs' = [runs EXCEPT ![s][t] = @ + 1]
        /\ Become(g, [f EXCEPT !.at = "build", !.run = runs'[s][t], !.todo = Regs[s][t].needs])
        /\ UNCHANGED <<ret, asks, cache, value, answers>>
    BY <1>2, <1>3 DEF Build
  <1>6. PICK n \in Nat : n = runs'[s][t]
    BY <1>4, <1>5 DEF IInv, StepInv, TypesOK
  <1>7. PICK e : e = [f EXCEPT !.at = "build", !.run = n, !.todo = Regs[s][t].needs]
    OBVIOUS
  <1>8. /\ e \in Frame /\ e.at = "build" /\ e.typ = t /\ e.scope = s
        /\ e.todo = Regs[s][t].needs
    BY <1>2, <1>3, <1>4, <1>7 DEF Frame, InScope
  <1>9. FrameOK(e) /\ Turn(f, e)
    BY <1>2, <1>3, <1>8 DEF FrameOK, Turn, InScope
  <1>10. ret[g] = Running
    BY <1>2 DEF Given
  <1>11. Given(value, crowded, e, Running)
    <2>1. Asked(e) = {}
      BY <1>8 DEF Asked
    <2>2. Regs[s][t].bridge => e.todo # {}
      BY <1>4, <1>8
    <2> QED BY <1>8, <2>1, <2>2, ResultTags DEF Given, BuildGiven
  <1>12. PICK p : p = Append(SubSeq(q, 1, Len(q) - 1), e)
    OBVIOUS
  <1>13. p \in Seq(Frame) /\ Linked(value, crowded, p, Running)
    BY <1>1, <1>2, <1>9, <1>11, <1>12, LinkedBecome
  <1>14. stack' = [stack EXCEPT ![g] = p] /\ ret' = [ret EXCEPT ![g] = Running]
    BY <1>1, <1>5, <1>6, <1>7, <1>10, <1>12 DEF Become, Below, IInv, StepInv, TypesOK
  <1>15. /\ CallsOK'
         /\ stack' \in [Goroutines -> Seq(Frame)] /\ ret' \in [Goroutines -> Results]
         /\ stack'[g] = p /\ \A h \in Goroutines : h # g => stack'[h] = stack[h]
    BY <1>5, <1>13, <1>14, Same, Shift, ResultFacts DEF IInv, StepInv
  <1>h. PICK h2 : h2 = holder' /\ h2 = IF Locks(s) THEN [holder EXCEPT ![s][t] = g] ELSE holder
    BY <1>5
  <1>16. /\ h2 \in [ScopeSet -> [Types -> Goroutines \cup {None}]]
         /\ Locks(s) => h2[s][t] = g
         /\ \A s1 \in ScopeSet, t1 \in Types :
                ~ (s1 = s /\ t1 = t /\ Locks(s)) => h2[s1][t1] = holder[s1][t1]
    <2>1. holder \in [ScopeSet -> [Types -> Goroutines \cup {None}]]
      BY DEF IInv, StepInv, TypesOK
    <2>2. CASE Locks(s)
      <3>1. h2 = [holder EXCEPT ![s][t] = g]
        BY <1>h, <2>2
      <3>2. /\ h2 \in [ScopeSet -> [Types -> Goroutines \cup {None}]]
            /\ h2[s][t] = g
            /\ \A s1 \in ScopeSet, t1 \in Types :
                   ~ (s1 = s /\ t1 = t) => h2[s1][t1] = holder[s1][t1]
        BY <2>1, <3>1, OneCell
      <3> QED BY <2>2, <3>2
    <2>3. CASE ~Locks(s)
      BY <1>h, <2>1, <2>3
    <2> QED BY <2>2, <2>3
  <1>17. TypesOK'
    BY <1>4, <1>5, <1>15, <1>h, <1>16 DEF IInv, StepInv, TypesOK
  <1>18. KeptOK'
    <2>1. ValuesOK(value, cr2) /\ CacheOK(value, cr2, cache) /\ AnswersOK(value, cr2, answers)
      BY KeptGrows DEF IInv, StepInv, KeptOK
    <2> QED BY <1>5, <2>1
            DEF KeptOK, ValuesOK, CacheOK, AnswersOK, DepReady, StageReady, Good
  <1>19. OpenOK'
    <2>1. ASSUME NEW h \in Goroutines, h # g PROVE Open(value, h2, cr2, h, stack[h])
      <3>1. Open(value, holder, crowded, h, stack[h]) /\ h # None
        BY BridgesAssumption DEF IInv, StepInv, OpenOK
      <3> QED BY <1>5, <1>16, <3>1 DEF Open, Alone
    <2>2. Open(value, h2, cr2, g, p)
      <3>1. Open(value, holder, crowded, g, q) /\ g # None
        BY <1>1, BridgesAssumption DEF IInv, StepInv, OpenOK
      <3>2. PICK m \in Nat \ {0} : /\ m = Len(q) /\ Len(p) = m /\ p[m] = e
                                   /\ \A i \in 1..(m - 1) : p[i] = q[i]
        BY <1>1, <1>8, <1>12, Replaced
      <3> SUFFICES ASSUME NEW i \in 1..Len(p), NEW s1 \in ScopeSet, NEW t1 \in Types,
                          Builds(p[i], s1, t1)
                   PROVE  /\ Makes(s1, t1) /\ Alone(s1, cr2) => value[s1][t1] = None
                          /\ Locks(s1) => h2[s1][t1] = g
                          /\ Locks(s1) => \A j \in 1..Len(p) : Builds(p[j], s1, t1) => i = j
        BY DEF Open
      \* The locked builds outside the new one are not of (s, t).
      <3>3. \A j \in 1..(m - 1) : /\ p[j] = q[j] /\ j \in 1..Len(q)
                                  /\ Locks(s) => ~Builds(q[j], s, t)
        BY <1>4, <1>5, <3>1, <3>2 DEF Open
      <3>4. CASE i = m
        <4>1. s1 = s /\ t1 = t
          BY <1>8, <3>2, <3>4 DEF Builds
        <4>2. \A j \in 1..Len(p) : j # m => j \in 1..(m - 1)
          BY <3>2
        <4> QED BY <1>5, <1>16, <3>2, <3>3, <3>4, <4>1, <4>2
      <3>5. CASE i # m
        <4>1. i \in 1..(m - 1) /\ Builds(q[i], s1, t1) /\ i \in 1..Len(q)
          BY <3>2, <3>3, <3>5
        <4>2. ~ (s1 = s /\ t1 = t /\ Locks(s))
          BY <3>3, <4>1
        <4>3. /\ Makes(s1, t1) /\ Alone(s1, cr2) => value[s1][t1] = None
              /\ Locks(s1) => h2[s1][t1] = g
          BY <1>16, <3>1, <4>1, <4>2 DEF Open, Alone
        <4>4. ASSUME Locks(s1), NEW j \in 1..Len(p), Builds(p[j], s1, t1) PROVE i = j
          <5>1. j # m
            BY <1>8, <3>2, <4>2, <4>4 DEF Builds
          <5>2. j \in 1..(m - 1)
            BY <3>2, <5>1
          <5>3. j \in 1..Len(q) /\ Builds(q[j], s1, t1)
            BY <3>3, <4>4, <5>2
          <5> QED BY <3>1, <4>1, <4>4, <5>3 DEF Open
        <4> QED BY <4>3, <4>4
      <3> QED BY <3>4, <3>5
    <2>3. \A h \in Goroutines : Open(value, h2, cr2, h, stack'[h])
      BY <1>15, <2>1, <2>2
    <2> QED BY <1>5, <1>h, <2>3 DEF OpenOK, Open
  <1> QED BY <1>15, <1>17, <1>18, <1>19 DEF StepInv

LEMMA Smallest ==
    ASSUME NEW T \in SUBSET Nat, T # {}
    PROVE  \E n \in T : \A m \in T : n <= m
  <1>1. PICK n \in T : \A m \in T : ~ (<<m, n>> \in OpToRel(<, Nat))
    BY NatLessThanWellFounded, WFMin
  <1>2. \A m \in T : ~ (m < n)
    BY <1>1 DEF OpToRel
  <1> QED BY <1>2

\* Inside a build of (s, t), a build of (s, t) that has all it needs finds the
\* value there.
LEMMA Nested ==
    ASSUME NEW w, NEW cr, NEW q \in Seq(Frame), NEW r, Linked(w, cr, q, r), ValuesOK(w, cr),
           NEW s \in ScopeSet, NEW t \in Types, \A d \in Regs[s][t].needs : DepReady(w, s, t, d),
           NEW n \in Nat, n = Len(q), NEW i \in 1..(n - 1), Builds(q[i], s, t), Builds(q[n], s, t)
    PROVE  w[s][t] # None
  <1> DEFINE Met(f) == /\ f.at = "build" => w[f.scope][f.typ] # None
                       /\ f.at \in {"stage", "scan"} => StageReady(w, f.typ)
  <1>1. \A k \in 1..n : FrameOK(q[k])
    BY DEF Linked
  <1>2. \A k \in 1..(n - 1) : Waits(w, q[k], q[k + 1])
    BY DEF Linked
  \* What a call waits for is there when the call's own value is.
  <1>3. ASSUME NEW k \in 1..(n - 1), \/ k = i
                                     \/ Met(q[k])
        PROVE  Met(q[k + 1])
    <2> DEFINE p == q[k]
               c == q[k + 1]
    <2>1. FrameOK(p) /\ FrameOK(c)
      <3>1. k \in 1..n /\ k + 1 \in 1..n
        OBVIOUS
      <3> QED BY <1>1, <3>1
    <2>2. Waits(w, p, c)
      BY <1>2
    <2>3. k = i => p.at = "build" /\ p.scope = s /\ p.typ = t
      BY DEF Builds
    <2>m. k = i \/ Met(p)
      BY <1>3
    <2> HIDE DEF p, c
    <2>4. CASE ScanWaits(p, c)
      <3>1. p.at = "scan" /\ k # i
        BY <2>3, <2>4 DEF ScanWaits
      <3>2. StageReady(w, p.typ)
        BY <2>m, <3>1
      <3>3. ASSUME c.at = "build" PROVE w[c.scope][c.typ] # None
        BY <2>4, <3>2, <3>3 DEF ScanWaits, StageReady
      <3>4. c.at \notin {"stage", "scan"}
        BY <2>4 DEF ScanWaits, InScope
      <3> QED BY <3>3, <3>4 DEF c
    <2>5. CASE BuildWaits(w, p, c)
      <3>1. /\ p.at = "build" /\ p.scope \in ScopeSet /\ p.typ \in Types
            /\ c.typ \in Regs[p.scope][p.typ].needs
        BY <2>1, <2>5, AskedTypes DEF BuildWaits
      <3>2. DepReady(w, p.scope, p.typ, c.typ)
        <4>1. CASE k = i
          BY <2>3, <3>1, <4>1
        <4>2. CASE k # i
          BY <2>m, <3>1, <4>2 DEF ValuesOK
        <4> QED BY <4>1, <4>2
      <3>3. \/ c.at \in {"stage", "scan"} /\ StageReady(w, c.typ)
            \/ c.at \in InScope /\ w[c.scope][c.typ] # None
        BY <2>5, <3>2 DEF BuildWaits, DepReady
      <3> QED BY <3>3 DEF InScope, c
    <2> QED BY <2>2, <2>4, <2>5 DEF Waits
  <1> HIDE DEF Met
  <1>4. Met(q[n])
    <2> SUFFICES ASSUME ~Met(q[n]) PROVE FALSE
      OBVIOUS
    <2> DEFINE Bad == {k \in Nat : k \in (i + 1)..n /\ ~Met(q[k])}
    <2>1. n \in Bad
      OBVIOUS
    <2>2. PICK k \in Bad : \A j \in Bad : k <= j
      <3>1. Bad \in SUBSET Nat /\ Bad # {}
        BY <2>1
      <3> HIDE DEF Bad
      <3> QED BY <3>1, Smallest
    <2>3. k \in (i + 1)..n /\ ~Met(q[k]) /\ k - 1 \notin Bad
      BY <2>2
    <2>4. k - 1 = i \/ Met(q[k - 1])
      BY <2>3
    <2>5. k - 1 \in 1..(n - 1) /\ k - 1 + 1 = k
      BY <2>3
    <2> QED BY <1>3, <2>3, <2>4, <2>5
  <1> QED BY <1>4 DEF Met, Builds

\* w2 is w except for (s, t), and goroutine g has left its innermost call.
Elsewhere(s, t, w, w2) ==
    \A s1 \in ScopeSet, t1 \in Types : ~ (s1 = s /\ t1 = t) => w2[s1][t1] = w[s1][t1]
Left(g, st) == st[g] = Below(g) /\ \A h \in Goroutines : h # g => st[h] = stack[h]

\* When a build of (s, t) is left, what is still being built has no value yet.
LEMMA LeavesOpen ==
    ASSUME IInv, NEW cr2, crowded \subseteq cr2,
           NEW g \in Goroutines, stack[g] # <<>>, NEW s \in ScopeSet, NEW t \in Types,
           Builds(Top(g), s, t),
           NEW st, Left(g, st), NEW w2, NEW h2,
           Elsewhere(s, t, value, w2), Elsewhere(s, t, holder, h2),
           \/ w2[s][t] = value[s][t]
           \/ ~Makes(s, t)
           \/ \A d \in Regs[s][t].needs : DepReady(value, s, t, d)
    PROVE  \A h \in Goroutines : Open(w2, h2, cr2, h, st[h])
  <1> SUFFICES ASSUME NEW h \in Goroutines PROVE Open(w2, h2, cr2, h, st[h])
    OBVIOUS
  <1>1. PICK q \in Seq(Frame) :
            /\ q = stack[g] /\ q # <<>> /\ Linked(value, crowded, q, ret[g])
            /\ q[Len(q)] = Top(g) /\ st[g] = SubSeq(q, 1, Len(q) - 1)
    BY TopFacts DEF Left
  <1>2. PICK n \in Nat \ {0} : n = Len(q)
    BY <1>1, FrontFacts
  <1>3. Len(st[g]) = n - 1 /\ \A i \in 1..(n - 1) : st[g][i] = q[i]
    BY <1>1, <1>2, FrontFacts
  <1>4. /\ \A i \in 1..Len(st[h]) : i \in 1..Len(stack[h]) /\ st[h][i] = stack[h][i]
        /\ h = g => n \notin 1..Len(st[h])
    <2>1. CASE h = g
      <3>1. stack[h] = q /\ Len(st[h]) = n - 1 /\ \A i \in 1..(n - 1) : st[h][i] = q[i]
        BY <1>1, <1>3, <2>1
      <3>2. n \notin 1..(n - 1) /\ \A i \in 1..(n - 1) : i \in 1..n
        OBVIOUS
      <3> QED BY <1>2, <3>1, <3>2
    <2>2. CASE h # g
      BY <2>2 DEF Left
    <2> QED BY <2>1, <2>2
  <1>5. Open(value, holder, crowded, h, stack[h]) /\ Open(value, holder, crowded, g, q)
    BY <1>1 DEF IInv, StepInv, OpenOK
  <1>6. Builds(q[n], s, t) /\ n \in 1..Len(q)
    BY <1>1, <1>2
  <1> SUFFICES ASSUME NEW i \in 1..Len(st[h]), NEW s1 \in ScopeSet, NEW t1 \in Types,
                      Builds(st[h][i], s1, t1)
               PROVE  /\ Makes(s1, t1) /\ Alone(s1, cr2) => w2[s1][t1] = None
                      /\ Locks(s1) => h2[s1][t1] = h
                      /\ Locks(s1) => \A j \in 1..Len(st[h]) : Builds(st[h][j], s1, t1) => i = j
    BY DEF Open
  <1>7. i \in 1..Len(stack[h]) /\ Builds(stack[h][i], s1, t1)
    BY <1>4
  <1>8. ASSUME Locks(s1), NEW j \in 1..Len(st[h]), Builds(st[h][j], s1, t1) PROVE i = j
    <2>1. j \in 1..Len(stack[h]) /\ Builds(stack[h][j], s1, t1)
      BY <1>4, <1>8
    <2> QED BY <1>5, <1>7, <1>8, <2>1 DEF Open
  <1>9. /\ Makes(s1, t1) /\ Alone(s1, crowded) => value[s1][t1] = None
        /\ Locks(s1) => holder[s1][t1] = h
    BY <1>5, <1>7 DEF Open
  <1>10. CASE ~ (s1 = s /\ t1 = t)
    BY <1>8, <1>9, <1>10 DEF Alone, Elsewhere
  <1>11. CASE s1 = s /\ t1 = t
    <2>1. ~Locks(s)
      <3>1. ASSUME Locks(s) PROVE FALSE
        <4>1. holder[s][t] = g
          BY <1>5, <1>6, <3>1 DEF Open
        <4>2. h = g
          BY <1>9, <1>11, <3>1, <4>1
        <4>3. n = i
          BY <1>1, <1>5, <1>6, <1>7, <1>11, <3>1, <4>2 DEF Open
        <4> QED BY <1>4, <4>2, <4>3
      <3> QED BY <3>1
    <2>2. ASSUME Makes(s, t), Alone(s, cr2) PROVE w2[s][t] = None
      <3>1. Alone(s, crowded) /\ s \notin cr2
        BY <2>1, <2>2 DEF Alone
      <3>2. value[s][t] = None
        BY <1>9, <1>11, <2>2, <3>1
      <3>3. ASSUME h # g PROVE FALSE
        <4>1. s \in Unlocked
          BY <2>1 DEF Unlocked
        <4>2. h \in Inside(s) /\ g \in Inside(s)
          BY <1>1, <1>2, <1>6, <1>7, <1>11 DEF Inside, Builds
        <4> QED BY <3>1, <3>3, <4>1, <4>2 DEF IInv, MeetOK
      <3>4. h = g /\ i \in 1..(n - 1) /\ Builds(q[i], s, t)
        BY <1>1, <1>3, <1>7, <1>11, <3>3
      <3>5. ASSUME \A d \in Regs[s][t].needs : DepReady(value, s, t, d) PROVE FALSE
        <4>1. ValuesOK(value, crowded)
          BY DEF IInv, StepInv, KeptOK
        <4> QED BY <1>1, <1>2, <1>6, <3>2, <3>4, <3>5, <4>1, Nested
      <3> QED BY <2>2, <3>2, <3>5
    <2> QED BY <1>8, <1>11, <2>1, <2>2
  <1> QED BY <1>10, <1>11

\* A build of (s, t) is left with v, which the scope keeps.
LEMMA Leaves ==
    ASSUME IInv, NEW cr2, crowded \subseteq cr2, cr2 = crowded',
           NEW g \in Goroutines, stack[g] # <<>>, NEW s \in ScopeSet, NEW t \in Types,
           t \in DOMAIN Regs[s], Builds(Top(g), s, t),
           \A d \in Regs[s][t].needs : DepReady(value, s, t, d),
           NEW v \in Instances, NEW w2, w2 = value', w2 = [value EXCEPT ![s][t] = v],
           Good(value, crowded, t, v) \/ Makes(s, t),
           holder' = [holder EXCEPT ![s][t] = None] \/ holder' = holder,
           Return(g, Value(v)), Answer(s, t, v), UNCHANGED <<cache, runs>>
    PROVE  StepInv'
  <1>1. PICK q \in Seq(Frame) :
            q = stack[g] /\ q # <<>> /\ Linked(value, crowded, q, ret[g]) /\ q[Len(q)] = Top(g)
    BY TopFacts
  <1>2. /\ w2 \in [ScopeSet -> [Types -> Instances \cup {None}]]
        /\ w2[s][t] = v /\ v # None
        /\ \A s1 \in ScopeSet, t1 \in Types :
               ~ (s1 = s /\ t1 = t) => w2[s1][t1] = value[s1][t1]
    <2>1. value \in [ScopeSet -> [Types -> Instances \cup {None}]]
      BY DEF IInv, StepInv, TypesOK
    <2> QED BY <2>1, OneCell, InstancesAreSomething
  <1>3. PICK h2 : h2 = holder' /\ (h2 = [holder EXCEPT ![s][t] = None] \/ h2 = holder)
    OBVIOUS
  <1>4. /\ h2 \in [ScopeSet -> [Types -> Goroutines \cup {None}]]
        /\ \A s1 \in ScopeSet, t1 \in Types :
               ~ (s1 = s /\ t1 = t) => h2[s1][t1] = holder[s1][t1]
    <2>1. holder \in [ScopeSet -> [Types -> Goroutines \cup {None}]]
      BY DEF IInv, StepInv, TypesOK
    <2>2. CASE h2 = [holder EXCEPT ![s][t] = None]
      BY <2>1, <2>2, OneCell
    <2>3. CASE h2 = holder
      BY <2>1, <2>3
    <2> QED BY <1>3, <2>2, <2>3
  \* Nothing that is to stay is replaced.
  <1>5. Grows(value, w2, crowded)
    <2>1. ASSUME Makes(s, t), Alone(s, crowded) PROVE value[s][t] = None
      <3>1. Open(value, holder, crowded, g, q) /\ Len(q) \in 1..Len(q)
        BY <1>1, TopFacts DEF IInv, StepInv, OpenOK
      <3> QED BY <1>1, <2>1, <3>1 DEF Open
    <2> QED BY <1>2, <2>1 DEF Grows
  <1>6. Good(w2, crowded, t, v)
    <2>1. CASE Makes(s, t)
      <3>1. \A u \in ScopeSet : Providers(t) = {u} => u = s
        BY <2>1 DEF Providers, Makes
      <3> QED BY <1>2, <3>1 DEF Good
    <2> QED BY <1>5, <2>1, GoodGrows
  <1>7. Told(w2, crowded, Top(g), Value(v))
    BY <1>2, <1>6, ResultTags DEF Told, Builds, InScope
  <1>8. PICK p : p = SubSeq(q, 1, Len(q) - 1)
    OBVIOUS
  <1>9. p \in Seq(Frame) /\ Linked(w2, crowded, p, Value(v))
    <2>1. Linked(w2, crowded, q, ret[g])
      BY <1>1, <1>5, LinkedGrows
    <2>2. Told(w2, crowded, q[Len(q)], Value(v))
      BY <1>1, <1>7
    <2> QED BY <1>1, <1>8, <2>1, <2>2, LinkedReturn
  <1>10. /\ stack' = [stack EXCEPT ![g] = p] /\ ret' = [ret EXCEPT ![g] = Value(v)]
         /\ p = Below(g)
    BY <1>1, <1>8 DEF Return, Below
  <1>11. /\ CallsOK'
         /\ stack' \in [Goroutines -> Seq(Frame)] /\ ret' \in [Goroutines -> Results]
         /\ stack'[g] = p /\ \A h \in Goroutines : h # g => stack'[h] = stack[h]
    BY <1>5, <1>9, <1>10, Shift, ResultFacts DEF IInv, StepInv
  <1>12. TypesOK'
    BY <1>2, <1>3, <1>4, <1>11 DEF IInv, StepInv, TypesOK
  <1>13. ValuesOK(w2, cr2)
    <2> SUFFICES ASSUME NEW s1 \in ScopeSet, NEW t1 \in Types, w2[s1][t1] # None
                 PROVE  /\ t1 \in DOMAIN Regs[s1]
                        /\ \A d \in Regs[s1][t1].needs : DepReady(w2, s1, t1, d)
                        /\ Good(w2, cr2, t1, w2[s1][t1])
      BY DEF ValuesOK
    <2>1. CASE s1 = s /\ t1 = t
      <3>1. \A d \in Regs[s][t].needs : DepReady(w2, s, t, d)
        BY <1>5, RegFacts, DepGrows
      <3>2. Good(w2, cr2, t, v)
        BY <1>6, Same, GoodGrows
      <3> QED BY <1>2, <2>1, <3>1, <3>2
    <2>2. CASE ~ (s1 = s /\ t1 = t)
      <3>1. w2[s1][t1] = value[s1][t1]
        BY <1>2, <2>2
      <3>2. /\ t1 \in DOMAIN Regs[s1]
            /\ \A d \in Regs[s1][t1].needs : DepReady(value, s1, t1, d)
            /\ Good(value, crowded, t1, value[s1][t1])
        BY <3>1 DEF IInv, StepInv, KeptOK, ValuesOK
      <3>3. \A d \in Regs[s1][t1].needs : DepReady(w2, s1, t1, d)
        BY <1>5, <3>2, RegFacts, DepGrows
      <3>4. Good(w2, cr2, t1, value[s1][t1])
        BY <1>5, <3>2, GoodGrows
      <3> QED BY <3>1, <3>2, <3>3, <3>4
    <2> QED BY <2>1, <2>2
  <1>14. CacheOK(w2, cr2, cache)
    <2> SUFFICES ASSUME NEW x \in Types, cache[x] # None
                 PROVE  StageReady(w2, x) /\ Good(w2, cr2, x, cache[x])
      BY DEF CacheOK
    <2>1. StageReady(value, x) /\ Good(value, crowded, x, cache[x])
      BY SameKept DEF CacheOK
    <2> QED BY <1>5, <2>1, ReadyGrows, GoodGrows
  <1>15. PICK as : as = answers' /\ as = answers \cup {<<s, t, v>>}
    BY DEF Answer
  <1>16. AnswersOK(w2, cr2, as)
    <2>1. Good(w2, cr2, t, v)
      BY <1>6, Same, GoodGrows
    <2>2. \A a \in answers : Good(w2, cr2, a[2], a[3])
      BY <1>5, SameKept, GoodGrows DEF AnswersOK
    <2>3. <<s, t, v>>[2] = t /\ <<s, t, v>>[3] = v
      OBVIOUS
    <2>4. ASSUME NEW a \in as PROVE Good(w2, cr2, a[2], a[3])
      <3>1. CASE a \in answers
        BY <2>2, <3>1
      <3>2. CASE a = <<s, t, v>>
        BY <2>1, <2>3, <3>2
      <3> QED BY <1>15, <3>1, <3>2
    <2> QED BY <2>4 DEF AnswersOK
  <1>17. KeptOK'
    <2>1. ValuesOK(value', crowded') /\ CacheOK(value', crowded', cache') /\ AnswersOK(value', crowded', answers')
      BY <1>13, <1>14, <1>15, <1>16
    <2> QED BY <2>1 DEF KeptOK
  <1>18. OpenOK'
    <2>1. PICK st : st = stack' /\ st[g] = Below(g) /\ \A h \in Goroutines : h # g => st[h] = stack[h]
      BY <1>10, <1>11
    <2>2. \A h \in Goroutines : Open(w2, h2, cr2, h, st[h])
      <3>1. Elsewhere(s, t, value, w2) /\ Elsewhere(s, t, holder, h2) /\ Left(g, st)
        BY <1>2, <1>4, <2>1 DEF Elsewhere, Left
      <3> QED BY <3>1, LeavesOpen
    <2>3. \A h \in Goroutines : Open(value', holder', crowded', h, stack'[h])
      BY <1>3, <2>1, <2>2
    <2> QED BY <2>3 DEF OpenOK
  <1> QED BY <1>11, <1>12, <1>17, <1>18 DEF StepInv

LEMMA ReturnsKeeps ==
    ASSUME IInv, NEW cr2, crowded \subseteq cr2, cr2 = crowded', NEW g \in Goroutines, Returns(g)
    PROVE  StepInv'
  <1>1. PICK f : /\ f = Top(g) /\ stack[g] # <<>> /\ f.at = "build" /\ FrameOK(f)
                 /\ Given(value, crowded, f, ret[g])
                 /\ f.scope \in ScopeSet /\ f.typ \in DOMAIN Regs[f.scope] /\ f.typ \in Types
    BY BuildTop DEF Returns
  <1>2. ret[g] = Running /\ f.todo = {} /\ f.run \in Nat
    BY <1>1, FrameTypes DEF Returns
  <1>3. PICK s \in ScopeSet, t \in Types :
            s = f.scope /\ t = f.typ /\ t \in DOMAIN Regs[s] /\ Builds(f, s, t)
    BY <1>1 DEF Builds
  <1>4. /\ \A d \in Regs[s][t].needs : DepReady(value, s, t, d)
        /\ Makes(s, t)
    BY <1>1, <1>2, <1>3 DEF Given, BuildGiven, Asked, Makes
  <1>5. PICK v \in Instances : v = [scope |-> s, typ |-> t, run |-> f.run]
    BY <1>2 DEF Instances
  <1>6. /\ value' = [value EXCEPT ![s][t] = v] /\ holder' = [holder EXCEPT ![s][t] = None]
        /\ Return(g, Value(v)) /\ Answer(s, t, v) /\ UNCHANGED <<cache, runs>>
    BY <1>1, <1>3, <1>5 DEF Returns
  <1>7. PICK w2 : w2 = value' /\ w2 = [value EXCEPT ![s][t] = v]
    BY <1>6
  <1> QED BY <1>1, <1>3, <1>4, <1>6, <1>7, Leaves

LEMMA BridgeReturnsKeeps ==
    ASSUME IInv, NEW cr2, crowded \subseteq cr2, cr2 = crowded', NEW g \in Goroutines, BridgeReturns(g)
    PROVE  StepInv'
  <1>1. PICK f : /\ f = Top(g) /\ stack[g] # <<>> /\ f.at = "build" /\ FrameOK(f)
                 /\ Given(value, crowded, f, ret[g])
                 /\ f.scope \in ScopeSet /\ f.typ \in DOMAIN Regs[f.scope] /\ f.typ \in Types
    BY BuildTop DEF BridgeReturns
  <1>2. PICK s \in ScopeSet, t \in Types :
            s = f.scope /\ t = f.typ /\ t \in DOMAIN Regs[s] /\ Builds(f, s, t)
    BY <1>1 DEF Builds
  <1>3. PICK v \in Instances : v = ret[g].inst
    BY ResultValues DEF BridgeReturns, IInv, StepInv, TypesOK
  <1>4. /\ Regs[s][t].bridge /\ ret[g].tag = "value"
        /\ value' = [value EXCEPT ![s][t] = v] /\ holder' = holder
        /\ Return(g, Value(v)) /\ Answer(s, t, v) /\ UNCHANGED <<cache, runs>>
    BY <1>1, <1>2, <1>3 DEF BridgeReturns
  <1>5. PICK w2 : w2 = value' /\ w2 = [value EXCEPT ![s][t] = v]
    BY <1>4
  \* The stage has been asked for the one thing a bridge needs.
  <1>6. \A d \in Regs[s][t].needs : DepReady(value, s, t, d)
    BY <1>1, <1>2, <1>4 DEF Given, BuildGiven, Asked
  <1>7. Good(value, crowded, t, v)
    BY <1>1, <1>2, <1>3, <1>4 DEF Given, BuildGiven
  <1> QED BY <1>1, <1>2, <1>4, <1>5, <1>6, <1>7, Leaves

LEMMA UnwindKeeps ==
    ASSUME IInv, NEW cr2, crowded \subseteq cr2, cr2 = crowded', NEW g \in Goroutines, Unwind(g)
    PROVE  StepInv'
  <1>1. /\ stack[g] # <<>> /\ Return(g, Panic) /\ UNCHANGED <<cache, value, runs, answers>>
        /\ holder' = IF In(g, "build")
                     THEN [holder EXCEPT ![Top(g).scope][Top(g).typ] = None]
                     ELSE holder
    BY DEF Unwind
  <1>2. Told(value, crowded, Top(g), Panic)
    BY ResultTags DEF Told
  <1>3. CASE ~In(g, "build")
    BY <1>1, <1>2, <1>3, SameKept, ResultFacts, ComesBack
  <1>4. CASE In(g, "build")
    <2>1. PICK s \in ScopeSet, t \in Types : s = Top(g).scope /\ t = Top(g).typ /\ Builds(Top(g), s, t)
      BY <1>4, BuildTop DEF Builds
    <2>2. PICK h2 : h2 = holder' /\ h2 = [holder EXCEPT ![s][t] = None]
      BY <1>1, <1>4, <2>1
    <2>3. /\ h2 \in [ScopeSet -> [Types -> Goroutines \cup {None}]]
          /\ \A s1 \in ScopeSet, t1 \in Types :
                 ~ (s1 = s /\ t1 = t) => h2[s1][t1] = holder[s1][t1]
      <3>1. holder \in [ScopeSet -> [Types -> Goroutines \cup {None}]]
        BY DEF IInv, StepInv, TypesOK
      <3> QED BY <2>2, <3>1, OneCell
    <2>4. PICK q \in Seq(Frame) :
              q = stack[g] /\ q # <<>> /\ Linked(value, crowded, q, ret[g]) /\ q[Len(q)] = Top(g)
      BY <1>1, TopFacts
    <2>5. PICK p : p = SubSeq(q, 1, Len(q) - 1)
      OBVIOUS
    <2>6. p \in Seq(Frame) /\ Linked(value, crowded, p, Panic)
      BY <1>2, <2>4, <2>5, LinkedReturn
    <2>7. /\ stack' = [stack EXCEPT ![g] = p] /\ ret' = [ret EXCEPT ![g] = Panic] /\ p = Below(g)
      BY <1>1, <2>4, <2>5 DEF Return, Below
    <2>8. /\ CallsOK'
          /\ stack' \in [Goroutines -> Seq(Frame)] /\ ret' \in [Goroutines -> Results]
          /\ stack'[g] = p /\ \A h \in Goroutines : h # g => stack'[h] = stack[h]
      BY <1>1, <2>6, <2>7, Same, Shift, ResultFacts DEF IInv, StepInv
    <2>9. TypesOK'
      BY <1>1, <2>2, <2>3, <2>8 DEF IInv, StepInv, TypesOK
    <2>10. KeptOK'
      <3>1. ValuesOK(value, cr2) /\ CacheOK(value, cr2, cache) /\ AnswersOK(value, cr2, answers)
        BY KeptGrows DEF IInv, StepInv, KeptOK
      <3>2. ValuesOK(value', crowded') /\ CacheOK(value', crowded', cache') /\ AnswersOK(value', crowded', answers')
        BY <1>1, <3>1
      <3> QED BY <3>2 DEF KeptOK
    <2>11. OpenOK'
      <3>1. PICK st : st = stack' /\ st[g] = Below(g) /\ \A h \in Goroutines : h # g => st[h] = stack[h]
        BY <2>7, <2>8
      <3>2. \A h \in Goroutines : Open(value, h2, cr2, h, st[h])
        <4>1. Elsewhere(s, t, value, value) /\ Elsewhere(s, t, holder, h2) /\ Left(g, st)
          BY <2>3, <3>1 DEF Elsewhere, Left
        <4> QED BY <1>1, <2>1, <4>1, LeavesOpen
      <3>3. \A h \in Goroutines : Open(value', holder', crowded', h, stack'[h])
        BY <1>1, <2>2, <3>1, <3>2
      <3> QED BY <3>3 DEF OpenOK
    <2> QED BY <2>8, <2>9, <2>10, <2>11 DEF StepInv
  <1> QED BY <1>3, <1>4

-----------------------------------------------------------------------------
(* Meeting, and the whole.                                                 *)

LEMMA TwoAreMore ==
    ASSUME NEW G \in SUBSET Goroutines, NEW g \in G, NEW h \in G, g # h
    PROVE  Cardinality(G) > 1
  <1>1. IsFiniteSet(G)
    BY BridgesAssumption, FS_Subset
  <1>2. Cardinality(G) \in Nat
    BY <1>1, FS_CardinalityType
  <1>3. Cardinality(G) # 0
    BY <1>1, FS_EmptySet
  <1>4. Cardinality(G) # 1
    BY <1>1, FS_Singleton
  <1> QED BY <1>2, <1>3, <1>4

LEMMA MeetKeeps == Meet => MeetOK'
  <1> SUFFICES ASSUME Meet, NEW s \in Unlocked, NEW g \in Goroutines, NEW h \in Goroutines,
                      g # h, g \in Inside(s)', h \in Inside(s)'
               PROVE  s \in crowded'
    BY DEF MeetOK, Unlocked, Locks
  <1>1. PICK G : G = Inside(s)'
    OBVIOUS
  <1>2. G \in SUBSET Goroutines
    BY <1>1 DEF Inside
  <1>3. Cardinality(G) > 1
    BY <1>1, <1>2, TwoAreMore
  <1>4. Cardinality(Inside(s)') > 1
    BY <1>1, <1>3
  <1> QED BY <1>4 DEF Meet

LEMMA InitInv == Init => IInv
  <1> SUFFICES ASSUME Init PROVE IInv
    OBVIOUS
  <1>1. /\ \A g \in Goroutines : stack[g] = <<>> /\ Len(stack[g]) = 0
        /\ stack \in [Goroutines -> Seq(Frame)]
    BY DEF Init
  <1>2. TypesOK
    BY <1>1, ResultFacts DEF Init, TypesOK
  <1>3. CallsOK
    BY <1>1 DEF CallsOK, Linked
  <1>4. KeptOK
    <2>1. /\ \A s \in ScopeSet, t \in Types : value[s][t] = None
          /\ \A t \in Types : cache[t] = None
          /\ answers = {}
      BY DEF Init
    <2> QED BY <2>1 DEF KeptOK, ValuesOK, CacheOK, AnswersOK
  <1>5. OpenOK
    BY <1>1 DEF OpenOK, Open
  <1>6. MeetOK
    BY <1>1 DEF MeetOK, Inside
  <1> QED BY <1>2, <1>3, <1>4, <1>5, <1>6 DEF IInv, StepInv

LEMMA AdvanceKeeps ==
    ASSUME IInv, NEW cr2, crowded \subseteq cr2, cr2 = crowded', NEW g \in Goroutines, Advance(g)
    PROVE  StepInv'
  <1>1. CASE StageLooks(g) \/ Scan(g) \/ Remember(g)
    BY <1>1, StageLooksKeeps, ScanKeeps, RememberKeeps
  <1>2. CASE BagResolves(g) \/ AdapterResolves(g) \/ Built(g) \/ Build(g)
    BY <1>2, BagResolvesKeeps, AdapterResolvesKeeps, BuiltKeeps, BuildKeeps
  <1>3. CASE BagAsks(g) \/ InnerAsks(g) \/ BridgeAsks(g) \/ Unbuildable(g)
    BY <1>3, BagAsksKeeps, InnerAsksKeeps, BridgeAsksKeeps, UnbuildableKeeps
  <1>4. CASE Gets(g) \/ Returns(g) \/ BridgeReturns(g) \/ Unwind(g)
    BY <1>4, GetsKeeps, ReturnsKeeps, BridgeReturnsKeeps, UnwindKeeps
  <1> QED BY <1>1, <1>2, <1>3, <1>4 DEF Advance

LEMMA NextKeeps == IInv /\ [Next]_vars => IInv'
  <1> SUFFICES ASSUME IInv, [Next]_vars PROVE IInv'
    OBVIOUS
  <1>1. CASE UNCHANGED vars
    <2>1. /\ TypesOK' = TypesOK /\ CallsOK' = CallsOK /\ KeptOK' = KeptOK
          /\ OpenOK' = OpenOK /\ MeetOK' = MeetOK
      BY <1>1
      DEF vars, TypesOK, CallsOK, Linked, Waits, ScanWaits, BuildWaits, Given, ScanGiven, BuildGiven,
          KeptOK, ValuesOK, CacheOK, AnswersOK, DepReady, StageReady, Good, OpenOK, Open,
          MeetOK, Inside
    <2> QED BY <2>1 DEF IInv, StepInv
  <1>2. ASSUME NEW g \in Goroutines, Working(g) PROVE IInv'
    <2>1. PICK cr2 : cr2 = crowded' /\ crowded \subseteq cr2
      BY <1>2 DEF Working, Meet
    <2> QED BY <1>2, <2>1, AdvanceKeeps, MeetKeeps DEF Working, IInv
  <1>3. ASSUME NEW g \in Goroutines, NEW t \in Types, Ask(g, t), Meet PROVE IInv'
    <2>1. PICK cr2 : cr2 = crowded' /\ crowded \subseteq cr2
      BY <1>3 DEF Meet
    <2> QED BY <1>3, <2>1, AskKeeps, MeetKeeps DEF IInv
  <1> QED BY <1>1, <1>2, <1>3 DEF Next, Finished

\* Every value on its way, kept or answered is the one its scope keeps, and what
\* is being built has none yet: in every composition, cyclic or not, and for any
\* number of goroutines (stage.go TryResolveTypePath, bag.go resolve,
\* mokkitdig.go and mokkitdo.go TryResolveType).
THEOREM Invariance == Spec => []IInv
  BY InitInv, NextKeeps, PTL DEF Spec

LEMMA InvOneInstance == IInv => OneInstance
  <1> SUFFICES ASSUME IInv, NEW a \in answers, NEW b \in answers, NEW s \in ScopeSet,
                      a[2] = b[2], Providers(a[2]) = {s}, Locks(s) \/ s \notin crowded
               PROVE  a[3] = b[3]
    BY DEF OneInstance
  <1>1. Good(value, crowded, a[2], a[3]) /\ Good(value, crowded, b[2], b[3])
    BY SameKept DEF AnswersOK
  <1> QED BY <1>1 DEF Good, Alone

\* A type that one container provides is one instance to the stage, to every
\* factory, bridge and DI container, but for what two goroutines that have met in
\* a dig container have built there: in every composition, cyclic or not.
THEOREM OneInstanceHolds == Spec => []OneInstance
  BY Invariance, InvOneInstance, PTL
=============================================================================
