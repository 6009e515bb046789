----------------------------- MODULE Resolution -----------------------------
(***************************************************************************)
(* Resolving services through one entered stage: Stage.TryResolveTypePath  *)
(* (stage.go) over bag scopes (container/bag/bag.go), called by several    *)
(* goroutines at once, while Stage.Close may run at any moment.            *)
(*                                                                         *)
(* A goroutine is a call stack.  A frame is one Go call in progress; its   *)
(* `at' is the place the call has reached.  One step is what the code does *)
(* between two points where another goroutine can interfere: the body of   *)
(* one critical section, or one decision over immutable data.              *)
(***************************************************************************)
EXTENDS Naturals, Sequences, FiniteSets

CONSTANTS
    Goroutines,     \* the test body and the branches of an All group
    Types,          \* the reflect.Types somebody registers or asks for
    Scopes,         \* the composition: a sequence of distinct scope names
    Regs,           \* Regs[s]: the registrations of scope s, a partial function on Types
    None,           \* no instance, no type, no holder
    MaxAsks         \* bound: resolutions one goroutine starts from outside

ScopeSet == {Scopes[i] : i \in 1..Len(Scopes)}

\* An instance is named by the registration it comes from and the factory run
\* that made it; run 0 is the value Instance[T] was given.
Instances == [scope : ScopeSet, typ : Types, run : Nat]

Registration ==
    [kind   : {"instance", "alias", "scoped"},
     target : Types \cup {None},        \* what an alias stands for
     needs  : SUBSET Types,             \* what a factory resolves, in any order
     closer : BOOLEAN,                  \* the built value implements io.Closer
     flaky  : BOOLEAN]                  \* the factory may panic

ASSUME BoundsAssumption == MaxAsks \in Nat

ASSUME RegsAssumption ==
    /\ Scopes \in Seq(ScopeSet)
    /\ \A i, j \in 1..Len(Scopes) : Scopes[i] = Scopes[j] => i = j
    /\ DOMAIN Regs = ScopeSet
    /\ \A s \in ScopeSet :
          /\ DOMAIN Regs[s] \subseteq Types
          /\ \A t \in DOMAIN Regs[s] :
                /\ Regs[s][t] \in Registration
                /\ Regs[s][t].kind = "alias" => Regs[s][t].target \in Types

ASSUME NoneAssumption ==
    /\ None \notin Instances
    /\ None \notin Goroutines
    /\ None \notin Types
    /\ None \notin ScopeSet

VARIABLES
    stack,      \* stack[g]: the calls goroutine g is inside, innermost last
    ret,        \* ret[g]: what the innermost call of g has just been handed
    asks,       \* asks[g]: resolutions g has started from outside
    cache,      \* Stage.cache
    scopes,     \* Stage.scopes
    closed,     \* Stage.closed
    holder,     \* holder[s][t]: who holds entry.once
    entry,      \* entry[s][t]: entry.value once entry.built
    runs,       \* runs[s][t]: times the factory has been entered
    closers,    \* closers[s]: scope.closers
    shut,       \* shut[s]: scope.closed
    toClose,    \* the scopes Stage.Close has still to close
    batch,      \* the closers the scope being closed has still to close
    released,   \* history: the instances closed, in order
    answers     \* history: <<who answered, type asked for, instance given>>

goVars    == <<stack, ret, asks>>
stageVars == <<cache, scopes, closed>>
bagVars   == <<holder, entry, runs, closers, shut>>
endVars   == <<toClose, batch, released>>
vars      == <<stack, ret, asks, cache, scopes, closed, holder, entry, runs,
               closers, shut, toClose, batch, released, answers>>

-----------------------------------------------------------------------------
(* Frames and results.                                                     *)

StageAt == {"cached", "snapshot", "scan"}
BagAt   == {"resolve", "entry", "lock", "build"}

\* `path' is the set of types under construction: the code carries a slice,
\* whose order only the text of a CycleError shows.
Frame ==
    [at    : StageAt \cup BagAt \cup {"through"},
     scope : ScopeSet \cup {None},
     typ   : Types,
     path  : SUBSET Types,
     todo  : SUBSET Types,      \* build: what the factory has still to resolve
     rest  : Seq(ScopeSet)]     \* scan: the snapshot's scopes not yet asked

Call(where, s, t, p) ==
    [at |-> where, scope |-> s, typ |-> t, path |-> p, todo |-> {}, rest |-> <<>>]

StageCall(t, p)      == Call("cached", None, t, p)
ResolveCall(s, t, p) == Call("resolve", s, t, p)
ThroughCall(s, t, p) == Call("through", s, t, p)

Running     == [tag |-> "running", inst |-> None]
Absent      == [tag |-> "absent",  inst |-> None]
Value(v)    == [tag |-> "value",   inst |-> v]
Panic       == [tag |-> "panic",   inst |-> None]

Results ==
    [tag : {"running", "absent", "panic"}, inst : {None}]
        \cup [tag : {"value"}, inst : Instances]

Top(g)   == stack[g][Len(stack[g])]
Below(g) == SubSeq(stack[g], 1, Len(stack[g]) - 1)

In(g, where) == stack[g] # <<>> /\ Top(g).at = where

\* The innermost call of g replaces itself by f; calls f; returns r.
Become(g, f) == stack' = [stack EXCEPT ![g] = Append(Below(g), f)]
Goto(g, where) == Become(g, [Top(g) EXCEPT !.at = where])
Push(g, f, callee) ==
    stack' = [stack EXCEPT ![g] = Append(Append(Below(g), f), callee)]
Return(g, r) ==
    /\ stack' = [stack EXCEPT ![g] = Below(g)]
    /\ ret' = [ret EXCEPT ![g] = r]

Answer(who, t, v) == answers' = answers \cup {<<who, t, v>>}

Reg(s, t) == Regs[s][t]

-----------------------------------------------------------------------------
Init ==
    /\ stack = [g \in Goroutines |-> <<>>]
    /\ ret = [g \in Goroutines |-> Running]
    /\ asks = [g \in Goroutines |-> 0]
    /\ cache = [t \in Types |-> None]
    /\ scopes = Scopes
    /\ closed = FALSE
    /\ holder = [s \in ScopeSet |-> [t \in Types |-> None]]
    /\ entry = [s \in ScopeSet |-> [t \in Types |-> None]]
    /\ runs = [s \in ScopeSet |-> [t \in Types |-> 0]]
    /\ closers = [s \in ScopeSet |-> <<>>]
    /\ shut = [s \in ScopeSet |-> FALSE]
    /\ toClose = <<>>
    /\ batch = <<>>
    /\ released = <<>>
    /\ answers = {}

-----------------------------------------------------------------------------
(***************************************************************************)
(* Plausible bugs, none of them in the code: a wrong version of an action  *)
(* below, for each property to be tried against.  Next uses none of them.  *)
(***************************************************************************)

\* Remember without its `ok': a miss is cached and answered like a value.
BugRememberMiss(g) ==
    /\ In(g, "scan")
    /\ ret[g].tag \in {"value", "absent"}
    /\ cache' = [cache EXCEPT ![Top(g).typ] = ret[g].inst]
    /\ Return(g, Value(ret[g].inst))
    /\ Answer(None, Top(g).typ, ret[g].inst)
    /\ UNCHANGED <<asks, scopes, closed, bagVars, endVars>>

\* resolve without the entry's lock.
BugBuildUnlocked(g) ==
    /\ In(g, "lock")
    /\ LET s == Top(g).scope
           t == Top(g).typ
       IN /\ entry[s][t] = None
          /\ holder' = [holder EXCEPT ![s][t] = g]
          /\ runs' = [runs EXCEPT ![s][t] = @ + 1]
          /\ Become(g, [Top(g) EXCEPT !.at = "build", !.todo = Reg(s, t).needs])
    /\ UNCHANGED <<ret, asks, stageVars, entry, closers, shut, endVars, answers>>

\* resolve checks e.built before it takes the lock, and not again under it.
BugBuildAgain(g) ==
    /\ In(g, "lock")
    /\ LET s == Top(g).scope
           t == Top(g).typ
       IN /\ holder[s][t] = None
          /\ holder' = [holder EXCEPT ![s][t] = g]
          /\ runs' = [runs EXCEPT ![s][t] = @ + 1]
          /\ Become(g, [Top(g) EXCEPT !.at = "build", !.todo = Reg(s, t).needs])
    /\ UNCHANGED <<ret, asks, stageVars, entry, closers, shut, endVars, answers>>

\* The factory is given a resolver that starts a path of its own.
BugPathForgotten(g) ==
    /\ In(g, "build")
    /\ ret[g] = Running
    /\ LET f == Top(g) IN
       \E d \in f.todo :
          Push(g, [f EXCEPT !.todo = @ \ {d}], ThroughCall(f.scope, d, {f.typ}))
    /\ UNCHANGED <<ret, asks, stageVars, bagVars, endVars, answers>>

\* The stage hands the request on through TryResolveType, without the path.
BugPathLostInTheHop(g) ==
    /\ In(g, "scan")
    /\ ret[g] \in {Running, Absent}
    /\ LET f == Top(g) IN
       \/ /\ f.rest = <<>>
          /\ Return(g, Absent)
       \/ /\ f.rest # <<>>
          /\ Push(g, [f EXCEPT !.rest = Tail(f.rest)],
                  ResolveCall(Head(f.rest), f.typ, {}))
          /\ ret' = [ret EXCEPT ![g] = Running]
    /\ UNCHANGED <<asks, stageVars, bagVars, endVars, answers>>

\* Unlock on the ordinary way out only, not deferred.
BugUnlockNotDeferred(g) ==
    /\ stack[g] # <<>>
    /\ ret[g] = Panic
    /\ Return(g, Panic)
    /\ UNCHANGED <<asks, stageVars, bagVars, endVars, answers>>

\* scope.Close leaves s.closers behind.
BugClosersKept ==
    /\ batch = <<>>
    /\ toClose # <<>>
    /\ LET s == toClose[Len(toClose)] IN
       /\ batch' = closers[s]
       /\ shut' = [shut EXCEPT ![s] = TRUE]
    /\ toClose' = SubSeq(toClose, 1, Len(toClose) - 1)
    /\ UNCHANGED <<goVars, stageVars, holder, entry, runs, closers, released, answers>>

\* scope.Close goes through its closers oldest first.
BugOldestFirst ==
    /\ batch # <<>>
    /\ released' = Append(released, Head(batch))
    /\ batch' = Tail(batch)
    /\ UNCHANGED <<goVars, stageVars, bagVars, toClose, answers>>

-----------------------------------------------------------------------------
(***************************************************************************)
(* Stage.TryResolveTypePath.                                               *)
(***************************************************************************)

\* A step asks its Host for t.
Ask(g, t) ==
    /\ stack[g] = <<>>
    /\ asks[g] < MaxAsks
    /\ asks' = [asks EXCEPT ![g] = @ + 1]
    /\ stack' = [stack EXCEPT ![g] = <<StageCall(t, {})>>]
    /\ ret' = [ret EXCEPT ![g] = Running]
    /\ UNCHANGED <<stageVars, bagVars, endVars, answers>>

\* s.cached(typ)
Cached(g) ==
    /\ In(g, "cached")
    /\ ret[g] = Running
    /\ LET t == Top(g).typ IN
       \/ /\ cache[t] # None
          /\ Return(g, Value(cache[t]))
          /\ Answer(None, t, cache[t])
       \/ /\ cache[t] = None
          /\ Goto(g, "snapshot")
          /\ UNCHANGED <<ret, answers>>
    /\ UNCHANGED <<asks, stageVars, bagVars, endVars>>

\* s.snapshotScopes()
Snapshot(g) ==
    /\ In(g, "snapshot")
    /\ Become(g, [Top(g) EXCEPT !.at = "scan", !.rest = scopes])
    /\ UNCHANGED <<ret, asks, stageVars, bagVars, endVars, answers>>

\* The loop over the snapshot: ask the next scope, or give up.
Scan(g) ==
    /\ In(g, "scan")
    /\ ret[g] \in {Running, Absent}
    /\ LET f == Top(g) IN
       \/ /\ f.rest = <<>>
          /\ Return(g, Absent)
       \/ /\ f.rest # <<>>
          /\ Push(g, [f EXCEPT !.rest = Tail(f.rest)],
                  ResolveCall(Head(f.rest), f.typ, f.path))
          /\ ret' = [ret EXCEPT ![g] = Running]
    /\ UNCHANGED <<asks, stageVars, bagVars, endVars, answers>>

\* s.remember(typ, v): the instance already stored wins.  It stores whether or
\* not the stage has closed in the meantime.
Remember(g) ==
    /\ In(g, "scan")
    /\ ret[g].tag = "value"
    /\ LET t == Top(g).typ
           v == IF cache[t] # None THEN cache[t] ELSE ret[g].inst
       IN /\ cache' = [cache EXCEPT ![t] = v]
          /\ Return(g, Value(v))
          /\ Answer(None, t, v)
    /\ UNCHANGED <<asks, scopes, closed, bagVars, endVars>>

(***************************************************************************)
(* The bag's scope.                                                        *)
(***************************************************************************)

\* scope.resolveThrough: this scope first, then the rest of the composition.
Through(g) ==
    /\ In(g, "through")
    /\ LET f == Top(g) IN
       \/ /\ ret[g] = Running
          /\ Push(g, f, ResolveCall(f.scope, f.typ, f.path))
          /\ UNCHANGED ret
       \/ /\ ret[g].tag = "value"
          /\ Return(g, ret[g])
       \/ /\ ret[g] = Absent
          /\ Become(g, StageCall(f.typ, f.path))
          /\ ret' = [ret EXCEPT ![g] = Running]
    /\ UNCHANGED <<asks, stageVars, bagVars, endVars, answers>>

\* scope.resolve up to the entry: the registration decides.
Resolve(g) ==
    /\ In(g, "resolve")
    /\ ret[g] = Running
    /\ LET f == Top(g)
           s == f.scope
           t == f.typ
       IN
       \/ /\ t \notin DOMAIN Regs[s]
          /\ Return(g, Absent)
       \/ /\ t \in DOMAIN Regs[s]
          /\ t \in f.path                   \* CycleError
          /\ Return(g, Panic)
       \/ /\ t \in DOMAIN Regs[s] \ f.path
          /\ \/ /\ Reg(s, t).kind = "alias"
                /\ Become(g, ThroughCall(s, Reg(s, t).target, f.path \cup {t}))
                /\ UNCHANGED ret
             \/ /\ Reg(s, t).kind = "instance"
                /\ Return(g, Value([scope |-> s, typ |-> t, run |-> 0]))
             \/ /\ Reg(s, t).kind = "scoped"
                /\ Goto(g, "entry")
                /\ UNCHANGED ret
    /\ UNCHANGED <<asks, stageVars, bagVars, endVars, answers>>

\* scope.entryFor panics once the scope is closed.  The entry it creates is
\* unlocked and unbuilt, as every entry is from Init on here.
EntryFor(g) ==
    /\ In(g, "entry")
    /\ \/ /\ shut[Top(g).scope]
          /\ Return(g, Panic)
       \/ /\ ~shut[Top(g).scope]
          /\ Goto(g, "lock")
          /\ UNCHANGED ret
    /\ UNCHANGED <<asks, stageVars, bagVars, endVars, answers>>

\* e.once.Lock() gives a built value back at once ...
LockBuilt(g) ==
    /\ In(g, "lock")
    /\ LET s == Top(g).scope
           t == Top(g).typ
       IN /\ holder[s][t] = None
          /\ entry[s][t] # None
          /\ Return(g, Value(entry[s][t]))
          /\ Answer(s, t, entry[s][t])
    /\ UNCHANGED <<asks, stageVars, bagVars, endVars>>

\* ... and otherwise keeps the lock and enters the factory.
LockAndBuild(g) ==
    /\ In(g, "lock")
    /\ LET s == Top(g).scope
           t == Top(g).typ
       IN /\ holder[s][t] = None
          /\ entry[s][t] = None
          /\ holder' = [holder EXCEPT ![s][t] = g]
          /\ runs' = [runs EXCEPT ![s][t] = @ + 1]
          /\ Become(g, [Top(g) EXCEPT !.at = "build", !.todo = Reg(s, t).needs])
    /\ UNCHANGED <<ret, asks, stageVars, entry, closers, shut, endVars, answers>>

\* The factory resolves one more of its collaborators through its pathResolver.
FactoryAsks(g) ==
    /\ In(g, "build")
    /\ ret[g] = Running
    /\ LET f == Top(g) IN
       \E d \in f.todo :
          Push(g, [f EXCEPT !.todo = @ \ {d}],
               ThroughCall(f.scope, d, f.path \cup {f.typ}))
    /\ UNCHANGED <<ret, asks, stageVars, bagVars, endVars, answers>>

\* The collaborator is there, or it is absent and the factory either goes on
\* without (TryResolve) or panics (Resolve).
FactoryGets(g) ==
    /\ In(g, "build")
    /\ \/ ret[g].tag = "value" /\ ret' = [ret EXCEPT ![g] = Running]
       \/ ret[g] = Absent /\ ret' = [ret EXCEPT ![g] = Running]
       \/ ret[g] = Absent /\ ret' = [ret EXCEPT ![g] = Panic]
    /\ UNCHANGED <<stack, asks, stageVars, bagVars, endVars, answers>>

\* The factory returns; the value is recorded, its closer queued, the entry's
\* lock released.  Nothing here looks at scope.closed.
FactoryReturns(g) ==
    /\ In(g, "build")
    /\ ret[g] = Running
    /\ Top(g).todo = {}
    /\ LET s == Top(g).scope
           t == Top(g).typ
           v == [scope |-> s, typ |-> t, run |-> runs[s][t]]
       IN /\ entry' = [entry EXCEPT ![s][t] = v]
          /\ closers' = IF Reg(s, t).closer
                        THEN [closers EXCEPT ![s] = Append(@, v)]
                        ELSE closers
          /\ holder' = [holder EXCEPT ![s][t] = None]
          /\ Return(g, Value(v))
          /\ Answer(s, t, v)
    /\ UNCHANGED <<asks, stageVars, runs, shut, endVars>>

\* The factory itself panics, at any moment.
FactoryPanics(g) ==
    /\ In(g, "build")
    /\ ret[g] = Running
    /\ Reg(Top(g).scope, Top(g).typ).flaky
    /\ ret' = [ret EXCEPT ![g] = Panic]
    /\ UNCHANGED <<stack, asks, stageVars, bagVars, endVars, answers>>

\* A panic leaves one call; resolve's deferred Unlock runs on the way out.
Unwind(g) ==
    /\ stack[g] # <<>>
    /\ ret[g] = Panic
    /\ Return(g, Panic)
    /\ holder' = IF Top(g).at = "build"
                 THEN [holder EXCEPT ![Top(g).scope][Top(g).typ] = None]
                 ELSE holder
    /\ UNCHANGED <<asks, stageVars, entry, runs, closers, shut, endVars, answers>>

(***************************************************************************)
(* Stage.Close.                                                            *)
(***************************************************************************)

\* The critical section of Stage.Close; a second Close returns at once.
CloseStage ==
    /\ ~closed
    /\ closed' = TRUE
    /\ toClose' = scopes
    /\ scopes' = <<>>
    /\ cache' = [t \in Types |-> None]
    /\ UNCHANGED <<goVars, bagVars, batch, released, answers>>

\* scope.Close on the newest scope left: take the closers, refuse new entries.
CloseScope ==
    /\ batch = <<>>
    /\ toClose # <<>>
    /\ LET s == toClose[Len(toClose)] IN
       /\ batch' = closers[s]
       /\ closers' = [closers EXCEPT ![s] = <<>>]
       /\ shut' = [shut EXCEPT ![s] = TRUE]
    /\ toClose' = SubSeq(toClose, 1, Len(toClose) - 1)
    /\ UNCHANGED <<goVars, stageVars, holder, entry, runs, released, answers>>

\* One closer of that scope, newest first.
CloseInstance ==
    /\ batch # <<>>
    /\ released' = Append(released, batch[Len(batch)])
    /\ batch' = SubSeq(batch, 1, Len(batch) - 1)
    /\ UNCHANGED <<goVars, stageVars, bagVars, toClose, answers>>

-----------------------------------------------------------------------------
Advance(g) ==
    \/ Cached(g) \/ Snapshot(g) \/ Scan(g) \/ Remember(g)
    \/ Through(g) \/ Resolve(g) \/ EntryFor(g) \/ LockBuilt(g) \/ LockAndBuild(g)
    \/ FactoryAsks(g) \/ FactoryGets(g) \/ FactoryReturns(g) \/ FactoryPanics(g)
    \/ Unwind(g)

Close == CloseStage \/ CloseScope \/ CloseInstance

Idle == \A g \in Goroutines : stack[g] = <<>>

Ended == closed /\ toClose = <<>> /\ batch = <<>>

\* The test is over.
Finished ==
    /\ Idle
    /\ Ended
    /\ \A g \in Goroutines : asks[g] = MaxAsks
    /\ UNCHANGED vars

Next ==
    \/ \E g \in Goroutines : Advance(g) \/ (\E t \in Types : Ask(g, t))
    \/ Close
    \/ Finished

Spec == Init /\ [][Next]_vars

\* Every goroutine inside a call keeps running, and t.Cleanup runs Close to its
\* end once it has begun.  Nobody has to ask, nobody has to close.
Fairness ==
    /\ \A g \in Goroutines : WF_vars(Advance(g))
    /\ WF_vars(CloseScope \/ CloseInstance)

FairSpec == Spec /\ Fairness
-----------------------------------------------------------------------------
(***************************************************************************)
(* Properties.                                                             *)
(***************************************************************************)

\* The type invariant.
TypeOK ==
    /\ stack \in [Goroutines -> Seq(Frame)]
    /\ ret \in [Goroutines -> Results]
    /\ asks \in [Goroutines -> Nat]
    /\ cache \in [Types -> Instances \cup {None}]
    /\ scopes \in Seq(ScopeSet)
    /\ closed \in BOOLEAN
    /\ holder \in [ScopeSet -> [Types -> Goroutines \cup {None}]]
    /\ entry \in [ScopeSet -> [Types -> Instances \cup {None}]]
    /\ runs \in [ScopeSet -> [Types -> Nat]]
    /\ closers \in [ScopeSet -> Seq(Instances)]
    /\ shut \in [ScopeSet -> BOOLEAN]
    /\ toClose \in Seq(ScopeSet)
    /\ batch \in Seq(Instances)
    /\ released \in Seq(Instances)
    /\ answers \subseteq (ScopeSet \cup {None}) \X Types \X Instances

\* Call i of goroutine g is the factory of t in s, under the entry's lock.
Builds(g, i, s, t) ==
    /\ stack[g][i].at = "build"
    /\ stack[g][i].scope = s
    /\ stack[g][i].typ = t

\* Building is single-flight: however goroutines, nested factories and panics
\* interleave, at most one call anywhere is inside the factory of an entry, and
\* an entry somebody is building has no value yet (bag.go entry, resolve).
SingleFlight ==
    \A s \in ScopeSet, t \in Types, g, h \in Goroutines :
        \A i \in 1..Len(stack[g]), j \in 1..Len(stack[h]) :
            Builds(g, i, s, t) =>
                /\ entry[s][t] = None
                /\ Builds(h, j, s, t) => g = h /\ i = j

\* Once an entry has an instance it keeps that instance: no second build, no
\* panic and no Close replaces or forgets it while the scope lives.
InstanceKept ==
    [][\A s \in ScopeSet, t \in Types :
            entry[s][t] # None => entry'[s][t] = entry[s][t]]_vars

\* Everyone who is given an instance of t by the same party, the stage or one
\* scope, is given the same one: All's branches, nested factories, and callers
\* on either side of a Close that empties the cache (stage.go remember).  An alias
\* of a first container to a type of a second, which registers the alias too, is
\* beyond this: found absent by way of a stage that has closed, it is answered by
\* the second container.
Agreement ==
    \A a, b \in answers : a[1] = b[1] /\ a[2] = b[2] => a[3] = b[3]

\* The cycle check runs before the lock, and the path survives the hop through
\* the stage, so a goroutine never waits for an entry that it is itself
\* building, on any graph, cyclic or not (bag.go:168-170, 203-204).
NeverWaitsForItself ==
    \A g \in Goroutines :
        In(g, "lock") => holder[Top(g).scope][Top(g).typ] # g

\* An entry lock is held exactly while a call under it is in the factory: a
\* panic anywhere below releases every lock on its way out (resolve's defer).
LocksHeldByFactories ==
    \A s \in ScopeSet, t \in Types, g \in Goroutines :
        holder[s][t] = g <=> \E i \in 1..Len(stack[g]) : Builds(g, i, s, t)

Occurrences(v, seq) == Cardinality({i \in DOMAIN seq : seq[i] = v})

IsCloser(s, t) == t \in DOMAIN Regs[s] /\ Reg(s, t).closer

\* Every built io.Closer is in exactly one place: queued, taken by the Close in
\* progress, or closed.  So none is closed twice, whatever aliases it has, and
\* none is dropped; nothing that was never built is closed.
ClosedAtMostOnce ==
    \A s \in ScopeSet, t \in Types :
        LET v == entry[s][t] IN
        /\ v # None /\ IsCloser(s, t) =>
              Occurrences(v, released) + Occurrences(v, batch)
                  + Occurrences(v, closers[s]) = 1
        /\ \A i \in DOMAIN closers[s] : \E u \in Types : closers[s][i] = entry[s][u]

\* What a registration turns to without leaving its scope: a factory to what it
\* resolves, an alias to what it stands for.
TurnsTo(s, x) ==
    {y \in Types :
        /\ x \in DOMAIN Regs[s]
        /\ \/ Reg(s, x).kind = "scoped" /\ y \in Reg(s, x).needs
           \/ Reg(s, x).kind = "alias" /\ y = Reg(s, x).target}

\* Uses[s][x]: what the factory of x in s reaches so, the least set with what x
\* turns to and what any member turns to.
Uses ==
    [s \in ScopeSet |-> [x \in Types |->
        {y \in Types : \A S \in SUBSET Types :
            (\A u \in S \cup {x} : TurnsTo(s, u) \subseteq S) => y \in S}]]

\* An instance whose Close has not come, although its scope's Close has: it was
\* built after the scope took its closers.
Orphan(v) == shut[v.scope] /\ \E i \in DOMAIN closers[v.scope] : closers[v.scope][i] = v

\* Closing runs dependents first: when an instance is closed, everything in the
\* scope that was built over it is closed already.  Only an orphan of a Close
\* that raced its factory is left standing on a closed collaborator.
DependentsCloseFirst ==
    \A s \in ScopeSet, x, y \in Types :
        /\ IsCloser(s, x) /\ IsCloser(s, y) /\ y \in Uses[s][x]
        /\ entry[s][x] # None
        /\ Occurrences(entry[s][y], released) > 0
        => Occurrences(entry[s][x], released) > 0 \/ Orphan(entry[s][x])

\* Every resolution comes to an end, with a value, an absence or a panic, also
\* when the goroutines wait for each other's entries and while the stage closes.
\* On an acyclic composition only: bag.go:177-181 names the exception.
EveryResolveReturns ==
    \A g \in Goroutines : stack[g] # <<>> ~> stack[g] = <<>>

\* What the registry promises, whatever the interleaving.
Promise == INSTANCE Registry WITH
    Entries <- ScopeSet \X Types,
    Uses    <- {p \in (ScopeSet \X Types) \X (ScopeSet \X Types) :
                    /\ p[1][1] = p[2][1]
                    /\ p[2][2] \in Uses[p[1][1]][p[1][2]]},
    Shared  <- {v \in Instances : v.run = 0},
    owned   <- [e \in ScopeSet \X Types |-> entry[e[1]][e[2]]],
    handed  <- {<<a[2], a[3]>> : a \in {b \in answers : b[1] = None}},
    due     <- {<<batch[i].scope, batch[i].typ>> : i \in DOMAIN batch},
    freed   <- {<<released[i].scope, released[i].typ>> : i \in DOMAIN released}

\* The stage over its scopes implements the registry: its locks, cache, closer
\* lists and cycle checks never show.
ImplementsRegistry == Promise!Spec

-----------------------------------------------------------------------------
(* What the documentation says and a race breaks.                          *)

\* bag.go:67: "If the value implements io.Closer it is closed when the stage
\* ends."  Stated of a stage that has ended with nobody resolving any more.
ClosedWhenTheStageEnds ==
    Idle /\ Ended => \A s \in ScopeSet : closers[s] = <<>>
=============================================================================
