------------------------------ MODULE Bridges ------------------------------
(***************************************************************************)
(* One stage over containers of several kinds: bag scopes and the scopes   *)
(* of the two DI adapters, mokkitdig and mokkitdo.  A DI scope offers no   *)
(* TryResolveTypePath, and its bridge back to the composition (Bridge,     *)
(* FromStage) asks the stage with no path at all.                          *)
(*                                                                         *)
(* Goroutines are call stacks, as in Resolution, which has the stage's and *)
(* the bag's critical sections one by one and the racing Close; here the   *)
(* stage stays open and a call's looks at the cache and at the scopes are  *)
(* one step.                                                               *)
(***************************************************************************)
EXTENDS Naturals, Sequences, FiniteSets

CONSTANTS
    Goroutines,     \* the test body and the branches of an All group
    Types,
    Scopes,         \* the composition: a sequence of distinct scope names
    Kind,           \* Kind[s]: "bag", "dig" or "do"
    Regs,           \* Regs[s]: the registrations of s, a partial function on Types
    None,
    MaxAsks         \* bound: resolutions one goroutine starts from outside

ScopeSet == {Scopes[i] : i \in 1..Len(Scopes)}

Instances == [scope : ScopeSet, typ : Types, run : Nat]

\* Exposed: reachable through TryResolveType (every bag type, Expose, Provide),
\* not internal to the DI container.  Bridge: registered by mokkitdig.Bridge.
Registration == [needs : SUBSET Types, bridge : BOOLEAN, exposed : BOOLEAN]

ASSUME BridgesAssumption ==
    /\ MaxAsks \in Nat
    /\ IsFiniteSet(Goroutines)
    /\ Scopes \in Seq(ScopeSet)
    /\ \A i, j \in 1..Len(Scopes) : Scopes[i] = Scopes[j] => i = j
    /\ Kind \in [ScopeSet -> {"bag", "dig", "do"}]
    /\ DOMAIN Regs = ScopeSet
    /\ \A s \in ScopeSet :
          /\ DOMAIN Regs[s] \subseteq Types
          /\ \A t \in DOMAIN Regs[s] :
                /\ Regs[s][t] \in Registration
                /\ Regs[s][t].bridge => Kind[s] = "dig" /\ Regs[s][t].needs = {t}
                /\ Kind[s] = "bag" => Regs[s][t].exposed
    /\ None \notin Instances \cup Goroutines

VARIABLES
    stack,      \* stack[g]: the calls goroutine g is inside, innermost last
    ret,        \* ret[g]: what the innermost call of g has just been handed
    asks,       \* asks[g]: resolutions g has started from outside
    cache,      \* Stage.cache
    holder,     \* holder[s][t]: who holds the lock of what is being built, if it has one
    value,      \* value[s][t]: the built value the scope keeps
    runs,       \* runs[s][t]: times the constructor has been entered
    answers,    \* history: <<who answered, type asked for, instance given>>
    crowded     \* history: the unlocked scopes two goroutines have been in at once

vars == <<stack, ret, asks, cache, holder, value, runs, answers, crowded>>

Call(where, s, t, p) ==
    [at |-> where, scope |-> s, typ |-> t, path |-> p, run |-> 0, todo |-> {}, rest |-> <<>>]

Running  == [tag |-> "running", inst |-> None]
Absent   == [tag |-> "absent",  inst |-> None]
Panic    == [tag |-> "panic",   inst |-> None]
Value(v) == [tag |-> "value",   inst |-> v]

Top(g)   == stack[g][Len(stack[g])]
Below(g) == SubSeq(stack[g], 1, Len(stack[g]) - 1)
In(g, where) == stack[g] # <<>> /\ Top(g).at = where

Become(g, f) == stack' = [stack EXCEPT ![g] = Append(Below(g), f)]
Push(g, f, callee) == stack' = [stack EXCEPT ![g] = Below(g) \o <<f, callee>>]
Return(g, r) ==
    /\ stack' = [stack EXCEPT ![g] = Below(g)]
    /\ ret' = [ret EXCEPT ![g] = r]
Answer(who, t, v) == answers' = answers \cup {<<who, t, v>>}

\* bag single-flights every entry and do every lazy service; dig has no locks.
Locks(s) == Kind[s] # "dig"
Exposes(s, t) == t \in DOMAIN Regs[s] /\ Regs[s][t].exposed

Init ==
    /\ stack = [g \in Goroutines |-> <<>>]
    /\ ret = [g \in Goroutines |-> Running]
    /\ asks = [g \in Goroutines |-> 0]
    /\ cache = [t \in Types |-> None]
    /\ holder = [s \in ScopeSet |-> [t \in Types |-> None]]
    /\ value = [s \in ScopeSet |-> [t \in Types |-> None]]
    /\ runs = [s \in ScopeSet |-> [t \in Types |-> 0]]
    /\ answers = {}
    /\ crowded = {}

-----------------------------------------------------------------------------
(***************************************************************************)
(* Plausible bugs, none of them in the code: a wrong version of an action  *)
(* below, for each property to be tried against.  Next uses none of them.  *)
(***************************************************************************)

\* TryResolveType makes its dig container or injector anew instead of keeping
\* the stage's: nothing built is there the next time.
BugContainerPerCall(g) ==
    /\ In(g, "build")
    /\ ret[g] = Running
    /\ Top(g).todo = {}
    /\ LET s == Top(g).scope
           t == Top(g).typ
           v == [scope |-> s, typ |-> t, run |-> Top(g).run]
       IN /\ holder' = [holder EXCEPT ![s][t] = None]
          /\ Return(g, Value(v))
          /\ Answer(s, t, v)
    /\ UNCHANGED <<asks, cache, value, runs>>

\* The entry's lock is given back on the ordinary way out only.
BugUnlockNotDeferred(g) ==
    /\ stack[g] # <<>>
    /\ ret[g] = Panic
    /\ Return(g, Panic)
    /\ UNCHANGED <<asks, cache, holder, value, runs, answers>>

-----------------------------------------------------------------------------
\* A step asks its Host for t.
Ask(g, t) ==
    /\ stack[g] = <<>>
    /\ asks[g] < MaxAsks
    /\ asks' = [asks EXCEPT ![g] = @ + 1]
    /\ stack' = [stack EXCEPT ![g] = <<Call("stage", None, t, {})>>]
    /\ ret' = [ret EXCEPT ![g] = Running]
    /\ UNCHANGED <<cache, holder, value, runs, answers>>

\* Stage.TryResolveTypePath: the cache, or else the scopes.
StageLooks(g) ==
    /\ In(g, "stage")
    /\ LET t == Top(g).typ IN
       \/ /\ cache[t] # None
          /\ Return(g, Value(cache[t]))
          /\ Answer(None, t, cache[t])
       \/ /\ cache[t] = None
          /\ Become(g, [Top(g) EXCEPT !.at = "scan", !.rest = Scopes])
          /\ UNCHANGED <<ret, answers>>
    /\ UNCHANGED <<asks, cache, holder, value, runs>>

\* The stage's resolveThrough: only a PathResolver is told the path.
Scan(g) ==
    /\ In(g, "scan")
    /\ ret[g] \in {Running, Absent}
    /\ LET f == Top(g) IN
       \/ /\ f.rest = <<>>
          /\ Return(g, Absent)
       \/ /\ f.rest # <<>>
          /\ LET s == Head(f.rest)
                 p == IF Kind[s] = "bag" THEN f.path ELSE {}
             IN Push(g, [f EXCEPT !.rest = Tail(@)], Call("resolve", s, f.typ, p))
          /\ ret' = [ret EXCEPT ![g] = Running]
    /\ UNCHANGED <<asks, cache, holder, value, runs, answers>>

\* Stage.remember: the instance already stored wins.
Remember(g) ==
    /\ In(g, "scan")
    /\ ret[g].tag = "value"
    /\ LET t == Top(g).typ
           v == IF cache[t] # None THEN cache[t] ELSE ret[g].inst
       IN /\ cache' = [cache EXCEPT ![t] = v]
          /\ Return(g, Value(v))
          /\ Answer(None, t, v)
    /\ UNCHANGED <<asks, holder, value, runs>>

\* A bag's scope: what is not registered is absent, what the path names already
\* is a cycle, and anything else is built if need be.
BagResolves(g) ==
    /\ In(g, "resolve")
    /\ LET f == Top(g) IN
       /\ Kind[f.scope] = "bag"
       /\ \/ /\ f.typ \notin DOMAIN Regs[f.scope]
             /\ Return(g, Absent)
          \/ /\ f.typ \in DOMAIN Regs[f.scope] \cap f.path
             /\ Return(g, Panic)
          \/ /\ f.typ \in DOMAIN Regs[f.scope] \ f.path
             /\ Become(g, [f EXCEPT !.at = "lock"])
             /\ UNCHANGED ret
    /\ UNCHANGED <<asks, cache, holder, value, runs, answers>>

\* A DI adapter's scope: what is not exposed is absent, and there is no path.
AdapterResolves(g) ==
    /\ In(g, "resolve")
    /\ LET f == Top(g) IN
       /\ Kind[f.scope] # "bag"
       /\ \/ /\ ~Exposes(f.scope, f.typ)
             /\ Return(g, Absent)
          \/ /\ Exposes(f.scope, f.typ)
             /\ Become(g, [f EXCEPT !.at = "lock"])
             /\ UNCHANGED ret
    /\ UNCHANGED <<asks, cache, holder, value, runs, answers>>

\* What is built already is handed out ...
Built(g) ==
    /\ In(g, "lock")
    /\ LET s == Top(g).scope
           t == Top(g).typ
       IN /\ holder[s][t] = None
          /\ value[s][t] # None
          /\ Return(g, Value(value[s][t]))
          /\ Answer(s, t, value[s][t])
    /\ UNCHANGED <<asks, cache, holder, value, runs>>

\* ... and what is not is built, under its lock where there is one.
Build(g) ==
    /\ In(g, "lock")
    /\ LET s == Top(g).scope
           t == Top(g).typ
       IN /\ holder[s][t] = None
          /\ value[s][t] = None
          /\ holder' = IF Locks(s) THEN [holder EXCEPT ![s][t] = g] ELSE holder
          /\ runs' = [runs EXCEPT ![s][t] = @ + 1]
          /\ Become(g, [Top(g) EXCEPT !.at = "build", !.run = runs'[s][t],
                                      !.todo = Regs[s][t].needs])
    /\ UNCHANGED <<ret, asks, cache, value, answers>>

\* A bag's factory asks its pathResolver, with the path grown by its own type:
\* its scope first, and the stage when that has nothing.
BagAsks(g) ==
    /\ In(g, "build")
    /\ ret[g] = Running
    /\ LET f == Top(g)
           p == f.path \cup {f.typ}
       IN
       /\ Kind[f.scope] = "bag"
       /\ \E d \in f.todo :
             Push(g, [f EXCEPT !.todo = @ \ {d}],
                  IF Exposes(f.scope, d) THEN Call("resolve", f.scope, d, p)
                                         ELSE Call("stage", None, d, p))
    /\ UNCHANGED <<ret, asks, cache, holder, value, runs, answers>>

\* A DI constructor's collaborator that its own container has is built there.
InnerAsks(g) ==
    /\ In(g, "build")
    /\ ret[g] = Running
    /\ LET f == Top(g) IN
       /\ Kind[f.scope] # "bag"
       /\ ~Regs[f.scope][f.typ].bridge
       /\ \E d \in f.todo \cap DOMAIN Regs[f.scope] :
             Push(g, [f EXCEPT !.todo = @ \ {d}], Call("lock", f.scope, d, {}))
    /\ UNCHANGED <<ret, asks, cache, holder, value, runs, answers>>

\* Bridge's constructor, or FromStage in a do provider: the stage is asked,
\* through TryResolveType, by a caller it cannot know to be building anything.
BridgeAsks(g) ==
    /\ In(g, "build")
    /\ ret[g] = Running
    /\ LET f == Top(g) IN
       /\ Kind[f.scope] # "bag"
       /\ \E d \in f.todo :
             /\ \/ Regs[f.scope][f.typ].bridge
                \/ Kind[f.scope] = "do" /\ d \notin DOMAIN Regs[f.scope]
             /\ Push(g, [f EXCEPT !.todo = @ \ {d}], Call("stage", None, d, {}))
    /\ UNCHANGED <<ret, asks, cache, holder, value, runs, answers>>

\* dig has no constructor for a collaborator: Invoke's error, with which
\* TryResolveType panics.
Unbuildable(g) ==
    /\ In(g, "build")
    /\ ret[g] = Running
    /\ LET f == Top(g) IN
       /\ Kind[f.scope] = "dig"
       /\ ~(f.todo \subseteq DOMAIN Regs[f.scope])
    /\ ret' = [ret EXCEPT ![g] = Panic]
    /\ UNCHANGED <<stack, asks, cache, holder, value, runs, answers>>

\* The collaborator is there, or absent: then Resolve panics, which is what the
\* bridges use, while a bag's factory may have used TryResolve.
Gets(g) ==
    /\ In(g, "build")
    /\ LET f == Top(g) IN
       \/ /\ ret[g].tag = "value"
          /\ ~Regs[f.scope][f.typ].bridge
          /\ ret' = [ret EXCEPT ![g] = Running]
       \/ /\ ret[g] = Absent
          /\ Kind[f.scope] = "bag"
          /\ ret' = [ret EXCEPT ![g] = Running]
       \/ /\ ret[g] = Absent
          /\ ret' = [ret EXCEPT ![g] = Panic]
    /\ UNCHANGED <<stack, asks, cache, holder, value, runs, answers>>

\* A constructor returns what it has made, which the scope keeps.
Returns(g) ==
    /\ In(g, "build")
    /\ ret[g] = Running
    /\ Top(g).todo = {}
    /\ LET s == Top(g).scope
           t == Top(g).typ
           v == [scope |-> s, typ |-> t, run |-> Top(g).run]
       IN /\ value' = [value EXCEPT ![s][t] = v]
          /\ holder' = [holder EXCEPT ![s][t] = None]
          /\ Return(g, Value(v))
          /\ Answer(s, t, v)
    /\ UNCHANGED <<asks, cache, runs>>

\* A bridge returns the very instance the stage gave it.
BridgeReturns(g) ==
    /\ In(g, "build")
    /\ ret[g].tag = "value"
    /\ LET s == Top(g).scope
           t == Top(g).typ
           v == ret[g].inst
       IN /\ Regs[s][t].bridge
          /\ value' = [value EXCEPT ![s][t] = v]
          /\ Return(g, Value(v))
          /\ Answer(s, t, v)
    /\ UNCHANGED <<asks, cache, holder, runs>>

\* A panic leaves one call, and the lock that call holds.
Unwind(g) ==
    /\ stack[g] # <<>>
    /\ ret[g] = Panic
    /\ Return(g, Panic)
    /\ holder' = IF In(g, "build")
                 THEN [holder EXCEPT ![Top(g).scope][Top(g).typ] = None]
                 ELSE holder
    /\ UNCHANGED <<asks, cache, value, runs, answers>>

-----------------------------------------------------------------------------
Advance(g) ==
    \/ StageLooks(g) \/ Scan(g) \/ Remember(g)
    \/ BagResolves(g) \/ AdapterResolves(g) \/ Built(g) \/ Build(g)
    \/ BagAsks(g) \/ InnerAsks(g) \/ BridgeAsks(g) \/ Unbuildable(g)
    \/ Gets(g) \/ Returns(g) \/ BridgeReturns(g) \/ Unwind(g)

Unlocked == {s \in ScopeSet : ~Locks(s)}

\* The goroutines inside scope s.
Inside(s) == {g \in Goroutines : \E i \in 1..Len(stack[g]) : stack[g][i].scope = s}

Finished ==
    /\ \A g \in Goroutines : stack[g] = <<>> /\ asks[g] = MaxAsks
    /\ UNCHANGED vars

Meet == crowded' = crowded \cup {s \in Unlocked : Cardinality(Inside(s)') > 1}

Working(g) == Advance(g) /\ Meet

Next ==
    \/ \E g \in Goroutines : Working(g)
    \/ \E g \in Goroutines, t \in Types : Ask(g, t) /\ Meet
    \/ Finished

\* A goroutine inside a call keeps running; nobody has to ask.
Spec == Init /\ [][Next]_vars /\ \A g \in Goroutines : WF_vars(Working(g))

-----------------------------------------------------------------------------
(* Properties.                                                             *)

Providers(t) == {s \in ScopeSet : t \in DOMAIN Regs[s] /\ ~Regs[s][t].bridge}

\* The subject is assembled over the doubles the test arranges: a type that one
\* container provides is one instance to the stage, to every factory, to every
\* bridge and to the DI container that shares it between its constructors.  Where
\* two goroutines meet in a dig container, which nothing locks, what dig builds
\* itself may be doubled; what reaches it over a bridge is not.
OneInstance ==
    \A a, b \in answers : \A s \in ScopeSet :
        /\ a[2] = b[2] /\ Providers(a[2]) = {s}
        /\ Locks(s) \/ s \notin crowded
        => a[3] = b[3]

\* Every resolution comes back, with a value, an absence or a panic, also after
\* one that panicked with locks held, in every composition whose cycles stay
\* within its bags.
EveryResolveReturns ==
    \A g \in Goroutines : stack[g] # <<>> ~> stack[g] = <<>>

-----------------------------------------------------------------------------
(* What the documentation says and the DI adapters break.                  *)

\* bag.go:168-170: "a cycle that crosses into another container is reported
\* rather than deadlocking on a lock this scope holds".
CrossingCycleIsReported ==
    \A g \in Goroutines :
        In(g, "lock") => holder[Top(g).scope][Top(g).typ] # g
=============================================================================
