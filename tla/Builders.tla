------------------------------ MODULE Builders ------------------------------
(***************************************************************************)
(* Writing a composition down: builders that collect registrations, the    *)
(* setups built from them, the stages entered from those.                  *)
(*                                                                         *)
(* The repository's builders are of three kinds.  A mock builder           *)
(* (mokkitgomock, mokkitmockery, mokkitminimock) files a mock under two    *)
(* types, a bag a service under one; a DI builder (mokkitdig, mokkitdo)    *)
(* has constructors filed under the type they are reached by, and others   *)
(* that stay internal.  What is registered is told apart by its types only;*)
(* what a bag or a DI scope makes of it is in Resolution and Bridges.      *)
(*                                                                         *)
(* Each operation takes place under its builder's lock, and may panic:     *)
(* where the caller recovers, the builder is used further.                 *)
(***************************************************************************)
EXTENDS Naturals, Sequences, FiniteSets, SequencesExt

CONSTANTS
    Builders,
    Types,          \* Go types
    Interfaces,     \* those that are interfaces
    Implements,     \* <<m, i>>: m implements i
    MaxAdds,        \* bound: registrations attempted
    MaxSetups,      \* bound: calls of NewSetup
    MaxStages       \* bound: stages entered

Kinds == {"mock", "bag", "di"}

ASSUME TypesAssumption ==
    /\ Interfaces \subseteq Types
    /\ Implements \subseteq Types \X Interfaces
    /\ \A i \in Interfaces : <<i, i>> \in Implements
ASSUME BuildersAssumption == IsFiniteSet(Builders)
ASSUME BoundsAssumption == MaxAdds \in Nat /\ MaxSetups \in Nat /\ MaxStages \in Nat

VARIABLES
    kind,       \* what each builder is
    adds,       \* registrations attempted
    regs,       \* what each builder has been given, in order
    seen,       \* the types it has taken: `seen', or the keys of its map
    built,      \* Builder.built
    calls,      \* calls of NewSetup
    todo,       \* the builders the NewSetup in progress has still to build
    parts,      \* the containers it has built
    setups,     \* the setups handed back, each with its containers
    stages      \* the stages entered, each with its scopes

builderVars == <<kind, adds, regs, seen, built>>
setupVars   == <<calls, todo, parts, setups>>
composeVars == <<kind, adds, regs, seen, built, calls, todo, parts, setups, stages>>

\* A registration is the types it is filed under, in the order they are taken.
Registration == Seq(Types)
Container == [of : Builders, regs : Seq(Registration)]

\* What a builder can be given, past the checks made before its lock is taken: a
\* mock must implement its interface, though it may be an interface too.
Registrable(k) ==
    CASE k = "mock" -> {<<p[2], p[1]>> : p \in Implements}
      [] k = "bag"  -> {<<t>> : t \in Types}
      [] k = "di"   -> {<<>>} \cup {<<t>> : t \in Types}

\* What a scope answers with: what registration `reg' made for that stage and
\* scope, or is still to make where `stage' is 0.
Item(stage, place, n) == [stage |-> stage, place |-> place, reg |-> n]

KeysOf(rs) == UNION {ToSet(rs[n]) : n \in DOMAIN rs}

\* The registration a key leads to where all are filed in order: the last one.
LastOf(rs, key) == CHOOSE n \in DOMAIN rs :
    key \in ToSet(rs[n]) /\ \A m \in DOMAIN rs : key \in ToSet(rs[m]) => m <= n

\* How many of a registration's types b takes: all, or those before one taken.
Takes(b, keys) == CHOOSE n \in 0..Len(keys) :
    /\ \A i \in 1..n : keys[i] \notin seen[b] \cup ToSet(SubSeq(keys, 1, i - 1))
    /\ n < Len(keys) => keys[n + 1] \in seen[b] \cup ToSet(SubSeq(keys, 1, n))

ComposeInit ==
    /\ kind \in [Builders -> Kinds]
    /\ adds = 0
    /\ regs = [b \in Builders |-> <<>>]
    /\ seen = [b \in Builders |-> {}]
    /\ built = [b \in Builders |-> FALSE]
    /\ calls = 0
    /\ todo = <<>>
    /\ parts = <<>>
    /\ setups = <<>>
    /\ stages = <<>>

-----------------------------------------------------------------------------
(***************************************************************************)
(* Plausible bugs, none of them in the code: see Resolution.               *)
(***************************************************************************)

\* A registration's first type is looked at, and the others taken unlooked.
BugFirstTypeChecked(b, keys) ==
    /\ adds < MaxAdds
    /\ ~built[b]
    /\ keys # <<>> => Head(keys) \notin seen[b]
    /\ adds' = adds + 1
    /\ seen' = [seen EXCEPT ![b] = @ \cup ToSet(keys)]
    /\ regs' = [regs EXCEPT ![b] = Append(@, keys)]
    /\ UNCHANGED <<kind, built, setupVars, stages>>

\* A registration that looks at both its types marks the last.
BugLastTypeMarked(b, keys) ==
    /\ adds < MaxAdds
    /\ ~built[b]
    /\ Takes(b, keys) = Len(keys)
    /\ adds' = adds + 1
    /\ seen' = [seen EXCEPT ![b] = IF keys = <<>> THEN @ ELSE @ \cup {Last(keys)}]
    /\ regs' = [regs EXCEPT ![b] = Append(@, keys)]
    /\ UNCHANGED <<kind, built, setupVars, stages>>

\* ensureOpen forgotten.
BugRegistersWhenBuilt(b, keys) ==
    /\ adds < MaxAdds
    /\ Takes(b, keys) = Len(keys)
    /\ adds' = adds + 1
    /\ seen' = [seen EXCEPT ![b] = @ \cup ToSet(keys)]
    /\ regs' = [regs EXCEPT ![b] = Append(@, keys)]
    /\ UNCHANGED <<kind, built, setupVars, stages>>

-----------------------------------------------------------------------------
\* Add, Provide, Expose, Install, Instance, Scoped, Alias: filed under its types.
Register(b, keys) ==
    /\ adds < MaxAdds
    /\ ~built[b]
    /\ Takes(b, keys) = Len(keys)
    /\ adds' = adds + 1
    /\ seen' = [seen EXCEPT ![b] = @ \cup ToSet(keys)]
    /\ regs' = [regs EXCEPT ![b] = Append(@, keys)]
    /\ UNCHANGED <<kind, built, setupVars, stages>>

\* It panics over a type that is taken.  The types before that one stay taken.
RegisterPanics(b, keys) ==
    /\ adds < MaxAdds
    /\ ~built[b]
    /\ Takes(b, keys) < Len(keys)
    /\ adds' = adds + 1
    /\ seen' = [seen EXCEPT ![b] = @ \cup ToSet(SubSeq(keys, 1, Takes(b, keys)))]
    /\ UNCHANGED <<kind, regs, built, setupVars, stages>>

\* NewSetup, called with some of the builders in some order.
NewSetup(order) ==
    /\ calls < MaxSetups
    /\ todo = <<>>
    /\ calls' = calls + 1
    /\ todo' = order
    /\ UNCHANGED <<builderVars, parts, setups, stages>>

\* The next builder's Build: closed to registrations, its container has a copy of
\* what it holds.  With the last one NewSetup returns.
Build ==
    /\ todo # <<>>
    /\ LET b == Head(todo)
           c == Append(parts, [of |-> b, regs |-> regs[b]])
       IN  /\ built' = [built EXCEPT ![b] = TRUE]
           /\ IF Len(todo) = 1
              THEN setups' = Append(setups, c) /\ parts' = <<>>
              ELSE parts' = c /\ UNCHANGED setups
    /\ todo' = Tail(todo)
    /\ UNCHANGED <<kind, adds, regs, seen, calls, stages>>

\* A builder from elsewhere, next in line, cannot be built: NewSetup returns the
\* error and drops the containers, whose builders stay built.
BuildFails ==
    /\ todo # <<>>
    /\ todo' = <<>>
    /\ parts' = <<>>
    /\ UNCHANGED <<builderVars, calls, setups, stages>>

\* A mock container's scope calls each constructor once and files its mock under
\* both types.  The others make nothing yet, but know which registration answers.
BeginScope(c, stage, place) ==
    LET made(n) == Item(IF kind[c.of] = "mock" THEN stage ELSE 0, place, n)
    IN  [items |-> [key \in KeysOf(c.regs) |-> made(LastOf(c.regs, key))],
         mocks |-> IF kind[c.of] = "mock" THEN [n \in DOMAIN c.regs |-> made(n)] ELSE <<>>]

\* EnterStage, where every scope opens: Lifecycle has those that do not.
EnterStage(s) ==
    /\ Len(stages) < MaxStages
    /\ stages' = Append(stages, [setup  |-> s,
                                 scopes |-> [p \in DOMAIN setups[s] |->
                                                BeginScope(setups[s][p], Len(stages) + 1, p)]])
    /\ UNCHANGED <<builderVars, setupVars>>

Compose ==
    \/ \E b \in Builders : \E keys \in Registrable(kind[b]) :
            Register(b, keys) \/ RegisterPanics(b, keys)
    \/ \E order \in UNION {[1..n -> Builders] : n \in 1..Cardinality(Builders)} :
            IsInjective(order) /\ NewSetup(order)
    \/ Build
    \/ BuildFails
    \/ \E s \in DOMAIN setups : EnterStage(s)

-----------------------------------------------------------------------------
ComposeTypeOK ==
    /\ kind \in [Builders -> Kinds]
    /\ adds \in 0..MaxAdds
    /\ regs \in [Builders -> Seq(Registration)]
    /\ seen \in [Builders -> SUBSET Types]
    /\ \A b \in Builders : KeysOf(regs[b]) \subseteq seen[b]
    /\ built \in [Builders -> BOOLEAN]
    /\ calls \in 0..MaxSetups
    /\ todo \in Seq(Builders)
    /\ parts \in Seq(Container)
    /\ setups \in Seq(Seq(Container))
    /\ \A n \in DOMAIN stages :
          /\ stages[n].setup \in DOMAIN setups
          /\ Len(stages[n].scopes) = Len(setups[stages[n].setup])

\* A type leads to the registration that took it, whatever was tried afterwards.
\* "Both resolve to one instance per stage": a mock's two types lead to one mock,
\* no other registration's and no other stage's (mokkitgomock.go:3-5,
\* mokkitmockery.go:4-6, mokkitminimock.go:3-5).
OneInstancePerRegistration ==
    \A a, b \in DOMAIN stages : \A p \in DOMAIN stages[a].scopes, q \in DOMAIN stages[b].scopes :
        LET x == stages[a].scopes[p]
            y == stages[b].scopes[q]
            rx == setups[stages[a].setup][p].regs
            ry == setups[stages[b].setup][q].regs
        IN  \A m \in DOMAIN rx : \A j \in ToSet(rx[m]) :
                /\ x.items[j].reg = m
                /\ x.mocks # <<>> /\ y.mocks # <<>> =>
                      \A n \in DOMAIN ry : \A k \in ToSet(ry[n]) :
                          x.items[j] = y.items[k] <=> (a = b /\ p = q /\ m = n)

\* A setup is a composition built once: whatever is attempted on its builders
\* afterwards, another NewSetup with them included, however far the first got,
\* composes the same (stage.go:13, bag.go:119, mokkitdig.go:107).
OneComposition ==
    \A b \in Builders : built[b] =>
        \A s \in DOMAIN setups : \A p \in DOMAIN setups[s] :
            setups[s][p].of = b => setups[s][p].regs = regs[b]
=============================================================================
