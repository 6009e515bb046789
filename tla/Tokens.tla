------------------------------- MODULE Tokens -------------------------------
(***************************************************************************)
(* The registry of one test's artifacts (token.go): New hands a producing  *)
(* verb the sink of a role, Of and Ref read it back, Declared asks for it. *)
(* Calls come from the test's goroutine and from the branches of an All,   *)
(* and are ordered by the registry's mutex; the write through New's sink   *)
(* is not.                                                                 *)
(***************************************************************************)
EXTENDS Naturals, FiniteSets

CONSTANTS
    Runners,    \* goroutines calling the registry
    Roles,      \* the token types
    None,       \* no goroutine, no role, no sink
    MaxCalls    \* bound: calls a runner makes

ASSUME BoundsAssumption == MaxCalls \in Nat
ASSUME NoneAssumption == None \notin Runners \cup Roles

Calls == {"New", "Of", "Ref", "Declared"}

\* new(A) at a runner's n-th call: a pointer nobody else has.
Sinks == Runners \X (1..MaxCalls)

VARIABLES
    mu,         \* who holds Tokens.mu
    slots,      \* Tokens.slots: the roles filed, each with its sink
    filled,     \* the sinks something has been stored in
    pc,         \* where a runner is
    call,       \* what it calls, and for which role
    calls,      \* how many calls it has made
    sink,       \* what New gave the verb that is producing
    handed,     \* history: the sinks New, Of and Ref answered with, by role
    stored      \* history: the roles some verb has finished producing

vars == <<mu, slots, filled, pc, call, calls, sink, handed, stored>>
historyVars == <<handed, stored>>

Init ==
    /\ mu = None
    /\ slots = [k \in {} |-> None]
    /\ filled = {}
    /\ pc = [r \in Runners |-> "idle"]
    /\ call = [r \in Runners |-> [name |-> "New", role |-> None]]
    /\ calls = [r \in Runners |-> 0]
    /\ sink = [r \in Runners |-> None]
    /\ handed = [k \in Roles |-> {}]
    /\ stored = {}

Filed(k) == k \in DOMAIN slots
File(k, s) == slots' = [j \in DOMAIN slots \cup {k} |-> IF j = k THEN s ELSE slots[j]]
Hand(k, s) == handed' = [handed EXCEPT ![k] = @ \cup {s}]
Holds(r, name) == pc[r] = "in" /\ mu = r /\ call[r].name = name
Goto(r, place) == pc' = [pc EXCEPT ![r] = place]

-----------------------------------------------------------------------------
(***************************************************************************)
(* Plausible bugs, none of them in the code: see Resolution.               *)
(***************************************************************************)

\* New makes a sink on every use.
BugNewReplaces(r) ==
    /\ Holds(r, "New")
    /\ LET k == call[r].role
           s == <<r, calls[r]>>
       IN  /\ File(k, s)
           /\ sink' = [sink EXCEPT ![r] = s]
           /\ Hand(k, s)
    /\ mu' = None
    /\ Goto(r, "producing")
    /\ UNCHANGED <<filled, call, calls, stored>>

\* Of unlocks where it returns: a Fatalf goes past it.
BugUnlockNotDeferred(r) ==
    /\ Holds(r, "Of") \/ Holds(r, "Ref")
    /\ ~Filed(call[r].role)
    /\ Goto(r, "gone")
    /\ UNCHANGED <<mu, slots, filled, call, calls, sink, historyVars>>

\* The role is not what New files its sink under.
BugWrongKey(r) ==
    /\ Holds(r, "New")
    /\ File(None, <<r, calls[r]>>)
    /\ sink' = [sink EXCEPT ![r] = <<r, calls[r]>>]
    /\ Hand(call[r].role, <<r, calls[r]>>)
    /\ mu' = None
    /\ Goto(r, "producing")
    /\ UNCHANGED <<filled, call, calls, stored>>

-----------------------------------------------------------------------------
\* A verb, an assertion or an argument calls the registry, and waits for mu.
CallFor(r, name, k) ==
    /\ pc[r] = "idle"
    /\ calls[r] < MaxCalls
    /\ calls' = [calls EXCEPT ![r] = @ + 1]
    /\ call' = [call EXCEPT ![r] = [name |-> name, role |-> k]]
    /\ Goto(r, "waiting")
    /\ UNCHANGED <<mu, slots, filled, sink, historyVars>>

Lock(r) ==
    /\ pc[r] = "waiting"
    /\ mu = None
    /\ mu' = r
    /\ Goto(r, "in")
    /\ UNCHANGED <<slots, filled, call, calls, sink, historyVars>>

\* New: the role's sink, made on first use.
New(r) ==
    /\ Holds(r, "New")
    /\ LET k == call[r].role
           s == IF Filed(k) THEN slots[k] ELSE <<r, calls[r]>>
       IN  /\ File(k, s)
           /\ sink' = [sink EXCEPT ![r] = s]
           /\ Hand(k, s)
    /\ mu' = None
    /\ Goto(r, "producing")
    /\ UNCHANGED <<filled, call, calls, stored>>

\* Of and Ref on a role that is filed: the value in its sink, or the sink.
Read(r) ==
    /\ Holds(r, "Of") \/ Holds(r, "Ref")
    /\ LET k == call[r].role
       IN  /\ Filed(k)
           /\ Hand(k, slots[k])
    /\ mu' = None
    /\ Goto(r, "idle")
    /\ UNCHANGED <<slots, filled, call, calls, sink, stored>>

\* Of and Ref on a role nobody filed: Fatalf ends the goroutine, under the lock,
\* which the deferred Unlock gives back.  A fake TB's returns, and the call comes
\* back with a zero value or nil.
NothingArranged(r) ==
    /\ Holds(r, "Of") \/ Holds(r, "Ref")
    /\ ~Filed(call[r].role)
    /\ mu' = None
    /\ Goto(r, "gone") \/ Goto(r, "idle")
    /\ UNCHANGED <<slots, filled, call, calls, sink, historyVars>>

Declared(r) ==
    /\ Holds(r, "Declared")
    /\ mu' = None
    /\ Goto(r, "idle")
    /\ UNCHANGED <<slots, filled, call, calls, sink, historyVars>>

\* *a.New[K]() = v: the store, after whatever v took to compute and not under mu.
Store(r) ==
    /\ pc[r] = "producing"
    /\ filled' = filled \cup {sink[r]}
    /\ stored' = stored \cup {call[r].role}
    /\ sink' = [sink EXCEPT ![r] = None]
    /\ Goto(r, "idle")
    /\ UNCHANGED <<mu, slots, call, calls, handed>>

\* Computing v failed: the verb's step ends without a store, the role stays filed.
ProducerFails(r) ==
    /\ pc[r] = "producing"
    /\ sink' = [sink EXCEPT ![r] = None]
    /\ Goto(r, "idle") \/ Goto(r, "gone")
    /\ UNCHANGED <<mu, slots, filled, call, calls, historyVars>>

-----------------------------------------------------------------------------
Runs(r) ==
    \/ Lock(r) \/ New(r) \/ Read(r) \/ NothingArranged(r) \/ Declared(r)
    \/ Store(r) \/ ProducerFails(r)

Over ==
    /\ \A r \in Runners : pc[r] = "gone" \/ (pc[r] = "idle" /\ calls[r] = MaxCalls)
    /\ UNCHANGED vars

Next ==
    \/ \E r \in Runners, name \in Calls, k \in Roles : CallFor(r, name, k)
    \/ \E r \in Runners : Runs(r)
    \/ Over

Spec == Init /\ [][Next]_vars

\* sync.Mutex starves nobody that waits for it, and a call that has it, or a
\* verb that has its sink, runs to its end.
Fairness == \A r \in Runners : SF_vars(Lock(r)) /\ WF_vars(Runs(r))

FairSpec == Spec /\ Fairness

-----------------------------------------------------------------------------
TypeOK ==
    /\ mu \in Runners \cup {None}
    /\ DOMAIN slots \subseteq Roles
    /\ \A k \in DOMAIN slots : slots[k] \in Sinks
    /\ filled \subseteq Sinks
    /\ pc \in [Runners -> {"idle", "waiting", "in", "producing", "gone"}]
    /\ call \in [Runners -> [name : Calls, role : Roles \cup {None}]]
    /\ calls \in [Runners -> 0..MaxCalls]
    /\ sink \in [Runners -> Sinks \cup {None}]
    /\ handed \in [Roles -> SUBSET Sinks]
    /\ stored \subseteq Roles

\* Whoever produces a role and whoever reads it, on whichever goroutine, work on
\* one sink, and no two roles share one (token.go:50-60, 85-91, 107-112).
OneSinkPerRole ==
    /\ \A k \in Roles : Cardinality(handed[k]) <= 1
    /\ \A k, l \in Roles : k # l => handed[k] \cap handed[l] = {}

\* What a verb has stored stays to be read: the sink filed under a role some verb
\* has produced is one with a value in it, whatever was called since.
ProducedIsReadable ==
    \A k \in stored : Filed(k) /\ slots[k] \in filled

\* A lookup that fails the test under the lock leaves it to the others: every
\* call that waits for mu gets it (token.go:82-90, 104-112).
EveryCallGetsIn ==
    \A r \in Runners : pc[r] = "waiting" ~> pc[r] # "waiting"
=============================================================================
