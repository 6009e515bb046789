------------------------------ MODULE Registry ------------------------------
(***************************************************************************)
(* What a stage promises about the services it hands out, with no word on  *)
(* how: one instance per registration, everybody told the same, and each   *)
(* io.Closer closed at most once, dependents before what they stand on     *)
(* (README.md, DESIGN.md, the docs of container/bag and Stage).            *)
(***************************************************************************)

CONSTANTS
    Entries,    \* the registrations
    Uses,       \* <<e, d>>: e's instance is built over d's
    Types,      \* what callers ask for
    Instances,  \* what may be handed out
    Shared,     \* the instances registered by value, owned by nobody here
    None

VARIABLES
    owned,      \* owned[e]: e's instance, None until it is built
    handed,     \* <<t, v>>: a caller asking for t was given v
    due,        \* registrations whose instance has its Close coming
    freed       \* registrations whose instance has been closed

regVars == <<owned, handed, due, freed>>

Init ==
    /\ owned = [e \in Entries |-> None]
    /\ handed = {}
    /\ due = {}
    /\ freed = {}

\* An instance comes into being, once and for all, and for one registration.
Create(e) ==
    /\ owned[e] = None
    /\ owned'[e] \in Instances \ Shared
    /\ \A d \in Entries : owned[d] # owned'[e]
    /\ owned' = [owned EXCEPT ![e] = owned'[e]]
    /\ UNCHANGED <<handed, due, freed>>

\* A caller asking for t is given an instance that exists, the one every earlier
\* caller asking for t was given.
Hand(t, v) ==
    /\ v \in Shared \/ \E e \in Entries : owned[e] = v
    /\ \A h \in handed : h[1] = t => h[2] = v
    /\ handed' = handed \cup {<<t, v>>}
    /\ UNCHANGED <<owned, due, freed>>

\* The end has come for some built instances that never met it before.
End(E) ==
    /\ \A e \in E : owned[e] # None
    /\ E \cap (due \cup freed) = {}
    /\ due' = due \cup E
    /\ UNCHANGED <<owned, handed, freed>>

\* One of them is closed: nothing that stands on it is still waiting.
Free(e) ==
    /\ e \in due
    /\ \A d \in due : <<d, e>> \notin Uses
    /\ due' = due \ {e}
    /\ freed' = freed \cup {e}
    /\ UNCHANGED <<owned, handed>>

Next ==
    \/ \E e \in Entries : Create(e) \/ Free(e)
    \/ \E h \in handed' : Hand(h[1], h[2])
    \/ \E E \in SUBSET Entries : End(E)

Spec == Init /\ [][Next]_regVars
=============================================================================
