--------------------------- MODULE MCResolution ---------------------------
(* Small compositions for Resolution. *)
EXTENDS Resolution, TLC

Base == [kind |-> "scoped", target |-> None, needs |-> {},
         closer |-> FALSE, flaky |-> FALSE]
Value1 == [Base EXCEPT !.kind = "instance"]
AliasOf(t) == [Base EXCEPT !.kind = "alias", !.target = t]
Service(deps) == [Base EXCEPT !.needs = deps]
Closing(deps) == [Base EXCEPT !.needs = deps, !.closer = TRUE]
Flaky(r) == [r EXCEPT !.flaky = TRUE]

\* Two bags.  The first has App, over the second's Repo by its interface and by
\* its type; Log is in both, and the stage hands out the first's while the second
\* gives Repo its own.  Nobody registers Opt.
TwoBags == <<"first", "second">>
LayeredTypes == {"App", "IRepo", "Repo", "Log", "Opt"}
Layered ==
    "first"  :> ("App"   :> Closing({"IRepo", "Opt"}) @@
                 "Log"   :> Value1) @@
    "second" :> ("IRepo" :> AliasOf("Repo") @@
                 "Repo"  :> Flaky(Closing({"Log"})) @@
                 "Log"   :> Closing({}))

\* A cycle from one bag into the other and back, through an alias.
CycleTypes == {"A", "IB", "B", "C"}
Cycle ==
    "first"  :> ("A"  :> Service({"IB", "C"}) @@
                 "C"  :> Closing({})) @@
    "second" :> ("IB" :> AliasOf("B") @@
                 "B"  :> Closing({"A"}))
=============================================================================
