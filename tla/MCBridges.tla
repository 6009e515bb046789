----------------------------- MODULE MCBridges -----------------------------
(* Small compositions for Bridges. *)
EXTENDS Bridges, TLC

Over(deps) == [needs |-> deps, bridge |-> FALSE, exposed |-> TRUE]
Inner(deps) == [Over(deps) EXCEPT !.exposed = FALSE]
BridgeTo(t) == [Over({t}) EXCEPT !.bridge = TRUE, !.exposed = FALSE]

\* The doubles live in a bag and the subjects in dig and do.  dig shares Log
\* between two of its constructors, has no constructor for what Torn needs, and a
\* bridge to Opt, which nobody has.
\* Ring asks for itself, which a bag reports.
MixedTypes == {"App", "Repo", "Svc", "Audit", "Log", "Torn", "Job", "Opt", "Ring", "Lost"}
MixedScopes == <<"doubles", "di", "jobs">>
MixedKind == "doubles" :> "bag" @@ "di" :> "dig" @@ "jobs" :> "do"
Mixed ==
    "doubles" :> ("Repo"  :> Over({"Opt"}) @@
                  "App"   :> Over({"Repo", "Torn"}) @@
                  "Ring"  :> Over({"Ring"})) @@
    "di"      :> ("Svc"   :> Over({"Repo", "Log"}) @@
                  "Audit" :> Over({"Log"}) @@
                  "Log"   :> Inner({}) @@
                  "Torn"  :> Over({"Ring"}) @@
                  "Lost"  :> Over({"Opt"}) @@
                  "Opt"   :> BridgeTo("Opt") @@
                  "Repo"  :> BridgeTo("Repo")) @@
    "jobs"    :> ("Job"   :> Over({"Svc", "Repo"}))

\* A cycle from a bag into dig and, over the bridge, back.
LoopTypes == {"Repo", "Svc"}
LoopScopes == <<"doubles", "di">>
LoopKind == "doubles" :> "bag" @@ "di" :> "dig"
Loop ==
    "doubles" :> ("Repo" :> Over({"Svc"})) @@
    "di"      :> ("Svc"  :> Over({"Repo"}) @@ "Repo" :> BridgeTo("Repo"))
=============================================================================
