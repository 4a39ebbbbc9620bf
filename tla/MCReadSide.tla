------------------------------- MODULE MCReadSide -------------------------------
(* What is read, judged and shown, each on its own: two bootstraps of two        *)
(* versions of the registry under a capture, and one of them under an audit;     *)
(* two evaluations of one anchor; the poller and the panels of the dashboard.    *)
EXTENDS RegistrySync, ReputationStore, Dashboard, TLC

VARIABLE part

vars == <<registryVars, scoreVars, dashboardVars, part>>

\* The second version drops a corridor, reviews the other again, and gives it to
\* the anchor that had the first.
MCRegistries ==
  {[corridors |-> {[slug |-> "c1", version |-> 1], [slug |-> "c2", version |-> 1]},
    links |-> {<<"a1", "c1">>, <<"a2", "c2">>}],
   [corridors |-> {[slug |-> "c2", version |-> 2]}, links |-> {<<"a1", "c2">>}]}

MCSymmetry == Permutations(Jobs) \cup Permutations(Evaluations)

Init ==
  /\ part \in {"bootstraps", "audit", "reputation", "poller", "panels"}
  /\ RegistryInit /\ ReputationInit /\ DashboardInit
  /\ part \notin {"bootstraps", "audit"} => tables.anchors = {}
  /\ part # "reputation" => facts.status = "LIVE"
  /\ part # "poller" => visible

Next ==
  /\ UNCHANGED part
  /\ \/ /\ part = "bootstraps" /\ RegistryNext
        /\ audit'.pc = "idle" /\ now' = 0
        /\ UNCHANGED <<scoreVars, dashboardVars>>
     \/ /\ part = "audit" /\ RegistryNext
        /\ Cardinality({j \in Jobs : jobs'[j].pc # "idle"}) <= 1
        /\ UNCHANGED <<scoreVars, dashboardVars>>
     \/ part = "reputation" /\ ReputationNext /\ UNCHANGED <<registryVars, dashboardVars>>
     \/ /\ UNCHANGED <<registryVars, scoreVars>>
        /\ \/ part = "poller" /\ PollerNext
           \/ part = "panels" /\ PanelNext

Spec == Init /\ [][Next]_vars
===============================================================================
