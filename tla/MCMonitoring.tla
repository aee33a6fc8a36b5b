---- MODULE MCMonitoring ----
(***************************************************************************)
(* Two callers ask for analyses of the cluster that is monitored, each of  *)
(* a kind of its own; there is room for a monitoring and its successor,    *)
(* for their analyses, and for two analyses of the callers.                *)
(***************************************************************************)
EXTENDS Monitoring, TLC

CONSTANTS c1, p1, p2, full, security

Analysis(kind) == <<"k8s-analysis", c1, kind>>

MCRequests == (p1 :> {Analysis(full)}) @@ (p2 :> {Analysis(security)})

MCConfigs == {<<c1, full>>}

MCPool == ("k8s-monitoring" :> {1, 2}) @@ ("analysis" :> {3, 4}) @@ ("k8s-analysis" :> {5, 6})
====
