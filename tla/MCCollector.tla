---- MODULE MCCollector ----
(***************************************************************************)
(* Two namespaces of users and kube-system, with a few objects of each     *)
(* kind; pods come in a good and a bad variant, so that a change may       *)
(* repair or break one.  The kubelet sorts the statuses of a pod by name.  *)
(***************************************************************************)
EXTENDS Collector

GoodContainer(name) ==
    [name |-> name, privileged |-> FALSE, nonRoot |-> TRUE, readOnly |-> TRUE,
     escalation |-> FALSE, caps |-> {}, requests |-> TRUE, limits |-> TRUE,
     secretEnv |-> FALSE]
BadContainer(name) ==
    [name |-> name, privileged |-> TRUE, nonRoot |-> FALSE, readOnly |-> FALSE,
     escalation |-> TRUE, caps |-> {"NET_ADMIN"}, requests |-> FALSE, limits |-> FALSE,
     secretEnv |-> TRUE]

Status(name, waiting, restarts) == [name |-> name, waiting |-> waiting, restarts |-> restarts]

\* In its spec the sidecar "b" comes before "a".
Good == [name |-> "web", namespace |-> "app", phase |-> "Running", qos |-> "Burstable",
         host |-> {}, containers |-> <<GoodContainer("b"), GoodContainer("a")>>,
         statuses |-> <<Status("a", "", 0), Status("b", "", 2)>>]
Crashing == [Good EXCEPT !.statuses = <<Status("a", "CrashLoopBackOff", 6), Status("b", "", 0)>>]
Bad == [name |-> "cart", namespace |-> "shop", phase |-> "Pending", qos |-> "BestEffort",
        host |-> {"network", "pid", "ipc"}, containers |-> <<BadContainer("c")>>,
        statuses |-> <<>>]
Second == [Good EXCEPT !.name = "web-2", !.containers = <<BadContainer("c")>>,
                       !.statuses = <<Status("c", "ErrImagePull", 0)>>]
System == [Bad EXCEPT !.name = "proxy", !.namespace = "kube-system"]

Deployment(name, ns, replicas, ready) ==
    [name |-> name, namespace |-> ns, replicas |-> replicas, ready |-> ready]

In(name, ns) == [name |-> name, namespace |-> ns]
Account(name, ns) == [name |-> name, namespace |-> ns, automount |-> TRUE]

MCObjects ==
    [nodes |-> {[name |-> "n1", pressures |-> {}, ready |-> TRUE, cordoned |-> FALSE],
                [name |-> "n1", pressures |-> {"memory", "disk", "pid"}, ready |-> FALSE,
                 cordoned |-> TRUE]},
     pods |-> {Good, Crashing, Bad, Second, System},
     deployments |-> {Deployment("web", "app", 1, 1), Deployment("cart", "shop", 2, 1)},
     netpols |-> {In("deny-app", "app"), In("deny-shop", "shop")},
     clusterRoles |-> {[name |-> "all", wildcard |-> TRUE]},
     clusterRoleBindings |-> {[name |-> "ops", role |-> "cluster-admin",
                               subjects |-> {In("ops", "app"), In("boot", "kube-system")}]},
     roles |-> {In("reader", "app")},
     roleBindings |-> {In("read", "app")},
     serviceAccounts |-> {Account("default", "app"), Account("ci", "shop")},
     namespaces |-> {[name |-> "app"], [name |-> "shop"]}]

\* Everything but the second variants, and everything but the pods and policies.
MCInitialClusters ==
    {[MCObjects EXCEPT !.nodes = {n \in @ : n.ready}, !.pods = {Good, Bad, Second, System}],
     [MCObjects EXCEPT !.nodes = {n \in @ : ~n.ready}, !.pods = {Crashing},
                       !.netpols = {In("deny-app", "app")}],
     [MCObjects EXCEPT !.nodes = {}, !.pods = {Good, Bad, Second}, !.netpols = {}]}

MCRequests == {<<>>, <<"app">>, <<"shop">>, <<"app", "shop">>, <<"app", "kube-system">>}

Event(type, reason, count, last, time) ==
    [type |-> type, reason |-> reason, count |-> count, lastTimestamp |-> last,
     eventTime |-> time,
     object |-> [kind |-> "Pod", name |-> "web", namespace |-> "app"]]

\* The fourth is of events.k8s.io: no last timestamp, and no count.
MCEvents ==
    {Event("Warning", "OOMKilled", 4, "recent", "zero"),
     Event("Warning", "BackOff", 9, "old", "zero"),
     Event("Normal", "Pulled", 9, "recent", "zero"),
     Event("Warning", "FailedMount", 0, "zero", "recent")}

MCMetrics == [n \in {"n1"} |-> [cpu |-> 90, memory |-> 80, disk |-> 86]]
====
