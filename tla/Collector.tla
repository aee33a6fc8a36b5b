---- MODULE Collector ----
(***************************************************************************)
(* Client.CollectClusterState of internal/k8s/client.go, and the findings  *)
(* that the analyzers of internal/analyzer make of what it returns.        *)
(*                                                                         *)
(* A collection is ten List calls, one after the other; between two of     *)
(* them the cluster changes.  What is returned is therefore no snapshot:   *)
(* it need not be the state of the cluster at any one moment.              *)
(*                                                                         *)
(* external: the API server.  It keeps a set of objects of each kind, its  *)
(* lists are consistent, and a List of a namespace returns the objects of  *)
(* that namespace.                                                         *)
(***************************************************************************)
EXTENDS Analyzers, FiniteSets, SequencesExt

CONSTANTS
    Objects,        \* Objects[kind]: the objects that may exist
    InitialClusters,\* what the cluster may hold when the collection begins
    Requests,       \* the values of the parameter namespaces
    Metrics,        \* what is known of the load of the nodes
    Events,         \* the events of the cluster
    MaxChanges,     \* bound: changes of the cluster during the collection
    Nil             \* no result

ASSUME MaxChangesAssumption == MaxChanges \in Nat

VARIABLES
    cluster,        \* the objects of each kind
    requested,      \* the parameter namespaces
    pos,            \* the next List call
    state,          \* what has been collected of each kind
    outcome,        \* "collecting", "ok" or "error"
    events,         \* what CollectEvents returned, or Nil
    changes,        \* changes made since the beginning
    steady,         \* auxiliary: objects that were there all the time
    seen,           \* auxiliary: objects that were there at some time
    bare            \* auxiliary: namespaces that had no policy at some time

vars == <<cluster, requested, pos, state, outcome, events, changes, steady, seen, bare>>

\* The List calls in their order; collectRBAC makes those from the fifth on.
Lists == <<"nodes", "pods", "deployments", "netpols", "clusterRoles",
           "clusterRoleBindings", "roles", "roleBindings", "serviceAccounts",
           "namespaces">>

Kinds == Range(Lists)
Namespaced == {"pods", "deployments", "netpols", "roles", "roleBindings", "serviceAccounts"}

AllObjects == UNION {Objects[k] : k \in Kinds}

\* A cluster has finitely many objects; namespaces are named by strings.
ASSUME ClusterAssumption ==
    /\ \A k \in Kinds : IsFiniteSet(Objects[k])
    /\ \A c \in InitialClusters :
          c \in [Kinds -> SUBSET AllObjects] /\ \A k \in Kinds : c[k] \subseteq Objects[k]
ASSUME RequestsAssumption == Requests \subseteq Seq(STRING)

Wanted == Range(requested)

\* The namespaces that have an object: those a finding may be about.
NamespacesOf(objects) == {o.namespace : o \in UNION {objects[k] : k \in Namespaced}}
AllNamespaces == NamespacesOf(Objects)
WithoutPolicy(c) == AllNamespaces \ {n.namespace : n \in c["netpols"]}

----
(* The conversions. *)

\* Mutant: the first container's status goes to every container.
FirstWaiting(p, i) == IF p.statuses = <<>> THEN "" ELSE p.statuses[1].waiting

\* The status of the i-th container is the i-th status, if there is one.
Waiting(p, i) == IF i <= Len(p.statuses) THEN p.statuses[i].waiting ELSE ""

Restarts(p) == FoldSeq(LAMBDA s, sum : s.restarts + sum, 0, p.statuses)

\* collectPods: host flags are taken over with or without a securityContext.
ConvertPod(p) ==
    [name |-> p.name, namespace |-> p.namespace, phase |-> p.phase, qos |-> p.qos,
     host |-> p.host, restarts |-> Restarts(p),
     containers |-> [i \in DOMAIN p.containers |->
                        p.containers[i] @@ [waiting |-> Waiting(p, i)]]]

\* The other conversions keep what the analyzers look at.  (external: the API server
\* defaults the replicas of a deployment and the protocol of a policy's port, which
\* they dereference.)
Convert(k, objects) ==
    LET listed == SetToSeq(objects)
    IN  IF k = "pods" THEN [i \in DOMAIN listed |-> ConvertPod(listed[i])] ELSE listed

----
(* The collection. *)

\* Mutant: the first namespace is always the one that is listed.
FirstNamespaceOnly(k) == requested # <<>>

\* Mutant: only the policies are.
FirstNamespacePolicies(k) ==
    IF k = "netpols" THEN requested # <<>> ELSE Len(requested) = 1

\* Exactly one namespace is asked of the server; otherwise all are.
OneNamespace(k) == Len(requested) = 1

Listed(k) ==
    {o \in cluster[k] : k \in Namespaced /\ OneNamespace(k) => o.namespace = requested[1]}

\* Mutant: what the server listed is kept.
KeptAll(k) == Listed(k)

\* Pods, and only pods, are filtered when several namespaces are asked for.
Kept(k) ==
    {o \in Listed(k) : k = "pods" /\ Len(requested) > 1 => o.namespace \in Wanted}

Init ==
    /\ cluster \in InitialClusters
    /\ requested \in Requests
    /\ pos = 1
    /\ state = [k \in Kinds |-> Nil]
    /\ outcome = "collecting"
    /\ events = Nil
    /\ changes = 0
    /\ steady = cluster
    /\ seen = cluster
    /\ bare = WithoutPolicy(cluster)

Collect ==
    /\ outcome = "collecting"
    /\ LET k == Lists[pos] IN state' = [state EXCEPT ![k] = Convert(k, Kept(k))]
    /\ pos' = pos + 1
    /\ outcome' = IF pos = Len(Lists) THEN "ok" ELSE "collecting"
    /\ UNCHANGED <<cluster, requested, events, changes, steady, seen, bare>>

\* Mutant: what has been collected is returned with the error.
WithError == state

Discarded == [k \in Kinds |-> Nil]

\* Any List call that fails makes the collection fail, with nothing returned.
ListFails ==
    /\ outcome = "collecting"
    /\ outcome' = "error"
    /\ state' = Discarded
    /\ UNCHANGED <<cluster, requested, pos, events, changes, steady, seen, bare>>

\* An object is created, replaced (o stays, another of its name goes) or deleted.
Change(k, o) ==
    /\ outcome = "collecting"
    /\ changes < MaxChanges
    /\ LET others == {x \in cluster[k] : x.name # o.name}
       IN  \E objects \in {others, others \cup {o}} :
              /\ objects # cluster[k]
              /\ cluster' = [cluster EXCEPT ![k] = objects]
    /\ changes' = changes + 1
    /\ steady' = [x \in Kinds |-> steady[x] \cap cluster'[x]]
    /\ seen' = [x \in Kinds |-> seen[x] \cup cluster'[x]]
    /\ bare' = bare \cup WithoutPolicy(cluster')
    /\ UNCHANGED <<requested, pos, state, outcome, events>>

\* A timestamp is "recent", "old" or "zero", which is before every cutoff.  A
\* core/v1 event has its last timestamp, an events.k8s.io one its event time.
\* Mutant: an event is too old as soon as one of its times is.
BothRecent(e) == e.lastTimestamp = "recent" /\ e.eventTime = "recent"

Recent(e) == e.lastTimestamp = "recent" \/ e.eventTime = "recent"

CollectEvents ==
    /\ outcome = "ok" /\ events = Nil
    /\ events' = {e \in Events : Recent(e)}
    /\ UNCHANGED <<cluster, requested, pos, state, outcome, changes, steady, seen, bare>>

Done == outcome # "collecting" /\ UNCHANGED vars

Next ==
    \/ Collect \/ ListFails \/ CollectEvents
    \/ \E k \in Kinds : \E o \in Objects[k] : Change(k, o)
    \/ Done

Spec == Init /\ [][Next]_vars

----
(* Properties. *)

TypeOK ==
    /\ \A k \in Kinds : cluster[k] \subseteq Objects[k]
    /\ requested \in Requests
    /\ pos \in 1..(Len(Lists) + 1)
    /\ \A k \in Kinds :
          \/ state[k] = Nil
          \/ outcome # "error" /\ \E S \in SUBSET Objects[k] : state[k] = Convert(k, S)
    /\ outcome \in {"collecting", "ok", "error"}
    /\ events = Nil \/ events \subseteq Events
    /\ changes \in 0..MaxChanges
    /\ \A k \in Kinds : steady[k] \subseteq cluster[k] /\ cluster[k] \subseteq seen[k]
    /\ bare \subseteq AllNamespaces

\* Everything that was in the cluster from the first List to the last, as the
\* collector would convert it, with every policy there was at any time.
SteadyState ==
    [k \in Kinds |->
        Convert(k, IF k = "netpols" THEN seen[k]
                   ELSE {o \in steady[k] : k \in Namespaced /\ requested # <<>>
                                              => o.namespace \in Wanted})]

\* However the cluster changes between the List calls, an offence that lasts
\* from the first to the last of them, in a namespace that was asked for, is
\* reported; a namespace without any policy is, by one of its pods.
SteadyReported ==
    outcome = "ok" =>
        LET lasting == SteadyState
            Except(F) == {f \in F : f.rule # "NET-001"}
            Bare(F) == {f.on.namespace : f \in {g \in F : g.rule = "NET-001"}}
        IN  /\ Except(SecurityFindings(lasting)) \subseteq SecurityFindings(state)
            /\ Bare(SecurityFindings(lasting)) \subseteq Bare(SecurityFindings(state))
            /\ PerformanceFindings(lasting, Metrics, {}) \subseteq
                    PerformanceFindings(state, Metrics, {})

\* Pods and policies are listed at different times, and pods alone are filtered:
\* NET-001 is nevertheless raised only for a namespace that was without a policy
\* at some moment of the collection, and only once for each.
NetworkFindingsJustified ==
    outcome = "ok" =>
        LET F == NetworkSecurity(state["pods"], state["netpols"]) IN
        /\ \A f \in F : f.on.namespace \in bare
        /\ \A f, g \in F : f.on.namespace = g.on.namespace => f = g

\* Whatever the analyzers say of a pod, it is of a namespace that was asked for.
PodFindingsInScope ==
    outcome = "ok" /\ requested # <<>> =>
        \A f \in SecurityFindings(state) \cup PerformanceFindings(state, Metrics, {}) :
            f.on.kind \in {"Pod", "Container"} => f.on.namespace \in Wanted

\* A warning repeated more than three times, of which the cluster saw one
\* recently, is reported, though a core/v1 event carries a zero event time.  (An
\* events.k8s.io event counts in its series, which the collector does not read.)
WarningsReported ==
    events # Nil =>
        \A e \in Events :
            (e.type = "Warning" /\ e.count > 3 /\ e.lastTimestamp = "recent") =>
                \E f \in PerformanceFindings(state, Metrics, events) :
                    f.rule = e.reason /\ f.on = e.object

\* What is reported is true, and of what was asked for.
FindingsJustified == TypeOK /\ NetworkFindingsJustified /\ PodFindingsInScope

\* What lasts is reported, in the cluster's state and in its events.
OffencesReported == SteadyReported /\ WarningsReported

\* "Namespaces to analyze (empty for all)" (config.go): no finding is about an
\* object of another namespace.
FindingsInScope ==
    outcome = "ok" /\ requested # <<>> =>
        \A f \in SecurityFindings(state) \cup PerformanceFindings(state, Metrics, {}) :
            f.on.namespace \in Wanted \cup {""}

\* "ContainerState represents the state of a container." (analyzer/types.go): a
\* container is said to be crash-looping only if its own status said so.
CrashLoopsAreTrue ==
    outcome = "ok" =>
        \A f \in PerformanceFindings(state, Metrics, {}) : f.rule = "crash loop" =>
            \E p \in seen["pods"] :
                /\ p.name = f.on.pod /\ p.namespace = f.on.namespace
                /\ \E i \in DOMAIN p.statuses :
                      p.statuses[i].name = f.on.name
                      /\ p.statuses[i].waiting = "CrashLoopBackOff"
====
