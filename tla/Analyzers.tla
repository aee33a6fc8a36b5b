---- MODULE Analyzers ----
(***************************************************************************)
(* The rule-based analyzers of internal/analyzer as pure operators: a      *)
(* collected cluster goes in, a set of findings comes out.                 *)
(*                                                                         *)
(* A collected cluster (analyzer.ClusterState) is a record of sequences,   *)
(* in the order of the API server's lists:                                 *)
(*   pods        [name, namespace, phase, qos, restarts, host, containers] *)
(*     host: the host namespaces it shares, of {"network", "pid", "ipc"}   *)
(*     containers: a sequence of [name, privileged, nonRoot, readOnly,     *)
(*       escalation, caps, requests, limits, secretEnv, waiting]           *)
(*   deployments [name, namespace, replicas, ready]                        *)
(*   netpols     [name, namespace]                                         *)
(*   nodes       [name, pressures, ready, cordoned]                        *)
(*   clusterRoles [name, wildcard],  clusterRoleBindings [name, role,      *)
(*     subjects],  serviceAccounts [name, namespace, automount]            *)
(* A missing securityContext is the record whose flags are all FALSE: no   *)
(* rule tells them apart.  A finding keeps its rule, severity and object.  *)
(***************************************************************************)
EXTENDS Integers, Sequences, Functions

Raise(rule, severity, objects) ==
    {[rule |-> rule, severity |-> severity, on |-> o] : o \in objects}

SystemNamespaces == {"kube-system", "kube-public"}

PodRef(p) == [kind |-> "Pod", name |-> p.name, namespace |-> p.namespace]
DeploymentRef(d) == [kind |-> "Deployment", name |-> d.name, namespace |-> d.namespace]
ClusterRef(kind, o) == [kind |-> kind, name |-> o.name, namespace |-> ""]

----
(* SecurityAnalyzer. *)

DangerousCapabilities ==
    {"SYS_ADMIN", "NET_ADMIN", "SYS_PTRACE", "SYS_MODULE", "DAC_OVERRIDE", "SETUID",
     "SETGID", "NET_RAW", "SYS_RAWIO", "MKNOD", "SYS_CHROOT", "AUDIT_CONTROL",
     "AUDIT_WRITE", "BLOCK_SUSPEND", "MAC_ADMIN", "MAC_OVERRIDE", "SETFCAP",
     "SYSLOG", "WAKE_ALARM"}

\* The pods of ps with a container that satisfies P.
WithContainer(ps, P(_)) == {PodRef(p) : p \in {q \in ps : \E c \in Range(q.containers) : P(c)}}

Sharing(ps, namespace) == {PodRef(p) : p \in {q \in ps : namespace \in q.host}}

\* analyzePods: init containers are not looked at, nor is the runAsNonRoot of
\* the pod itself.
PodSecurity(pods) ==
    LET ps == {p \in Range(pods) : p.namespace \notin SystemNamespaces} IN
    UNION {
        Raise("POD-SEC-001", "CRITICAL", WithContainer(ps, LAMBDA c : c.privileged)),
        Raise("5.2.6", "HIGH", WithContainer(ps, LAMBDA c : ~c.nonRoot)),
        Raise("5.2.4", "MEDIUM", WithContainer(ps, LAMBDA c : ~c.readOnly)),
        Raise("5.2.5", "HIGH", WithContainer(ps, LAMBDA c : c.escalation)),
        Raise("T1611", "HIGH",
              WithContainer(ps, LAMBDA c : c.caps \cap DangerousCapabilities # {})),
        Raise("5.2.2", "HIGH", Sharing(ps, "network")),
        Raise("5.2.3 pid", "CRITICAL", Sharing(ps, "pid")),
        Raise("5.2.3 ipc", "HIGH", Sharing(ps, "ipc"))}

\* analyzeRBAC: of roles and role bindings nothing is checked.
RBACSecurity(state) ==
    UNION {
        Raise("5.1.1", "CRITICAL",
              {ClusterRef("ClusterRoleBinding", b) :
                 b \in {x \in Range(state.clusterRoleBindings) :
                          /\ x.role = "cluster-admin"
                          /\ \E s \in x.subjects : s.namespace # "kube-system"}}),
        Raise("5.1.3", "HIGH",
              {ClusterRef("ClusterRole", r) :
                 r \in {x \in Range(state.clusterRoles) : x.wildcard}}),
        Raise("5.1.6", "MEDIUM",
              {[kind |-> "ServiceAccount", name |-> a.name, namespace |-> a.namespace] :
                 a \in {x \in Range(state.serviceAccounts) :
                          x.automount /\ x.name # "default"}})}

\* Mutant: a finding for every pod.
EveryPodReports(pods, netpols) ==
    Raise("NET-001", "MEDIUM",
          {PodRef(p) : p \in {q \in Range(pods) :
              /\ q.namespace \notin SystemNamespaces
              /\ q.namespace \notin {n.namespace : n \in Range(netpols)}}})

\* analyzeNetworkPolicies: the first pod in the list of each namespace reports
\* that the namespace has no policy.
NetworkSecurity(pods, netpols) ==
    LET covered == SystemNamespaces \cup {n.namespace : n \in Range(netpols)}
        first == {i \in DOMAIN pods :
                    \A j \in 1..(i - 1) : pods[j].namespace # pods[i].namespace}
    IN  Raise("NET-001", "MEDIUM",
              {PodRef(pods[i]) : i \in {k \in first : pods[k].namespace \notin covered}})

\* analyzeSecrets: system namespaces are not skipped here.
SecretSecurity(pods) ==
    Raise("5.4.1", "LOW", WithContainer(Range(pods), LAMBDA c : c.secretEnv))

SecurityFindings(state) ==
    UNION {PodSecurity(state.pods), RBACSecurity(state),
           NetworkSecurity(state.pods, state.netpols), SecretSecurity(state.pods)}

----
(* PerformanceAnalyzer. *)

NodesWhere(state, P(_)) == {ClusterRef("Node", n) : n \in {m \in Range(state.nodes) : P(m)}}

\* analyzeNodes; metrics are known of some nodes, in percent.
NodePerformance(state, metrics) ==
    LET Busy(usage, percent) ==
            NodesWhere(state, LAMBDA n : n.name \in DOMAIN metrics
                                         /\ metrics[n.name][usage] > percent)
    IN UNION {
        Raise("memory pressure", "CRITICAL", NodesWhere(state, LAMBDA n : "memory" \in n.pressures)),
        Raise("disk pressure", "CRITICAL", NodesWhere(state, LAMBDA n : "disk" \in n.pressures)),
        Raise("pid pressure", "HIGH", NodesWhere(state, LAMBDA n : "pid" \in n.pressures)),
        Raise("not ready", "CRITICAL", NodesWhere(state, LAMBDA n : ~n.ready)),
        Raise("unschedulable", "MEDIUM", NodesWhere(state, LAMBDA n : n.cordoned)),
        Raise("cpu", "HIGH", Busy("cpu", 85)),
        Raise("memory", "HIGH", Busy("memory", 80)),
        Raise("disk", "HIGH", Busy("disk", 85))}

PodsWhere(ps, P(_)) == {PodRef(p) : p \in {q \in ps : P(q)}}

\* analyzePods; CrashLoopBackOff names its container, as its remediation does.
PodPerformance(pods) ==
    LET ps == Range(pods) IN
    UNION {
        Raise("restart loop", "HIGH", PodsWhere(ps, LAMBDA p : p.restarts > 5)),
        UNION {Raise("crash loop", "CRITICAL",
                     {[kind |-> "Container", name |-> c.name, pod |-> p.name,
                       namespace |-> p.namespace] :
                        c \in {d \in Range(p.containers) : d.waiting = "CrashLoopBackOff"}}) :
                 p \in ps},
        Raise("image pull", "HIGH",
              WithContainer(ps, LAMBDA c : c.waiting \in {"ImagePullBackOff", "ErrImagePull"})),
        Raise("pending", "HIGH", PodsWhere(ps, LAMBDA p : p.phase = "Pending")),
        Raise("no requests", "MEDIUM", WithContainer(ps, LAMBDA c : ~c.requests)),
        Raise("no limits", "MEDIUM", WithContainer(ps, LAMBDA c : ~c.limits)),
        Raise("best effort", "LOW", PodsWhere(ps, LAMBDA p : p.qos = "BestEffort"))}

\* analyzeDeployments.
DeploymentPerformance(state) ==
    LET ds == Range(state.deployments) IN
    UNION {
        Raise("unavailable", "HIGH", {DeploymentRef(d) : d \in {x \in ds : x.ready < x.replicas}}),
        Raise("single replica", "MEDIUM", {DeploymentRef(d) : d \in {x \in ds : x.replicas = 1}})}

\* analyzeEvents: a warning seen more than three times.
EventSeverity(reason) ==
    CASE reason \in {"OOMKilled", "OOMKilling"} -> "CRITICAL"
      [] reason \in {"FailedScheduling", "BackOff", "Unhealthy",
                     "FailedMount", "FailedAttachVolume"} -> "HIGH"
      [] OTHER -> "MEDIUM"

EventPerformance(events) ==
    UNION {Raise(e.reason, EventSeverity(e.reason), {e.object}) :
             e \in {x \in events : x.type = "Warning" /\ x.count > 3}}

PerformanceFindings(state, metrics, events) ==
    UNION {NodePerformance(state, metrics), PodPerformance(state.pods), DeploymentPerformance(state),
           EventPerformance(events)}
====
