---- MODULE Collector_proofs ----
(***************************************************************************)
(* Theorems about CollectClusterState and the analyzers, for every cluster *)
(* of finitely many objects, every list of namespaces, every set of events *)
(* and every number of changes between the List calls.                     *)
(***************************************************************************)
EXTENDS Collector, FiniteSetTheorems, WellFoundedInduction, TLAPS

----
(* Lists of the API server. *)

LEMMA SetToSeqLists ==
    ASSUME NEW S, IsFiniteSet(S)
    PROVE  /\ Cardinality(S) \in Nat
           /\ SetToSeq(S) \in [1..Cardinality(S) -> S]
           /\ Range(SetToSeq(S)) = S
  <1> DEFINE n == Cardinality(S)
             s == SetToSeq(S)
  <1>1. n \in Nat /\ ExistsBijection(1..n, S)
    BY FS_CardinalityType
  <1>2. \E f \in [1..n -> S] : IsInjective(f)
    BY <1>1 DEF ExistsBijection, Bijection, Injection
  <1>3. s \in [1..n -> S] /\ IsInjective(s)
    BY <1>2 DEF SetToSeq
  <1>4. s \in Injection(1..n, S)
    BY <1>3 DEF Injection
  <1>5. IsFiniteSet(1..n) /\ Cardinality(1..n) = n
    BY <1>1, FS_Interval
  <1>6. s \in Surjection(1..n, S)
    BY <1>4, <1>5, FS_Injection
  <1> HIDE DEF n, s
  <1>7. Range(s) = S
    BY <1>3, <1>6 DEF Range, Surjection
  <1> QED BY <1>1, <1>3, <1>7 DEF n, s

\* Whatever order the list is in, a conversion has the converted objects.
LEMMA ConvertedObjects ==
    ASSUME NEW S, IsFiniteSet(S), NEW k
    PROVE  Range(Convert(k, S)) = IF k = "pods" THEN {ConvertPod(p) : p \in S} ELSE S
  <1> DEFINE s == SetToSeq(S)
  <1>1. s \in [1..Cardinality(S) -> S] /\ Range(s) = S
    BY SetToSeqLists
  <1> HIDE DEF s
  <1>2. CASE k = "pods"
    <2>1. Range([i \in DOMAIN s |-> ConvertPod(s[i])]) = {ConvertPod(p) : p \in S}
      BY <1>1 DEF Range
    <2> QED BY <1>2, <2>1 DEF Convert, s
  <1>3. CASE k # "pods"
    BY <1>1, <1>3 DEF Convert, s
  <1> QED BY <1>2, <1>3

LEMMA ConvertedPods ==
    ASSUME NEW S, IsFiniteSet(S)
    PROVE  /\ Cardinality(S) \in Nat /\ DOMAIN Convert("pods", S) = 1..Cardinality(S)
           /\ Range(Convert("pods", S)) = {ConvertPod(p) : p \in S}
  <1> DEFINE s == SetToSeq(S)
  <1>1. s \in [1..Cardinality(S) -> S] /\ Cardinality(S) \in Nat
    BY SetToSeqLists
  <1>2. Convert("pods", S) = [i \in DOMAIN s |-> ConvertPod(s[i])]
    BY DEF Convert
  <1> HIDE DEF s
  <1>3. DOMAIN Convert("pods", S) = 1..Cardinality(S)
    BY <1>1, <1>2
  <1> QED BY <1>1, <1>3, ConvertedObjects

LEMMA LeastIndex ==
    ASSUME NEW D \in SUBSET Nat, D # {}
    PROVE  \E i \in D : \A j \in D : i <= j
  <1> DEFINE R == {ss \in Nat \X Nat : ss[1] < ss[2]}
  <1>1. IsWellFoundedOn(R, Nat)
    BY NatLessThanWellFounded DEF OpToRel
  <1>2. PICK i \in D : \A j \in D : <<j, i>> \notin R
    BY <1>1, WFMin
  <1>3. ASSUME NEW j \in D PROVE i <= j
    <2>1. ~ (j < i)
      BY <1>2
    <2> QED BY <2>1
  <1> QED BY <1>3

----
(* The rules are monotone: more objects, more findings. *)

LEMMA MoreRaised ==
    ASSUME NEW A, NEW B, A \subseteq B, NEW rule, NEW severity
    PROVE  Raise(rule, severity, A) \subseteq Raise(rule, severity, B)
  BY DEF Raise

LEMMA MorePodSecurity ==
    ASSUME NEW a, NEW b, Range(a) \subseteq Range(b)
    PROVE  PodSecurity(a) \subseteq PodSecurity(b)
  <1> DEFINE A == {p \in Range(a) : p.namespace \notin SystemNamespaces}
             B == {p \in Range(b) : p.namespace \notin SystemNamespaces}
  <1>0. A \subseteq B
    OBVIOUS
  <1> HIDE DEF A, B
  <1> DEFINE R1(X) == Raise("POD-SEC-001", "CRITICAL", WithContainer(X, LAMBDA c : c.privileged))
             R2(X) == Raise("5.2.6", "HIGH", WithContainer(X, LAMBDA c : ~c.nonRoot))
             R3(X) == Raise("5.2.4", "MEDIUM", WithContainer(X, LAMBDA c : ~c.readOnly))
             R4(X) == Raise("5.2.5", "HIGH", WithContainer(X, LAMBDA c : c.escalation))
             R5(X) == Raise("T1611", "HIGH", WithContainer(X, LAMBDA c : c.caps \cap DangerousCapabilities # {}))
             R6(X) == Raise("5.2.2", "HIGH", Sharing(X, "network"))
             R7(X) == Raise("5.2.3 pid", "CRITICAL", Sharing(X, "pid"))
             R8(X) == Raise("5.2.3 ipc", "HIGH", Sharing(X, "ipc"))
  <1>1. R1(A) \subseteq R1(B)
    BY <1>0 DEF Raise, WithContainer
  <1>2. R2(A) \subseteq R2(B)
    BY <1>0 DEF Raise, WithContainer
  <1>3. R3(A) \subseteq R3(B)
    BY <1>0 DEF Raise, WithContainer
  <1>4. R4(A) \subseteq R4(B)
    BY <1>0 DEF Raise, WithContainer
  <1>5. R5(A) \subseteq R5(B)
    BY <1>0 DEF Raise, WithContainer
  <1>6. R6(A) \subseteq R6(B)
    BY <1>0 DEF Raise, Sharing
  <1>7. R7(A) \subseteq R7(B)
    BY <1>0 DEF Raise, Sharing
  <1>8. R8(A) \subseteq R8(B)
    BY <1>0 DEF Raise, Sharing
  <1>9. PodSecurity(a) = UNION {R1(A), R2(A), R3(A), R4(A), R5(A), R6(A), R7(A), R8(A)}
    BY DEF PodSecurity, A
  <1>10. PodSecurity(b) = UNION {R1(B), R2(B), R3(B), R4(B), R5(B), R6(B), R7(B), R8(B)}
    BY DEF PodSecurity, B
  <1> HIDE DEF R1, R2, R3, R4, R5, R6, R7, R8
  <1> QED BY <1>1, <1>2, <1>3, <1>4, <1>5, <1>6, <1>7, <1>8, <1>9, <1>10

LEMMA MoreSecrets ==
    ASSUME NEW a, NEW b, Range(a) \subseteq Range(b)
    PROVE  SecretSecurity(a) \subseteq SecretSecurity(b)
  BY DEF SecretSecurity, WithContainer, Raise

\* The kinds of objects analyzeRBAC looks at.
LEMMA MoreRBAC ==
    ASSUME NEW s, NEW t,
           Range(s["clusterRoles"]) \subseteq Range(t["clusterRoles"]),
           Range(s["clusterRoleBindings"]) \subseteq Range(t["clusterRoleBindings"]),
           Range(s["serviceAccounts"]) \subseteq Range(t["serviceAccounts"])
    PROVE  RBACSecurity(s) \subseteq RBACSecurity(t)
  <1> DEFINE
        Bindings(X) == {ClusterRef("ClusterRoleBinding", b) :
                 b \in {x \in X :
                          /\ x.role = "cluster-admin"
                          /\ \E u \in x.subjects : u.namespace # "kube-system"}}
        Roles(X) == {ClusterRef("ClusterRole", r) : r \in {x \in X : x.wildcard}}
        Accounts(X) == {[kind |-> "ServiceAccount", name |-> a.name, namespace |-> a.namespace] :
                 a \in {x \in X : x.automount /\ x.name # "default"}}
  <1>1. \A X, Y : X \subseteq Y => Bindings(X) \subseteq Bindings(Y)
    OBVIOUS
  <1>2. \A X, Y : X \subseteq Y => Roles(X) \subseteq Roles(Y)
    OBVIOUS
  <1>3. \A X, Y : X \subseteq Y => Accounts(X) \subseteq Accounts(Y)
    OBVIOUS
  <1>4. \A x : RBACSecurity(x) = UNION {
                   Raise("5.1.1", "CRITICAL", Bindings(Range(x["clusterRoleBindings"]))),
                   Raise("5.1.3", "HIGH", Roles(Range(x["clusterRoles"]))),
                   Raise("5.1.6", "MEDIUM", Accounts(Range(x["serviceAccounts"])))}
    BY DEF RBACSecurity
  <1> HIDE DEF Bindings, Roles, Accounts
  <1>5. /\ Bindings(Range(s["clusterRoleBindings"])) \subseteq Bindings(Range(t["clusterRoleBindings"]))
        /\ Roles(Range(s["clusterRoles"])) \subseteq Roles(Range(t["clusterRoles"]))
        /\ Accounts(Range(s["serviceAccounts"])) \subseteq Accounts(Range(t["serviceAccounts"]))
    BY <1>1, <1>2, <1>3
  <1>6. /\ Raise("5.1.1", "CRITICAL", Bindings(Range(s["clusterRoleBindings"]))) \subseteq
           Raise("5.1.1", "CRITICAL", Bindings(Range(t["clusterRoleBindings"])))
        /\ Raise("5.1.3", "HIGH", Roles(Range(s["clusterRoles"]))) \subseteq
           Raise("5.1.3", "HIGH", Roles(Range(t["clusterRoles"])))
        /\ Raise("5.1.6", "MEDIUM", Accounts(Range(s["serviceAccounts"]))) \subseteq
           Raise("5.1.6", "MEDIUM", Accounts(Range(t["serviceAccounts"])))
    BY <1>5, MoreRaised
  <1> QED BY <1>4, <1>6

LEMMA MoreNodePerformance ==
    ASSUME NEW s, NEW t, NEW metrics,
           Range(s["nodes"]) \subseteq Range(t["nodes"])
    PROVE  NodePerformance(s, metrics) \subseteq NodePerformance(t, metrics)
  <1> DEFINE R1(x) == Raise("memory pressure", "CRITICAL", NodesWhere(x, LAMBDA n : "memory" \in n.pressures))
             R2(x) == Raise("disk pressure", "CRITICAL", NodesWhere(x, LAMBDA n : "disk" \in n.pressures))
             R3(x) == Raise("pid pressure", "HIGH", NodesWhere(x, LAMBDA n : "pid" \in n.pressures))
             R4(x) == Raise("not ready", "CRITICAL", NodesWhere(x, LAMBDA n : ~n.ready))
             R5(x) == Raise("unschedulable", "MEDIUM", NodesWhere(x, LAMBDA n : n.cordoned))
             R6(x) == Raise("cpu", "HIGH",
                           NodesWhere(x, LAMBDA n : n.name \in DOMAIN metrics
                                                    /\ metrics[n.name]["cpu"] > 85))
             R7(x) == Raise("memory", "HIGH",
                           NodesWhere(x, LAMBDA n : n.name \in DOMAIN metrics
                                                    /\ metrics[n.name]["memory"] > 80))
             R8(x) == Raise("disk", "HIGH",
                           NodesWhere(x, LAMBDA n : n.name \in DOMAIN metrics
                                                    /\ metrics[n.name]["disk"] > 85))
  <1>1. R1(s) \subseteq R1(t)
    BY DEF Raise, NodesWhere
  <1>2. R2(s) \subseteq R2(t)
    BY DEF Raise, NodesWhere
  <1>3. R3(s) \subseteq R3(t)
    BY DEF Raise, NodesWhere
  <1>4. R4(s) \subseteq R4(t)
    BY DEF Raise, NodesWhere
  <1>5. R5(s) \subseteq R5(t)
    BY DEF Raise, NodesWhere
  <1>6. R6(s) \subseteq R6(t)
    BY DEF Raise, NodesWhere
  <1>7. R7(s) \subseteq R7(t)
    BY DEF Raise, NodesWhere
  <1>8. R8(s) \subseteq R8(t)
    BY DEF Raise, NodesWhere
  <1>9. NodePerformance(s, metrics) = UNION {R1(s), R2(s), R3(s), R4(s), R5(s), R6(s), R7(s), R8(s)}
    BY DEF NodePerformance
  <1>10. NodePerformance(t, metrics) = UNION {R1(t), R2(t), R3(t), R4(t), R5(t), R6(t), R7(t), R8(t)}
    BY DEF NodePerformance
  <1> HIDE DEF R1, R2, R3, R4, R5, R6, R7, R8
  <1> QED BY <1>1, <1>2, <1>3, <1>4, <1>5, <1>6, <1>7, <1>8, <1>9, <1>10

LEMMA MorePodPerformance ==
    ASSUME NEW a, NEW b, Range(a) \subseteq Range(b)
    PROVE  PodPerformance(a) \subseteq PodPerformance(b)
  <1> DEFINE A == Range(a)
             B == Range(b)
             Looping(p) == Raise("crash loop", "CRITICAL",
                     {[kind |-> "Container", name |-> c.name, pod |-> p.name,
                       namespace |-> p.namespace] :
                        c \in {d \in Range(p.containers) : d.waiting = "CrashLoopBackOff"}})
  <1>0. A \subseteq B
    OBVIOUS
  <1> HIDE DEF A, B
  <1> DEFINE R1(X) == Raise("restart loop", "HIGH", PodsWhere(X, LAMBDA p : p.restarts > 5))
             R2(X) == UNION {Looping(p) : p \in X}
             R3(X) == Raise("image pull", "HIGH",
                            WithContainer(X, LAMBDA c : c.waiting \in {"ImagePullBackOff", "ErrImagePull"}))
             R4(X) == Raise("pending", "HIGH", PodsWhere(X, LAMBDA p : p.phase = "Pending"))
             R5(X) == Raise("no requests", "MEDIUM", WithContainer(X, LAMBDA c : ~c.requests))
             R6(X) == Raise("no limits", "MEDIUM", WithContainer(X, LAMBDA c : ~c.limits))
             R7(X) == Raise("best effort", "LOW", PodsWhere(X, LAMBDA p : p.qos = "BestEffort"))
  <1>1. R1(A) \subseteq R1(B)
    BY <1>0 DEF Raise, PodsWhere
  <1>2. R2(A) \subseteq R2(B)
    <2> HIDE DEF Looping
    <2> QED BY <1>0
  <1>3. R3(A) \subseteq R3(B)
    BY <1>0 DEF Raise, WithContainer
  <1>4. R4(A) \subseteq R4(B)
    BY <1>0 DEF Raise, PodsWhere
  <1>5. R5(A) \subseteq R5(B)
    BY <1>0 DEF Raise, WithContainer
  <1>6. R6(A) \subseteq R6(B)
    BY <1>0 DEF Raise, WithContainer
  <1>7. R7(A) \subseteq R7(B)
    BY <1>0 DEF Raise, PodsWhere
  <1>8. PodPerformance(a) = UNION {R1(A), R2(A), R3(A), R4(A), R5(A), R6(A), R7(A)}
    BY DEF PodPerformance, A
  <1>9. PodPerformance(b) = UNION {R1(B), R2(B), R3(B), R4(B), R5(B), R6(B), R7(B)}
    BY DEF PodPerformance, B
  <1> HIDE DEF R1, R2, R3, R4, R5, R6, R7
  <1> QED BY <1>1, <1>2, <1>3, <1>4, <1>5, <1>6, <1>7, <1>8, <1>9

LEMMA MoreDeploymentPerformance ==
    ASSUME NEW s, NEW t, Range(s["deployments"]) \subseteq Range(t["deployments"])
    PROVE  DeploymentPerformance(s) \subseteq DeploymentPerformance(t)
  <1> DEFINE R1(X) == Raise("unavailable", "HIGH",
                            {DeploymentRef(d) : d \in {x \in X : x.ready < x.replicas}})
             R2(X) == Raise("single replica", "MEDIUM",
                            {DeploymentRef(d) : d \in {x \in X : x.replicas = 1}})
             S == Range(s["deployments"])
             T == Range(t["deployments"])
  <1>1. R1(S) \subseteq R1(T)
    BY DEF Raise
  <1>2. R2(S) \subseteq R2(T)
    BY DEF Raise
  <1>3. DeploymentPerformance(s) = UNION {R1(S), R2(S)}
    BY DEF DeploymentPerformance
  <1>4. DeploymentPerformance(t) = UNION {R1(T), R2(T)}
    BY DEF DeploymentPerformance
  <1> HIDE DEF R1, R2
  <1> QED BY <1>1, <1>2, <1>3, <1>4

----
(* What each analyzer's findings are about. *)

LEMMA Raised ==
    ASSUME NEW rule, NEW severity, NEW objects, NEW f \in Raise(rule, severity, objects)
    PROVE  f.rule = rule /\ f.severity = severity /\ f.on \in objects
  <1>1. PICK o \in objects : f = [rule |-> rule, severity |-> severity, on |-> o]
    BY DEF Raise
  <1> QED BY <1>1

LEMMA ClusterRefKind ==
    ASSUME NEW kind, NEW o
    PROVE  ClusterRef(kind, o).kind = kind
  BY DEF ClusterRef

LEMMA PodSecurityShape ==
    ASSUME NEW pods, NEW f \in PodSecurity(pods)
    PROVE  f.rule # "NET-001" /\ \E p \in Range(pods) : f.on = PodRef(p)
  <1> DEFINE ps == {p \in Range(pods) : p.namespace \notin SystemNamespaces}
             Refs == {PodRef(p) : p \in Range(pods)}
             Rules == {"POD-SEC-001", "5.2.6", "5.2.4", "5.2.5", "T1611", "5.2.2",
                       "5.2.3 pid", "5.2.3 ipc"}
             Found(F) == \A g \in F : g.rule \in Rules /\ g.on \in Refs
  <1>1. \A namespace : Sharing(ps, namespace) \subseteq Refs
    BY DEF Sharing
  <1>2. /\ WithContainer(ps, LAMBDA c : c.privileged) \subseteq Refs
        /\ WithContainer(ps, LAMBDA c : ~c.nonRoot) \subseteq Refs
        /\ WithContainer(ps, LAMBDA c : ~c.readOnly) \subseteq Refs
        /\ WithContainer(ps, LAMBDA c : c.escalation) \subseteq Refs
        /\ WithContainer(ps, LAMBDA c : c.caps \cap DangerousCapabilities # {}) \subseteq Refs
    BY DEF WithContainer
  <1> HIDE DEF ps, Refs
  <1>3. ASSUME NEW rule \in Rules, NEW severity, NEW R \in SUBSET Refs
        PROVE  Found(Raise(rule, severity, R))
    <2> HIDE DEF Rules
    <2> SUFFICES ASSUME NEW g \in Raise(rule, severity, R)
                 PROVE  g.rule \in Rules /\ g.on \in Refs
      OBVIOUS
    <2> QED BY Raised
  <1> HIDE DEF Found
  <1>4. /\ Found(Raise("POD-SEC-001", "CRITICAL", WithContainer(ps, LAMBDA c : c.privileged)))
        /\ Found(Raise("5.2.6", "HIGH", WithContainer(ps, LAMBDA c : ~c.nonRoot)))
        /\ Found(Raise("5.2.4", "MEDIUM", WithContainer(ps, LAMBDA c : ~c.readOnly)))
        /\ Found(Raise("5.2.5", "HIGH", WithContainer(ps, LAMBDA c : c.escalation)))
        /\ Found(Raise("T1611", "HIGH",
                 WithContainer(ps, LAMBDA c : c.caps \cap DangerousCapabilities # {})))
        /\ Found(Raise("5.2.2", "HIGH", Sharing(ps, "network")))
        /\ Found(Raise("5.2.3 pid", "CRITICAL", Sharing(ps, "pid")))
        /\ Found(Raise("5.2.3 ipc", "HIGH", Sharing(ps, "ipc")))
    BY <1>1, <1>2, <1>3
  <1>5. Found(PodSecurity(pods))
    BY <1>4 DEF PodSecurity, Found, ps
  <1> QED BY <1>5 DEF Found, Refs

LEMMA SecretShape ==
    ASSUME NEW pods, NEW f \in SecretSecurity(pods)
    PROVE  f.rule # "NET-001" /\ \E p \in Range(pods) : f.on = PodRef(p)
  BY DEF SecretSecurity, Raise, WithContainer

LEMMA RBACShape ==
    ASSUME NEW s, NEW f \in RBACSecurity(s)
    PROVE  f.rule # "NET-001" /\ f.on.kind \notin {"Pod", "Container"}
  <1> DEFINE On(F) == \A g \in F : g.rule # "NET-001" /\ g.on.kind \notin {"Pod", "Container"}
             Bindings == {ClusterRef("ClusterRoleBinding", b) :
                 b \in {x \in Range(s["clusterRoleBindings"]) :
                          /\ x.role = "cluster-admin"
                          /\ \E u \in x.subjects : u.namespace # "kube-system"}}
             Roles == {ClusterRef("ClusterRole", r) :
                          r \in {x \in Range(s["clusterRoles"]) : x.wildcard}}
             Accounts == {[kind |-> "ServiceAccount", name |-> a.name, namespace |-> a.namespace] :
                 a \in {x \in Range(s["serviceAccounts"]) : x.automount /\ x.name # "default"}}
  <1>1. \A o \in Bindings : o.kind = "ClusterRoleBinding"
    BY ClusterRefKind
  <1>2. \A o \in Roles : o.kind = "ClusterRole"
    BY ClusterRefKind
  <1>3. \A o \in Accounts : o.kind = "ServiceAccount"
    OBVIOUS
  <1>4. RBACSecurity(s) = UNION {Raise("5.1.1", "CRITICAL", Bindings),
                                 Raise("5.1.3", "HIGH", Roles),
                                 Raise("5.1.6", "MEDIUM", Accounts)}
    BY DEF RBACSecurity
  <1> HIDE DEF Bindings, Roles, Accounts
  <1>5. On(Raise("5.1.1", "CRITICAL", Bindings))
    BY <1>1, Raised
  <1>6. On(Raise("5.1.3", "HIGH", Roles))
    BY <1>2, Raised
  <1>7. On(Raise("5.1.6", "MEDIUM", Accounts))
    BY <1>3, Raised
  <1> HIDE DEF On
  <1>8. On(RBACSecurity(s))
    BY <1>4, <1>5, <1>6, <1>7 DEF On
  <1> QED BY <1>8 DEF On

LEMMA NodeShape ==
    ASSUME NEW s, NEW metrics, NEW f \in NodePerformance(s, metrics)
    PROVE  f.on.kind \notin {"Pod", "Container"}
  <1> DEFINE Refs == {ClusterRef("Node", n) : n \in Range(s["nodes"])}
             On(F) == \A g \in F : g.on \in Refs
             Busy(usage, percent) ==
                NodesWhere(s, LAMBDA n : n.name \in DOMAIN metrics
                                         /\ metrics[n.name][usage] > percent)
  <1>1. /\ NodesWhere(s, LAMBDA n : "memory" \in n.pressures) \subseteq Refs
        /\ NodesWhere(s, LAMBDA n : "disk" \in n.pressures) \subseteq Refs
        /\ NodesWhere(s, LAMBDA n : "pid" \in n.pressures) \subseteq Refs
        /\ NodesWhere(s, LAMBDA n : ~n.ready) \subseteq Refs
        /\ NodesWhere(s, LAMBDA n : n.cordoned) \subseteq Refs
    BY DEF NodesWhere
  <1>2. Busy("cpu", 85) \subseteq Refs /\ Busy("memory", 80) \subseteq Refs
        /\ Busy("disk", 85) \subseteq Refs
    BY DEF NodesWhere
  <1>3. \A rule, severity : \A R \in SUBSET Refs : On(Raise(rule, severity, R))
    BY DEF Raise
  <1>4. \A o \in Refs : o.kind = "Node"
    BY ClusterRefKind
  <1> HIDE DEF Refs, On
  <1>5. /\ On(Raise("memory pressure", "CRITICAL", NodesWhere(s, LAMBDA n : "memory" \in n.pressures)))
        /\ On(Raise("disk pressure", "CRITICAL", NodesWhere(s, LAMBDA n : "disk" \in n.pressures)))
        /\ On(Raise("pid pressure", "HIGH", NodesWhere(s, LAMBDA n : "pid" \in n.pressures)))
        /\ On(Raise("not ready", "CRITICAL", NodesWhere(s, LAMBDA n : ~n.ready)))
        /\ On(Raise("unschedulable", "MEDIUM", NodesWhere(s, LAMBDA n : n.cordoned)))
    BY <1>1, <1>3
  <1>6. /\ On(Raise("cpu", "HIGH", Busy("cpu", 85)))
        /\ On(Raise("memory", "HIGH", Busy("memory", 80)))
        /\ On(Raise("disk", "HIGH", Busy("disk", 85)))
    <2> HIDE DEF Busy
    <2> QED BY <1>2, <1>3
  <1>7. On(NodePerformance(s, metrics))
    BY <1>5, <1>6 DEF NodePerformance, On
  <1>8. f.on \in Refs
    BY <1>7 DEF On
  <1> QED BY <1>4, <1>8

LEMMA DeploymentShape ==
    ASSUME NEW s, NEW f \in DeploymentPerformance(s)
    PROVE  f.on.kind \notin {"Pod", "Container"}
  <1> DEFINE ds == Range(s["deployments"])
             D1 == {DeploymentRef(d) : d \in {x \in ds : x.ready < x.replicas}}
             D2 == {DeploymentRef(d) : d \in {x \in ds : x.replicas = 1}}
  <1>1. \A o \in D1 \cup D2 : o.kind = "Deployment"
    BY DEF DeploymentRef
  <1>2. DeploymentPerformance(s) =
            UNION {Raise("unavailable", "HIGH", D1), Raise("single replica", "MEDIUM", D2)}
    BY DEF DeploymentPerformance
  <1> HIDE DEF D1, D2
  <1>3. f.on \in D1 \cup D2
    <2>1. CASE f \in Raise("unavailable", "HIGH", D1)
      BY <2>1, Raised
    <2>2. CASE f \in Raise("single replica", "MEDIUM", D2)
      BY <2>2, Raised
    <2> QED BY <1>2, <2>1, <2>2
  <1> QED BY <1>1, <1>3

LEMMA PodPerformanceShape ==
    ASSUME NEW pods, NEW f \in PodPerformance(pods)
    PROVE  \E p \in Range(pods) : f.on.namespace = p.namespace
  <1> DEFINE ps == Range(pods)
             On(F) == \A g \in F : \E p \in ps : g.on.namespace = p.namespace
             Refs == {PodRef(p) : p \in ps}
             Looping(p) == Raise("crash loop", "CRITICAL",
                     {[kind |-> "Container", name |-> c.name, pod |-> p.name,
                       namespace |-> p.namespace] :
                        c \in {d \in Range(p.containers) : d.waiting = "CrashLoopBackOff"}})
  <1> HIDE DEF ps
  <1>1. ASSUME NEW p \in ps PROVE On(Looping(p))
    <2> DEFINE Containers == {[kind |-> "Container", name |-> c.name, pod |-> p.name,
                               namespace |-> p.namespace] :
                        c \in {d \in Range(p.containers) : d.waiting = "CrashLoopBackOff"}}
    <2>1. \A o \in Containers : o.namespace = p.namespace
      OBVIOUS
    <2>2. Looping(p) = Raise("crash loop", "CRITICAL", Containers)
      OBVIOUS
    <2> HIDE DEF Looping, Containers
    <2> SUFFICES ASSUME NEW g \in Raise("crash loop", "CRITICAL", Containers)
                 PROVE  g.on.namespace = p.namespace
      BY <2>2
    <2>3. g.on \in Containers
      BY Raised
    <2> QED BY <2>1, <2>3
  <1>2. /\ PodsWhere(ps, LAMBDA p : p.restarts > 5) \subseteq Refs
        /\ PodsWhere(ps, LAMBDA p : p.phase = "Pending") \subseteq Refs
        /\ PodsWhere(ps, LAMBDA p : p.qos = "BestEffort") \subseteq Refs
    BY DEF PodsWhere
  <1>3. /\ WithContainer(ps, LAMBDA c : c.waiting \in {"ImagePullBackOff", "ErrImagePull"}) \subseteq Refs
        /\ WithContainer(ps, LAMBDA c : ~c.requests) \subseteq Refs
        /\ WithContainer(ps, LAMBDA c : ~c.limits) \subseteq Refs
    BY DEF WithContainer
  <1>4. \A rule, severity, R : R \subseteq Refs => On(Raise(rule, severity, R))
    BY DEF Raise, PodRef
  <1>5. On(UNION {Looping(p) : p \in ps})
    <2> HIDE DEF Looping
    <2> QED BY <1>1
  <1> HIDE DEF Refs
  <1>6. /\ On(Raise("restart loop", "HIGH", PodsWhere(ps, LAMBDA p : p.restarts > 5)))
        /\ On(Raise("image pull", "HIGH",
                    WithContainer(ps, LAMBDA c : c.waiting \in {"ImagePullBackOff", "ErrImagePull"})))
        /\ On(Raise("pending", "HIGH", PodsWhere(ps, LAMBDA p : p.phase = "Pending")))
        /\ On(Raise("no requests", "MEDIUM", WithContainer(ps, LAMBDA c : ~c.requests)))
        /\ On(Raise("no limits", "MEDIUM", WithContainer(ps, LAMBDA c : ~c.limits)))
        /\ On(Raise("best effort", "LOW", PodsWhere(ps, LAMBDA p : p.qos = "BestEffort")))
    BY <1>2, <1>3, <1>4, ZenonT(60)
  <1>7. On(PodPerformance(pods))
    BY <1>5, <1>6, ZenonT(60) DEF PodPerformance, ps
  <1> QED BY <1>7 DEF ps

----
(* NET-001. *)

\* A namespace without a policy is reported once, by one of its pods.
LEMMA NetworkShape ==
    ASSUME NEW pods, NEW netpols, NEW n \in Nat, DOMAIN pods = 1..n,
           NEW f \in NetworkSecurity(pods, netpols)
    PROVE  /\ f.rule = "NET-001"
           /\ \E i \in DOMAIN pods :
                 /\ f = [rule |-> "NET-001", severity |-> "MEDIUM", on |-> PodRef(pods[i])]
                 /\ \A j \in 1..(i - 1) : pods[j].namespace # pods[i].namespace
                 /\ pods[i].namespace \notin
                       SystemNamespaces \cup {q.namespace : q \in Range(netpols)}
  BY DEF NetworkSecurity, Raise

LEMMA NetworkOnce ==
    ASSUME NEW pods, NEW netpols, NEW n \in Nat, DOMAIN pods = 1..n,
           NEW f \in NetworkSecurity(pods, netpols),
           NEW g \in NetworkSecurity(pods, netpols),
           f.on.namespace = g.on.namespace
    PROVE  f = g
  <1>1. PICK i \in DOMAIN pods :
            /\ f = [rule |-> "NET-001", severity |-> "MEDIUM", on |-> PodRef(pods[i])]
            /\ \A j \in 1..(i - 1) : pods[j].namespace # pods[i].namespace
    BY NetworkShape
  <1>2. PICK k \in DOMAIN pods :
            /\ g = [rule |-> "NET-001", severity |-> "MEDIUM", on |-> PodRef(pods[k])]
            /\ \A j \in 1..(k - 1) : pods[j].namespace # pods[k].namespace
    BY NetworkShape
  <1>3. pods[i].namespace = pods[k].namespace
    BY <1>1, <1>2 DEF PodRef
  <1>4. i \in Nat \ {0} /\ k \in Nat \ {0}
    OBVIOUS
  <1>5. i = k
    BY <1>1, <1>2, <1>3, <1>4
  <1> QED BY <1>1, <1>2, <1>5

LEMMA NetworkReports ==
    ASSUME NEW pods, NEW netpols, NEW n \in Nat, DOMAIN pods = 1..n,
           NEW p \in Range(pods), p.namespace \notin SystemNamespaces,
           p.namespace \notin {q.namespace : q \in Range(netpols)}
    PROVE  \E f \in NetworkSecurity(pods, netpols) :
              f.rule = "NET-001" /\ f.on.namespace = p.namespace
  <1> DEFINE D == {i \in DOMAIN pods : pods[i].namespace = p.namespace}
  <1>1. D \in SUBSET Nat /\ D # {}
    BY DEF Range
  <1>2. PICK i \in D : \A j \in D : i <= j
    BY <1>1, LeastIndex
  <1>3. i \in DOMAIN pods /\ i \in Nat \ {0} /\ pods[i].namespace = p.namespace
    BY <1>2
  <1>4. ASSUME NEW j \in 1..(i - 1), j \in DOMAIN pods PROVE pods[j].namespace # pods[i].namespace
    BY <1>2, <1>3, <1>4
  <1>5. \A j \in 1..(i - 1) : pods[j].namespace # pods[i].namespace
    BY <1>3, <1>4
  <1> DEFINE f == [rule |-> "NET-001", severity |-> "MEDIUM", on |-> PodRef(pods[i])]
  <1>6. f \in NetworkSecurity(pods, netpols)
    BY <1>3, <1>5 DEF NetworkSecurity, Raise
  <1> QED BY <1>3, <1>6 DEF PodRef

----
(* The inductive invariant, in named parts. *)

\* What was there all the time is in the cluster, what is in it has been seen,
\* and a namespace without a policy has been noticed.
Bounds ==
    /\ requested \in Requests
    /\ cluster \in [Kinds -> SUBSET AllObjects]
    /\ steady \in [Kinds -> SUBSET AllObjects]
    /\ seen \in [Kinds -> SUBSET AllObjects]
    /\ \A k \in Kinds :
          steady[k] \subseteq cluster[k] /\ cluster[k] \subseteq seen[k] /\ seen[k] \subseteq Objects[k]
    /\ WithoutPolicy(cluster) \subseteq bare /\ bare \subseteq AllNamespaces
    /\ changes \in 0..MaxChanges
    /\ events = Nil \/ events = {e \in Events : Recent(e)}

InScope(k, o) == k \in Namespaced /\ requested # <<>> => o.namespace \in Wanted

\* What the List of kind k may have returned, seen from now on: all that lasts,
\* nothing that never was; pods of the namespaces asked for; and of policies so
\* many that a namespace that misses one was without.
Covers(k, S) ==
    /\ \A o \in steady[k] : InScope(k, o) => o \in S
    /\ S \subseteq seen[k]
    /\ k = "pods" => \A p \in S : InScope(k, p)
    /\ k = "netpols" =>
          \A n \in AllNamespaces :
             /\ Len(requested) = 1 => n \in Wanted
             /\ n \notin {x.namespace : x \in S}
             => n \in bare

\* The lists before pos have been made, the others not.
Collected ==
    /\ pos \in 1..(Len(Lists) + 1)
    /\ outcome \in {"collecting", "ok", "error"}
    /\ outcome = "collecting" => pos <= Len(Lists)
    /\ outcome = "ok" => pos = Len(Lists) + 1
    /\ state = [k \in Kinds |-> state[k]]
    /\ outcome = "error" => \A k \in Kinds : state[k] = Nil
    /\ outcome # "error" =>
          \A i \in 1..Len(Lists) :
             IF i < pos
             THEN \E S \in SUBSET Objects[Lists[i]] :
                     state[Lists[i]] = Convert(Lists[i], S) /\ Covers(Lists[i], S)
             ELSE state[Lists[i]] = Nil

IInv == Bounds /\ Collected

----
(* Facts about the parameters. *)

LEMMA ListsOfKinds ==
    /\ Len(Lists) = 10
    /\ \A i \in 1..Len(Lists) : Lists[i] \in Kinds
    /\ \A k \in Kinds : \E i \in 1..Len(Lists) : Lists[i] = k
    /\ \A i, j \in 1..Len(Lists) : Lists[i] = Lists[j] => i = j
  BY DEF Kinds, Lists, Range

LEMMA KindsNamed ==
    Kinds = {"nodes", "pods", "deployments", "netpols", "clusterRoles",
             "clusterRoleBindings", "roles", "roleBindings", "serviceAccounts",
             "namespaces"}
  BY DEF Kinds, Lists, Range

LEMMA NamespacesAsked ==
    ASSUME requested \in Requests
    PROVE  /\ Len(requested) \in Nat
           /\ requested = <<>> <=> Len(requested) = 0
           /\ Len(requested) = 1 => Wanted = {requested[1]}
  <1>1. requested \in Seq(STRING)
    BY RequestsAssumption
  <1>2. Len(requested) = 1 => Wanted = {requested[1]}
    BY <1>1 DEF Wanted, Range
  <1> QED BY <1>1, <1>2

\* Namespaces of objects of a namespaced kind are known.
LEMMA KnownNamespace ==
    ASSUME NEW k \in Kinds, k \in Namespaced, NEW o \in Objects[k]
    PROVE  o.namespace \in AllNamespaces
  BY DEF AllNamespaces, NamespacesOf

LEMMA WithoutPolicyKnown ==
    ASSUME NEW c
    PROVE  WithoutPolicy(c) \subseteq AllNamespaces
  BY DEF WithoutPolicy

----
(* The invariant is inductive. *)

LEMMA InitIInv == Init => IInv
  <1> SUFFICES ASSUME Init PROVE IInv
    OBVIOUS
  <1>1. Bounds
    BY ClusterAssumption, MaxChangesAssumption, WithoutPolicyKnown DEF Init, Bounds
  <1>2. Collected
    BY ListsOfKinds DEF Init, Collected
  <1> QED BY <1>1, <1>2 DEF IInv

\* What a List returns covers its kind, at the moment it is made.
LEMMA KeptCovers ==
    ASSUME Bounds, NEW k \in Kinds
    PROVE  Kept(k) \in SUBSET Objects[k] /\ Covers(k, Kept(k))
  <1>1. Kept(k) \subseteq cluster[k]
    BY DEF Kept, Listed
  <1>2. /\ steady[k] \subseteq cluster[k] /\ cluster[k] \subseteq seen[k]
        /\ seen[k] \subseteq Objects[k] /\ requested \in Requests
    BY DEF Bounds
  <1>3. ASSUME NEW o \in steady[k], InScope(k, o) PROVE o \in Kept(k)
    <2>1. k \in Namespaced /\ OneNamespace(k) => o.namespace = requested[1]
      BY <1>2, <1>3, NamespacesAsked DEF InScope, OneNamespace
    <2>2. k = "pods" /\ Len(requested) > 1 => o.namespace \in Wanted
      BY <1>2, <1>3, NamespacesAsked DEF InScope, Namespaced
    <2> QED BY <1>2, <2>1, <2>2 DEF Kept, Listed
  <1>4. ASSUME k = "pods", NEW p \in Kept(k) PROVE InScope(k, p)
    <2>1. CASE Len(requested) = 1
      BY <1>2, <1>4, <2>1, NamespacesAsked
         DEF Kept, Listed, InScope, OneNamespace, Namespaced
    <2>2. CASE Len(requested) # 1
      <3>1. Len(requested) > 1 => p.namespace \in Wanted
        BY <1>4 DEF Kept
      <3>2. requested # <<>> => Len(requested) > 1
        <4>1. Len(requested) \in Nat /\ (requested # <<>> => Len(requested) # 0)
          BY <1>2, NamespacesAsked
        <4> QED BY <2>2, <4>1
      <3> QED BY <3>1, <3>2 DEF InScope
    <2> QED BY <2>1, <2>2
  <1>5. ASSUME k = "netpols", NEW n \in AllNamespaces, Len(requested) = 1 => n \in Wanted,
               n \notin {x.namespace : x \in Kept(k)}
        PROVE  n \in bare
    <2>1. ASSUME NEW x \in cluster[k] PROVE x.namespace # n
      <3>1. x \in Listed(k) => x \in Kept(k)
        BY <1>5 DEF Kept
      <3> QED BY <1>2, <1>5, <3>1, NamespacesAsked DEF Listed, OneNamespace
    <2> QED BY <1>5, <2>1 DEF Bounds, WithoutPolicy
  <1> QED BY <1>1, <1>2, <1>3, <1>4, <1>5 DEF Covers

\* What was covered stays covered, whatever the cluster becomes.
LEMMA CoversStays ==
    ASSUME NEW k \in Kinds, NEW S, Covers(k, S), requested' = requested,
           steady'[k] \subseteq steady[k], seen[k] \subseteq seen'[k], bare \subseteq bare'
    PROVE  Covers(k, S)'
  BY DEF Covers, InScope, Wanted

LEMMA CollectKeeps == IInv /\ Collect => IInv'
  <1> SUFFICES ASSUME IInv, Collect PROVE IInv'
    OBVIOUS
  <1> USE DEF IInv
  <1>1. Bounds'
    BY DEF Collect, Bounds, WithoutPolicy
  <1>2. pos \in 1..Len(Lists) /\ Lists[pos] \in Kinds /\ outcome = "collecting"
    BY ListsOfKinds DEF Collect, Collected
  <1> PICK k \in Kinds : k = Lists[pos]
    BY <1>2
  <1>3. PICK T \in SUBSET Objects[k] : T = Kept(k) /\ Covers(k, T)
    BY KeptCovers
  <1>4. /\ state' = [state EXCEPT ![k] = Convert(k, T)] /\ pos' = pos + 1
        /\ outcome' = IF pos = Len(Lists) THEN "ok" ELSE "collecting"
        /\ UNCHANGED <<requested, steady, seen, bare>>
    BY <1>3 DEF Collect
  <1>5. state = [x \in Kinds |-> state[x]]
    BY DEF Collected
  <1>6. /\ state' = [x \in Kinds |-> state'[x]]
        /\ state'[k] = Convert(k, T)
        /\ \A x \in Kinds \ {k} : state'[x] = state[x]
    BY <1>2, <1>4, <1>5
  <1>7. \A x \in Kinds : \A S : Covers(x, S) => Covers(x, S)'
    BY <1>4, CoversStays
  <1>8. ASSUME NEW i \in 1..Len(Lists)
        PROVE  IF i < pos'
               THEN \E S \in SUBSET Objects[Lists[i]] :
                       state'[Lists[i]] = Convert(Lists[i], S) /\ Covers(Lists[i], S)'
               ELSE state'[Lists[i]] = Nil
    <2>1. Lists[i] \in Kinds /\ (i # pos => Lists[i] # k) /\ Len(Lists) = 10
      BY <1>2, ListsOfKinds
    <2>2. CASE i < pos
      <3>1. PICK S \in SUBSET Objects[Lists[i]] :
               state[Lists[i]] = Convert(Lists[i], S) /\ Covers(Lists[i], S)
        BY <1>2, <2>2 DEF Collected
      <3> QED BY <1>2, <1>4, <1>6, <1>7, <2>1, <2>2, <3>1
    <2>3. CASE i = pos
      <3>1. Covers(k, T)'
        BY <1>3, <1>7
      <3>2. Lists[i] = k /\ i < pos'
        BY <1>2, <1>4, <2>1, <2>3
      <3> QED BY <1>6, <3>1, <3>2
    <2>4. CASE i > pos
      <3>1. state[Lists[i]] = Nil
        BY <1>2, <2>1, <2>4 DEF Collected
      <3> QED BY <1>2, <1>4, <1>6, <2>1, <2>4, <3>1
    <2> QED BY <1>2, <2>1, <2>2, <2>3, <2>4
  <1>9. Collected'
    BY <1>2, <1>4, <1>6, <1>8, ListsOfKinds DEF Collected
  <1> QED BY <1>1, <1>9

LEMMA ListFailsKeeps == IInv /\ ListFails => IInv'
  <1> SUFFICES ASSUME IInv, ListFails PROVE IInv'
    OBVIOUS
  <1>1. Bounds'
    BY DEF IInv, ListFails, Bounds, WithoutPolicy
  <1>2. state' = [k \in Kinds |-> Nil] /\ outcome' = "error" /\ pos' = pos
    BY DEF ListFails, Discarded
  <1>3. Collected'
    BY <1>2 DEF IInv, Collected
  <1> QED BY <1>1, <1>3 DEF IInv

\* Steps that leave the lists and what they are compared with alone.
LEMMA CollectedStays ==
    ASSUME Collected, UNCHANGED <<requested, pos, state, outcome>>,
           \A k \in Kinds : steady'[k] \subseteq steady[k] /\ seen[k] \subseteq seen'[k],
           bare \subseteq bare'
    PROVE  Collected'
  <1>1. \A k \in Kinds : \A S : Covers(k, S) => Covers(k, S)'
    BY CoversStays
  <1>2. ASSUME outcome # "error", NEW i \in 1..Len(Lists)
        PROVE  IF i < pos
               THEN \E S \in SUBSET Objects[Lists[i]] :
                       state[Lists[i]] = Convert(Lists[i], S) /\ Covers(Lists[i], S)'
               ELSE state[Lists[i]] = Nil
    <2>1. Lists[i] \in Kinds
      BY ListsOfKinds
    <2>2. CASE i < pos
      <3>1. PICK S \in SUBSET Objects[Lists[i]] :
               state[Lists[i]] = Convert(Lists[i], S) /\ Covers(Lists[i], S)
        BY <1>2, <2>2 DEF Collected
      <3> QED BY <1>1, <2>1, <2>2, <3>1
    <2>3. CASE ~ (i < pos)
      BY <1>2, <2>3 DEF Collected
    <2> QED BY <2>2, <2>3
  <1> QED BY <1>2 DEF Collected

LEMMA ChangeKeeps ==
    ASSUME IInv, NEW k \in Kinds, NEW o \in Objects[k], Change(k, o)
    PROVE  IInv'
  <1>1. PICK objects \in {{x \in cluster[k] : x.name # o.name},
                          {x \in cluster[k] : x.name # o.name} \cup {o}} :
            cluster' = [cluster EXCEPT ![k] = objects]
    BY DEF Change
  <1>2. cluster \in [Kinds -> SUBSET AllObjects] /\ \A x \in Kinds : cluster[x] \subseteq Objects[x]
    BY DEF IInv, Bounds
  <1>3. objects \subseteq Objects[k] /\ Objects[k] \subseteq AllObjects
    BY <1>1, <1>2 DEF AllObjects
  <1>4. cluster' \in [Kinds -> SUBSET AllObjects] /\ \A x \in Kinds : cluster'[x] \subseteq Objects[x]
    BY <1>1, <1>2, <1>3
  <1>5. /\ steady' = [x \in Kinds |-> steady[x] \cap cluster'[x]]
        /\ seen' = [x \in Kinds |-> seen[x] \cup cluster'[x]]
        /\ bare' = bare \cup WithoutPolicy(cluster')
        /\ changes' = changes + 1 /\ changes < MaxChanges
        /\ UNCHANGED <<requested, pos, state, outcome, events>>
    BY DEF Change
  <1>6. /\ steady' \in [Kinds -> SUBSET AllObjects] /\ seen' \in [Kinds -> SUBSET AllObjects]
        /\ \A x \in Kinds : /\ steady'[x] \subseteq cluster'[x] /\ steady'[x] \subseteq steady[x]
                           /\ cluster'[x] \subseteq seen'[x] /\ seen[x] \subseteq seen'[x]
                           /\ seen'[x] \subseteq Objects[x]
    BY <1>4, <1>5 DEF IInv, Bounds
  <1>7. WithoutPolicy(cluster') \subseteq bare' /\ bare \subseteq bare' /\ bare' \subseteq AllNamespaces
    BY <1>5, WithoutPolicyKnown DEF IInv, Bounds
  <1>8. changes' \in 0..MaxChanges
    BY <1>5, MaxChangesAssumption DEF IInv, Bounds
  <1>9. Bounds'
    <2>1. WithoutPolicy(cluster)' = WithoutPolicy(cluster')
      BY DEF WithoutPolicy
    <2> QED BY <1>4, <1>5, <1>6, <1>7, <1>8, <2>1 DEF IInv, Bounds
  <1>10. Collected'
    BY <1>5, <1>6, <1>7, CollectedStays DEF IInv
  <1> QED BY <1>9, <1>10 DEF IInv

LEMMA CollectEventsKeeps == IInv /\ CollectEvents => IInv'
  <1> SUFFICES ASSUME IInv, CollectEvents PROVE IInv'
    OBVIOUS
  <1>1. Bounds'
    BY DEF IInv, CollectEvents, Bounds, WithoutPolicy
  <1>2. Collected'
    BY CollectedStays DEF IInv, CollectEvents
  <1> QED BY <1>1, <1>2 DEF IInv

LEMMA StutterKeeps == IInv /\ UNCHANGED vars => IInv'
  <1> SUFFICES ASSUME IInv, UNCHANGED vars PROVE IInv'
    OBVIOUS
  <1>1. Bounds'
    BY DEF IInv, vars, Bounds, WithoutPolicy
  <1>2. Collected'
    BY CollectedStays DEF IInv, vars
  <1> QED BY <1>1, <1>2 DEF IInv

LEMMA IInvHolds == Spec => []IInv
  <1>1. IInv /\ [Next]_vars => IInv'
    BY CollectKeeps, ListFailsKeeps, ChangeKeeps, CollectEventsKeeps, StutterKeeps
       DEF Next, Done
  <1> QED BY InitIInv, <1>1, PTL DEF Spec

----
(* What the findings say. *)

LEMMA InvType == IInv => TypeOK
  <1> SUFFICES ASSUME IInv PROVE TypeOK
    OBVIOUS
  <1>1. /\ \A k \in Kinds : cluster[k] \subseteq Objects[k]
        /\ requested \in Requests
        /\ events = Nil \/ events \subseteq Events
        /\ changes \in 0..MaxChanges
        /\ \A k \in Kinds : steady[k] \subseteq cluster[k] /\ cluster[k] \subseteq seen[k]
        /\ bare \subseteq AllNamespaces
    BY DEF IInv, Bounds
  <1>2. pos \in 1..(Len(Lists) + 1) /\ outcome \in {"collecting", "ok", "error"}
    BY DEF IInv, Collected
  <1>3. ASSUME NEW k \in Kinds
        PROVE  \/ state[k] = Nil
               \/ outcome # "error" /\ \E S \in SUBSET Objects[k] : state[k] = Convert(k, S)
    <2>1. PICK i \in 1..Len(Lists) : Lists[i] = k
      BY ListsOfKinds
    <2> QED BY <2>1 DEF IInv, Collected
  <1> QED BY <1>1, <1>2, <1>3 DEF TypeOK

\* A collection that ends well has covered every kind.
LEMMA AllCovered ==
    ASSUME IInv, outcome = "ok", NEW k \in Kinds
    PROVE  \E S \in SUBSET Objects[k] :
              state[k] = Convert(k, S) /\ Covers(k, S) /\ IsFiniteSet(S)
  <1>1. PICK i \in 1..Len(Lists) : Lists[i] = k
    BY ListsOfKinds
  <1>2. i < pos
    BY <1>1, ListsOfKinds DEF IInv, Collected
  <1>3. PICK S \in SUBSET Objects[k] : state[k] = Convert(k, S) /\ Covers(k, S)
    BY <1>1, <1>2 DEF IInv, Collected
  <1>4. IsFiniteSet(S)
    BY ClusterAssumption, FS_Subset
  <1> QED BY <1>3, <1>4

\* The pods that were collected, and the policies.
LEMMA CollectedPods ==
    ASSUME IInv, outcome = "ok"
    PROVE  \E n \in Nat :
              /\ DOMAIN state["pods"] = 1..n
              /\ \A p \in Range(state["pods"]) :
                    p.namespace \in AllNamespaces /\ (requested # <<>> => p.namespace \in Wanted)
  <1>1. "pods" \in Kinds
    BY KindsNamed
  <1>2. PICK S \in SUBSET Objects["pods"] :
            state["pods"] = Convert("pods", S) /\ Covers("pods", S) /\ IsFiniteSet(S)
    BY <1>1, AllCovered
  <1>3. /\ Cardinality(S) \in Nat /\ DOMAIN state["pods"] = 1..Cardinality(S)
        /\ Range(state["pods"]) = {ConvertPod(p) : p \in S}
    BY <1>2, ConvertedPods
  <1>4. ASSUME NEW p \in S
        PROVE  /\ p.namespace \in AllNamespaces /\ (requested # <<>> => p.namespace \in Wanted)
               /\ ConvertPod(p).namespace = p.namespace
    <2>1. p.namespace \in AllNamespaces
      BY <1>1, KnownNamespace DEF Namespaced
    <2>2. requested # <<>> => p.namespace \in Wanted
      BY <1>2 DEF Covers, InScope, Namespaced
    <2> QED BY <2>1, <2>2 DEF ConvertPod
  <1> QED BY <1>3, <1>4

LEMMA CollectedPolicies ==
    ASSUME IInv, outcome = "ok", NEW n \in AllNamespaces,
           requested # <<>> => n \in Wanted,
           n \notin {x.namespace : x \in Range(state["netpols"])}
    PROVE  n \in bare
  <1>1. "netpols" \in Kinds
    BY KindsNamed
  <1>2. PICK S \in SUBSET Objects["netpols"] :
            state["netpols"] = Convert("netpols", S) /\ Covers("netpols", S) /\ IsFiniteSet(S)
    BY <1>1, AllCovered
  <1>3. Range(state["netpols"]) = S
    BY <1>2, ConvertedObjects
  <1>4. Len(requested) = 1 => n \in Wanted
    BY NamespacesAsked DEF IInv, Bounds
  <1> QED BY <1>2, <1>3, <1>4 DEF Covers

LEMMA InvNetwork == IInv => NetworkFindingsJustified
  <1> SUFFICES ASSUME IInv, outcome = "ok"
               PROVE  LET F == NetworkSecurity(state["pods"], state["netpols"]) IN
                      /\ \A f \in F : f.on.namespace \in bare
                      /\ \A f, g \in F : f.on.namespace = g.on.namespace => f = g
    BY DEF NetworkFindingsJustified
  <1> DEFINE pods == state["pods"]
             netpols == state["netpols"]
             F == NetworkSecurity(pods, netpols)
  <1>1. PICK n \in Nat :
            /\ DOMAIN pods = 1..n
            /\ \A p \in Range(pods) :
                  p.namespace \in AllNamespaces /\ (requested # <<>> => p.namespace \in Wanted)
    BY CollectedPods
  <1>2. ASSUME NEW f \in F PROVE f.on.namespace \in bare
    <2>1. PICK i \in DOMAIN pods :
              /\ f = [rule |-> "NET-001", severity |-> "MEDIUM", on |-> PodRef(pods[i])]
              /\ pods[i].namespace \notin {x.namespace : x \in Range(netpols)}
      BY <1>1, NetworkShape
    <2>2. pods[i] \in Range(pods)
      BY DEF Range
    <2>3. pods[i].namespace \in bare
      BY <1>1, <2>1, <2>2, CollectedPolicies
    <2>4. f.on.namespace = pods[i].namespace
      BY <2>1 DEF PodRef
    <2> QED BY <2>3, <2>4
  <1>3. ASSUME NEW f \in F, NEW g \in F, f.on.namespace = g.on.namespace PROVE f = g
    BY <1>1, <1>3, NetworkOnce
  <1> QED BY <1>2, <1>3

LEMMA InvScope == IInv => PodFindingsInScope
  <1> SUFFICES ASSUME IInv, outcome = "ok", requested # <<>>,
                      NEW f \in SecurityFindings(state) \cup PerformanceFindings(state, Metrics, {}),
                      f.on.kind \in {"Pod", "Container"}
               PROVE  f.on.namespace \in Wanted
    BY DEF PodFindingsInScope
  <1> DEFINE pods == state["pods"]
  <1>1. PICK n \in Nat :
            /\ DOMAIN pods = 1..n
            /\ \A p \in Range(pods) : p.namespace \in Wanted
    BY CollectedPods
  <1>2. EventPerformance({}) = {}
    BY DEF EventPerformance
  <1>3. CASE f \in PodSecurity(pods) \cup SecretSecurity(pods)
    <2>1. PICK p \in Range(pods) : f.on = PodRef(p)
      BY <1>3, PodSecurityShape, SecretShape
    <2> QED BY <1>1, <2>1 DEF PodRef
  <1>4. CASE f \in NetworkSecurity(pods, state["netpols"])
    <2>1. PICK i \in DOMAIN pods :
              f = [rule |-> "NET-001", severity |-> "MEDIUM", on |-> PodRef(pods[i])]
      BY <1>1, <1>4, NetworkShape
    <2>2. f.on.namespace = pods[i].namespace
      BY <2>1 DEF PodRef
    <2> QED BY <1>1, <2>2 DEF Range
  <1>5. CASE f \in PodPerformance(pods)
    BY <1>1, <1>5, PodPerformanceShape
  <1>6. CASE f \in RBACSecurity(state) \cup NodePerformance(state, Metrics)
                     \cup DeploymentPerformance(state)
    BY <1>6, RBACShape, NodeShape, DeploymentShape
  <1> HIDE DEF pods
  <1>7. \/ f \in PodSecurity(pods) \cup SecretSecurity(pods)
        \/ f \in NetworkSecurity(pods, state["netpols"])
        \/ f \in PodPerformance(pods)
        \/ f \in RBACSecurity(state) \cup NodePerformance(state, Metrics)
                     \cup DeploymentPerformance(state)
    BY <1>2 DEF SecurityFindings, PerformanceFindings, pods
  <1> QED BY <1>3, <1>4, <1>5, <1>6, <1>7

\* However the cluster changes between the List calls of CollectClusterState: a
\* namespace is reported to be without a policy only if it was so at some moment,
\* and once, and what the analyzers say of a pod is of a namespace asked for.
THEOREM FindingsAreJustified == Spec => []FindingsJustified
  <1>1. IInv => FindingsJustified
    BY InvType, InvNetwork, InvScope DEF FindingsJustified
  <1> QED BY IInvHolds, <1>1, PTL

----
(* What lasts is reported. *)

\* The objects of a kind that lasted, in the namespaces that were asked for.
LEMMA LastingCollected ==
    ASSUME IInv, outcome = "ok", NEW k \in Kinds
    PROVE  IF k = "netpols" THEN Range(state[k]) \subseteq Range(SteadyState[k])
           ELSE Range(SteadyState[k]) \subseteq Range(state[k])
  <1>1. PICK S \in SUBSET Objects[k] :
            state[k] = Convert(k, S) /\ Covers(k, S) /\ IsFiniteSet(S)
    BY AllCovered
  <1> DEFINE T == {o \in steady[k] : k \in Namespaced /\ requested # <<>> => o.namespace \in Wanted}
  <1>2. T \subseteq S /\ S \subseteq seen[k]
    BY <1>1 DEF Covers, InScope
  <1>3. IsFiniteSet(seen[k]) /\ IsFiniteSet(T)
    BY <1>1, <1>2, ClusterAssumption, FS_Subset DEF IInv, Bounds
  <1>4. SteadyState[k] = Convert(k, IF k = "netpols" THEN seen[k] ELSE T)
    BY DEF SteadyState
  <1> HIDE DEF T
  <1>5. CASE k = "netpols"
    <2>1. Range(SteadyState[k]) = seen[k] /\ Range(state[k]) = S
      BY <1>1, <1>3, <1>4, <1>5, ConvertedObjects
    <2> QED BY <1>2, <1>5, <2>1
  <1>6. CASE k = "pods"
    <2>1. /\ Range(SteadyState[k]) = {ConvertPod(p) : p \in T}
          /\ Range(state[k]) = {ConvertPod(p) : p \in S}
      BY <1>1, <1>3, <1>4, <1>6, ConvertedObjects
    <2> QED BY <1>2, <1>6, <2>1
  <1>7. CASE k \notin {"netpols", "pods"}
    <2>1. Range(SteadyState[k]) = T /\ Range(state[k]) = S
      BY <1>1, <1>3, <1>4, <1>7, ConvertedObjects
    <2> QED BY <1>2, <1>7, <2>1
  <1> QED BY <1>5, <1>6, <1>7

LEMMA LastingPods ==
    ASSUME IInv
    PROVE  \E n \in Nat : DOMAIN SteadyState["pods"] = 1..n
  <1>1. "pods" \in Kinds
    BY KindsNamed
  <1> DEFINE T == {o \in steady["pods"] :
                     "pods" \in Namespaced /\ requested # <<>> => o.namespace \in Wanted}
  <1>2. IsFiniteSet(T)
    BY <1>1, ClusterAssumption, FS_Subset DEF IInv, Bounds
  <1>3. SteadyState["pods"] = Convert("pods", T)
    BY <1>1 DEF SteadyState
  <1> QED BY <1>2, <1>3, ConvertedPods

LEMMA InvSteady == IInv => SteadyReported
  <1> DEFINE Except(F) == {f \in F : f.rule # "NET-001"}
             Bare(F) == {f.on.namespace : f \in {g \in F : g.rule = "NET-001"}}
  <1> SUFFICES ASSUME IInv, outcome = "ok"
               PROVE  /\ Except(SecurityFindings(SteadyState)) \subseteq SecurityFindings(state)
                      /\ Bare(SecurityFindings(SteadyState)) \subseteq Bare(SecurityFindings(state))
                      /\ PerformanceFindings(SteadyState, Metrics, {}) \subseteq
                            PerformanceFindings(state, Metrics, {})
    BY DEF SteadyReported
  <1> DEFINE lasting == SteadyState
  <1>1. /\ Range(lasting["pods"]) \subseteq Range(state["pods"])
        /\ Range(lasting["nodes"]) \subseteq Range(state["nodes"])
        /\ Range(lasting["deployments"]) \subseteq Range(state["deployments"])
        /\ Range(lasting["clusterRoles"]) \subseteq Range(state["clusterRoles"])
        /\ Range(lasting["clusterRoleBindings"]) \subseteq Range(state["clusterRoleBindings"])
        /\ Range(lasting["serviceAccounts"]) \subseteq Range(state["serviceAccounts"])
        /\ Range(state["netpols"]) \subseteq Range(lasting["netpols"])
    BY LastingCollected, KindsNamed
  <1>2. PICK m \in Nat : DOMAIN lasting["pods"] = 1..m
    BY LastingPods
  <1>3. PICK n \in Nat : DOMAIN state["pods"] = 1..n
    BY CollectedPods
  <1> HIDE DEF lasting
  <1>4. /\ PodSecurity(lasting["pods"]) \subseteq PodSecurity(state["pods"])
        /\ RBACSecurity(lasting) \subseteq RBACSecurity(state)
        /\ SecretSecurity(lasting["pods"]) \subseteq SecretSecurity(state["pods"])
    BY <1>1, MorePodSecurity, MoreRBAC, MoreSecrets
  <1>5. /\ NodePerformance(lasting, Metrics) \subseteq NodePerformance(state, Metrics)
        /\ PodPerformance(lasting["pods"]) \subseteq PodPerformance(state["pods"])
        /\ DeploymentPerformance(lasting) \subseteq DeploymentPerformance(state)
    BY <1>1, MoreNodePerformance, MorePodPerformance, MoreDeploymentPerformance
  <1>6. \A s : SecurityFindings(s) = PodSecurity(s["pods"]) \cup RBACSecurity(s)
                    \cup NetworkSecurity(s["pods"], s["netpols"]) \cup SecretSecurity(s["pods"])
    BY DEF SecurityFindings
  <1>7. PerformanceFindings(lasting, Metrics, {}) \subseteq PerformanceFindings(state, Metrics, {})
    BY <1>5 DEF PerformanceFindings
  <1>8. ASSUME NEW f \in SecurityFindings(lasting), f.rule # "NET-001"
        PROVE  f \in SecurityFindings(state)
    <2>1. f \notin NetworkSecurity(lasting["pods"], lasting["netpols"])
      BY <1>2, <1>8, NetworkShape
    <2> QED BY <1>4, <1>6, <2>1
  <1>9. ASSUME NEW f \in SecurityFindings(lasting), f.rule = "NET-001"
        PROVE  \E g \in SecurityFindings(state) :
                  g.rule = "NET-001" /\ g.on.namespace = f.on.namespace
    <2>1. f \in NetworkSecurity(lasting["pods"], lasting["netpols"])
      BY <1>6, <1>9, PodSecurityShape, RBACShape, SecretShape
    <2>2. PICK i \in DOMAIN lasting["pods"] :
              /\ f = [rule |-> "NET-001", severity |-> "MEDIUM", on |-> PodRef(lasting["pods"][i])]
              /\ lasting["pods"][i].namespace \notin
                    SystemNamespaces \cup {x.namespace : x \in Range(lasting["netpols"])}
      BY <1>2, <2>1, NetworkShape
    <2>3. PICK p \in Range(state["pods"]) : p = lasting["pods"][i]
      BY <1>1 DEF Range
    <2>4. /\ p.namespace \notin SystemNamespaces
          /\ p.namespace \notin {x.namespace : x \in Range(state["netpols"])}
          /\ f.on.namespace = p.namespace
      BY <1>1, <2>2, <2>3 DEF PodRef
    <2>5. PICK g \in NetworkSecurity(state["pods"], state["netpols"]) :
              g.rule = "NET-001" /\ g.on.namespace = p.namespace
      BY <1>3, <2>4, NetworkReports
    <2> QED BY <1>6, <2>4, <2>5
  <1> QED BY <1>7, <1>8, <1>9 DEF lasting

LEMMA InvWarnings == IInv => WarningsReported
  <1> SUFFICES ASSUME IInv, events # Nil, NEW e \in Events, e.type = "Warning",
                      e.count > 3, e.lastTimestamp = "recent"
               PROVE  \E f \in PerformanceFindings(state, Metrics, events) :
                         f.rule = e.reason /\ f.on = e.object
    BY DEF WarningsReported
  <1>1. e \in events
    BY DEF IInv, Bounds, Recent
  <1> DEFINE f == [rule |-> e.reason, severity |-> EventSeverity(e.reason), on |-> e.object]
  <1>2. f \in Raise(e.reason, EventSeverity(e.reason), {e.object})
    BY DEF Raise
  <1>3. f \in EventPerformance(events)
    BY <1>1, <1>2 DEF EventPerformance
  <1>4. f \in PerformanceFindings(state, Metrics, events)
    BY <1>3 DEF PerformanceFindings
  <1>5. f.rule = e.reason /\ f.on = e.object
    OBVIOUS
  <1> QED BY <1>4, <1>5

\* And an offence that lasts through all of the List calls, in a namespace asked
\* for, is reported by the analyzers, as is a repeated warning of which
\* CollectEvents should know.
THEOREM OffencesAreReported == Spec => []OffencesReported
  <1>1. IInv => OffencesReported
    BY InvSteady, InvWarnings DEF OffencesReported
  <1> QED BY IInvHolds, <1>1, PTL
====
