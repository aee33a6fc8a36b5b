---- MODULE ClusterAnalysis ----
(***************************************************************************)
(* The activities of internal/temporal/activities.go as pure operators: a  *)
(* cluster state goes in, a report with its summary comes out.             *)
(*                                                                         *)
(* A cluster is [nodes |-> set of nodes, pods |-> set of pods];            *)
(*   node = [name, cpuCap, cpuUse, memCap, memUse]                         *)
(*   pod  = [name, namespace, privileged, runAsRoot, hasNetworkPolicy,     *)
(*           status, restarts]                                             *)
(* A finding keeps what decides about it: the rule that fired, its         *)
(* severity and the object it is about.                                    *)
(***************************************************************************)
EXTENDS Integers, FiniteSets

\* A nil report pointer.
CONSTANT Nil

Severities == {"CRITICAL", "HIGH", "MEDIUM", "LOW", "INFO"}

----
\* float64(use) / float64(cap) * 100 > pct.  With a capacity of 0 the quotient
\* is NaN (0/0, never above) or +Inf (above everything).
Above(use, cap, pct) == IF cap = 0 THEN use > 0 ELSE use * 100 > pct * cap

Raise(rule, severity, objects) ==
    {[rule |-> rule, severity |-> severity, on |-> o] : o \in objects}

SecurityFindings(c) ==
    Raise("privileged", "CRITICAL", {p \in c.pods : p.privileged})
    \cup Raise("root", "HIGH", {p \in c.pods : p.runAsRoot})
    \cup Raise("netpol", "MEDIUM", {p \in c.pods : ~p.hasNetworkPolicy})

PerformanceFindings(c) ==
    Raise("cpu", "HIGH", {n \in c.nodes : Above(n.cpuUse, n.cpuCap, 85)})
    \cup Raise("mem", "HIGH", {n \in c.nodes : Above(n.memUse, n.memCap, 80)})
    \cup Raise("restarts", "HIGH", {p \in c.pods : p.restarts > 5})
    \cup Raise("crash", "CRITICAL", {p \in c.pods : p.status = "CrashLoopBackOff"})
    \cup Raise("pending", "HIGH", {p \in c.pods : p.status = "Pending"})

Predictions(c) ==
    Raise("pred-cpu", "HIGH", {n \in c.nodes : Above(n.cpuUse, n.cpuCap, 70)})
    \cup Raise("pred-mem", "CRITICAL", {n \in c.nodes : Above(n.memUse, n.memCap, 70)})
    \cup Raise("pred-failure", "HIGH", {p \in c.pods : p.restarts > 2})

----
\* Summary.BySeverity[sev], also SecuritySummary.CriticalCount and HighCount.
BySeverity(F, sev) == Cardinality({f \in F : f.severity = sev})

NotNegative(score) == IF score < 0 THEN 0 ELSE score

PostureScore(F) ==
    NotNegative(100 - 20 * BySeverity(F, "CRITICAL") - 10 * BySeverity(F, "HIGH")
                    - 5 * BySeverity(F, "MEDIUM") - 2 * BySeverity(F, "LOW"))

RiskLevel(score) ==
    IF score >= 80 THEN "LOW"
    ELSE IF score >= 60 THEN "MEDIUM"
    ELSE IF score >= 40 THEN "HIGH" ELSE "CRITICAL"

HealthScore(F) ==
    NotNegative(100 - 25 * BySeverity(F, "CRITICAL") - 15 * BySeverity(F, "HIGH")
                    - 5 * BySeverity(F, "MEDIUM"))

Summarised(F) ==
    [findings |-> F, critical |-> BySeverity(F, "CRITICAL"), high |-> BySeverity(F, "HIGH")]

\* The activity that a pipeline of the workflow runs, on the collected state.
Report(pipeline, c) ==
    Summarised(CASE pipeline = "security"    -> SecurityFindings(c)
                 [] pipeline = "performance" -> PerformanceFindings(c)
                 [] pipeline = "prediction"  -> Predictions(c))

----
CriticalIn(r) == IF r = Nil THEN 0 ELSE r.critical
HighIn(r)     == IF r = Nil THEN 0 ELSE r.high
FindingsIn(r) == IF r = Nil THEN {} ELSE r.findings

\* The executive summary of LLMEnhanceAnalysisActivity, by its three wordings:
\* it counts the security and the performance report only.
ExecutiveSummary(security, performance) ==
    IF CriticalIn(security) + CriticalIn(performance) > 0 THEN "critical"
    ELSE IF HighIn(security) + HighIn(performance) > 0 THEN "high priority"
    ELSE "good health"

\* Mutant: HIGH findings are counted as well.
AlertCountWithHigh(security, performance) ==
    CriticalIn(security) + CriticalIn(performance) + HighIn(security)

\* criticalCount of SendAlertsActivity; the alert goes out if it is positive.
AlertCount(security, performance) == CriticalIn(security) + CriticalIn(performance)

----
\* TriageEventActivity.
Triage(reason) ==
    CASE reason \in {"OOMKilled", "OOMKilling", "CrashLoopBackOff"} ->
            [severity |-> "CRITICAL", deep |-> TRUE]
      [] reason = "FailedScheduling" -> [severity |-> "HIGH", deep |-> TRUE]
      [] reason = "Unhealthy"        -> [severity |-> "HIGH", deep |-> FALSE]
      [] reason = "BackOff"          -> [severity |-> "MEDIUM", deep |-> FALSE]
      [] OTHER                       -> [severity |-> "INFO", deep |-> FALSE]
====
