---- MODULE MCEventWorkflow ----
(***************************************************************************)
(* A small instance: one reason of each row of the triage table, and       *)
(* cluster states with no critical pod, a privileged one, a crash-looping  *)
(* one.                                                                    *)
(***************************************************************************)
EXTENDS EventWorkflow

Node == [name |-> "node-1", cpuCap |-> 100, cpuUse |-> 62, memCap |-> 100, memUse |-> 62]

Pod(privileged, pod_status) ==
    [name |-> "test-pod", namespace |-> "default", privileged |-> privileged,
     runAsRoot |-> FALSE, hasNetworkPolicy |-> FALSE, status |-> pod_status,
     restarts |-> 0]

Simulated  == [nodes |-> {Node}, pods |-> {Pod(FALSE, "Running")}]
Privileged == [nodes |-> {Node}, pods |-> {Pod(TRUE, "Running")}]
CrashLoop  == [nodes |-> {Node}, pods |-> {Pod(FALSE, "CrashLoopBackOff")}]

MCClusters == {Simulated, Privileged, CrashLoop}
MCReasons == {"OOMKilled", "FailedScheduling", "Unhealthy", "BackOff", "Created"}
====
