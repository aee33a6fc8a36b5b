---- MODULE MCAnalysisWorkflow ----
(***************************************************************************)
(* A small instance: cluster states that fire each kind of finding, alone  *)
(* and together, among them the one the simulated collector returns.       *)
(***************************************************************************)
EXTENDS AnalysisWorkflow

Node(cpu, mem) ==
    [name |-> "node-1", cpuCap |-> 100, cpuUse |-> cpu, memCap |-> 100, memUse |-> mem]

Pod(privileged, root, pod_status, restarts) ==
    [name |-> "test-pod", namespace |-> "default", privileged |-> privileged,
     runAsRoot |-> root, hasNetworkPolicy |-> FALSE, status |-> pod_status,
     restarts |-> restarts]

Simulated == [nodes |-> {Node(62, 62)}, pods |-> {Pod(FALSE, FALSE, "Running", 0)}]
Privileged == [nodes |-> {Node(62, 62)}, pods |-> {Pod(TRUE, TRUE, "Running", 0)}]
CrashLoop == [nodes |-> {Node(62, 62)}, pods |-> {Pod(FALSE, TRUE, "CrashLoopBackOff", 6)}]
MemoryFull == [nodes |-> {Node(90, 75)}, pods |-> {Pod(FALSE, TRUE, "Pending", 3)}]

MCClusters == {Simulated, Privileged, CrashLoop, MemoryFull}
MCAnalysisTypes == {"full", "security", "performance", "prediction", "other"}
====
