-------------------------- MODULE MCSLOReconciler --------------------------
(***************************************************************************)
(* Instances of SLOReconciler for TLC.                                     *)
(***************************************************************************)
EXTENDS SLOReconciler, TLC

CONSTANTS c1, c2, s1, s2, good, better, bad, op1, op2

\* Each resource names services nobody else names ...
Single == (c1 :> {s1})
Exclusive == (c1 :> {s1}) @@ (c2 :> {s2})
Private == (c1 :> {s1, s2})
\* ... or both may name the same one: a second SLOConfig for a service, or
\* the successor of a deleted one.
Shared == (c1 :> {s1}) @@ (c2 :> {s1})

\* Nobody reuses the name of another, or the second has the first one's name.
Unshared == [c \in Configs |-> c]
Namesakes == [c \in Configs |-> "slo"]

\* _compare_slo_parameters tells the contents apart, or looks at a part
\* (thresholds, timeframe, description) that does not differ.
Distinguished == [k \in Contents |-> k]
Alike == [k \in Contents |-> "same"]

\* Which faults an instance allows, at most how often.
Faults(some) == [k \in FaultKinds |-> IF k \in some THEN 1 ELSE 0]
FaultFree == Faults({})
Transient == [Faults({"crash", "update", "create", "kube"}) EXCEPT !["lookup"] = CatalogCalls]
Succession == Faults({"removal", "wipe"})
Unreliable == Faults({"search", "lost", "crash", "kube"})
CrashOnly == Faults({"crash"})
Restless == Faults({"crash", "removal", "conflict"})
Replacement == Faults({"removal"})
=============================================================================
