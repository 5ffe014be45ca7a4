-------------------------- MODULE MCScorecardEvents --------------------------
(* Instances of ScorecardEvents for TLC. *)
EXTENDS ScorecardEvents

CONSTANTS d1, d2, s1, s2

\* Two Deployments of one service.
Same == [x \in Apps |-> s1]

\* What may happen in a behaviour, and how often.
Quiet == [k \in Kinds |-> 0]
Neighbours == [Quiet EXCEPT !["deploy"] = 2, !["edit"] = 1]
Restarted == [Quiet EXCEPT !["deploy"] = 1, !["edit"] = 2, !["crash"] = 1]
Recreated == [Quiet EXCEPT !["deploy"] = 2, !["deletion"] = 1]
Relabelled == [Quiet EXCEPT !["deploy"] = 1, !["relabel"] = 2, !["search"] = 1]
Removed == [Quiet EXCEPT !["deploy"] = 1, !["edit"] = 1, !["removal"] = 1]
Refused == [Quiet EXCEPT !["deploy"] = 1, !["edit"] = 2, !["kube"] = 1, !["read"] = 1]

Each == {Neighbours, Restarted, Recreated, Relabelled, Removed, Refused}
OnlyEdits == {Neighbours}
=============================================================================
