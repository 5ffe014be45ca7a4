-------------------------- MODULE MCPendingChanges --------------------------
(* Instances of PendingChanges for TLC. *)
EXTENDS PendingChanges, TLC

CONSTANTS A,          \* name of the SLOConfig
          P, Q,       \* operator processes
          good, bad   \* values; bad is not a number

OneConfig == {A}
OneField == {"target"}
MCNumeric == {"target"}
MCValues == {good, bad}
MCMalformed == {bad}

Everything == [k \in EventKinds |-> 1]
=============================================================================
