---------------------------- MODULE SLOContract ----------------------------
(***************************************************************************)
(* What the SLO half of the operator promises the owner of an SLOConfig,   *)
(* with nothing said of paths, searches, status or crashes: the resource   *)
(* gets one SLO in Datadog, the SLO keeps its id for good, and it moves    *)
(* forward through the versions of the spec, possibly skipping some.       *)
(***************************************************************************)
EXTENDS Naturals

CONSTANTS Configs, SloIds, MaxGen

VARIABLES
    declared,   \* declared[c]: the latest version of the spec of c
    published   \* published[c]: the SLOs Datadog holds for c, with versions

vars == <<declared, published>>

Init ==
    /\ declared = [c \in Configs |-> 0]
    /\ published = [c \in Configs |-> {}]

\* The owner creates the resource or edits its spec.
Declare(c) ==
    /\ declared[c] < MaxGen
    /\ declared' = [declared EXCEPT ![c] = @ + 1]
    /\ UNCHANGED published

\* The SLO is created from some declared version.
Publish(c) ==
    /\ published[c] = {}
    /\ \E i \in SloIds, g \in 1..declared[c] :
          published' = [published EXCEPT ![c] = {[id |-> i, gen |-> g]}]
    /\ UNCHANGED declared

\* The same SLO is brought to a version no older than the one it has.
Advance(c) ==
    /\ \E s \in published[c] : \E g \in s.gen..declared[c] :
          /\ published[c] = {s}
          /\ published' = [published EXCEPT ![c] = {[id |-> s.id, gen |-> g]}]
    /\ UNCHANGED declared

Next == \E c \in Configs : Declare(c) \/ Publish(c) \/ Advance(c)

Spec == Init /\ [][Next]_vars
=============================================================================
