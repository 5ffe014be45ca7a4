------------------------------- MODULE MCParts -------------------------------
(***************************************************************************)
(* The parts of the system that share no state with the others.  In a      *)
(* behaviour one of them moves, and the others stay where they began.      *)
(***************************************************************************)
EXTENDS SlackDelivery, NamespaceDigest, OperatorStartup, CastaiMonitor, SyntheticMonitor,
        MCScoring

VARIABLE part

CONSTANTS cart, mail, shop, north, south

OneOfEach == [k \in FaultKinds |-> 1]
TwoHomes == [x \in {cart, mail, shop} |-> IF x = shop THEN south ELSE north]
TwoServices == <<"castai-agent", "castai-cluster-controller">>

Parts == {"slack", "digest", "startup", "castai", "synthetic", "scoring"}

\* The operator at rest.
StartupOver ==
    /\ flags = CHOOSE f \in Flags : TRUE
    /\ stateMap = TRUE /\ apiUp = TRUE
    /\ boot = [r \in Operators |-> [Unstarted EXCEPT !.pc = "stopped"]]
    /\ nameErrors = 0 /\ removals = 0 /\ bootFaults = 0

\* The part that moves has all its initial states, any other has a single one.
Init ==
    /\ part \in Parts
    /\ SlackInit /\ DigestInit /\ CastaiInit /\ SyntheticInit /\ ScoringInit
    /\ IF part = "startup" THEN StartupInit ELSE StartupOver
    /\ part # "slack" => ready
    /\ part # "castai" => /\ ~settings.cluster /\ settings.key
                          /\ \A s \in ServiceSet : Has(pods[s], "app")
    /\ part # "synthetic" => source = "none" /\ hasKey
    /\ part # "scoring" => <<file, work>> = CHOOSE pair \in Files \X Workloads : TRUE

Next ==
    /\ \/ part = "slack" /\ SlackNext
       \/ part # "slack" /\ UNCHANGED slackVars
    /\ \/ part = "digest" /\ DigestNext
       \/ part # "digest" /\ UNCHANGED digestVars
    /\ \/ part = "startup" /\ StartupNext
       \/ part # "startup" /\ UNCHANGED startupVars
    /\ \/ part = "castai" /\ CastaiNext
       \/ part # "castai" /\ UNCHANGED castaiVars
    /\ \/ part = "synthetic" /\ SyntheticNext
       \/ part # "synthetic" /\ UNCHANGED syntheticVars
    /\ \/ part = "scoring" /\ ScoringNext
       \/ part # "scoring" /\ UNCHANGED scoringVars
    /\ UNCHANGED part

Fairness ==
    \/ part = "slack" /\ SlackFairness
    \/ part = "digest"
    \/ part = "startup" /\ StartupFairness
    \/ part = "castai" /\ CastaiFairness
    \/ part = "synthetic" /\ SyntheticFairness
    \/ part = "scoring"

\* Every part keeps to its types, and a part that does not move to its own.
PartsTypeOK ==
    /\ SlackTypeOK /\ DigestTypeOK /\ StartupTypeOK /\ CastaiTypeOK /\ SyntheticTypeOK
    /\ ScoringTypeOK

vars == <<slackVars, digestVars, startupVars, castaiVars, syntheticVars, scoringVars,
          part>>

Spec == Init /\ [][Next]_vars /\ Fairness
=============================================================================
