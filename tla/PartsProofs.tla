---------------------------- MODULE PartsProofs ----------------------------
(***************************************************************************)
(* What is proved of each part holds of the parts together, which MCParts  *)
(* describes and TLC checks: every behaviour of MCParts is one of each     *)
(* part, if it is looked at through the variables of that part.            *)
(***************************************************************************)
EXTENDS MCParts, SlackProofs, OperatorProofs, ScoringProofs

\* To the parts but OperatorStartup, which MCParts may also begin at its end, the
\* whole is a behaviour of theirs.
LEMMA WholeOfParts ==
  Spec => SlackSpec /\ DigestSpec /\ CastaiSpec /\ SyntheticSpec /\ ScoringSpec
<1>1. Init => SlackInit /\ DigestInit /\ CastaiInit /\ SyntheticInit /\ ScoringInit
  BY DEF Init
<1>2. [Next]_vars => /\ [SlackNext]_slackVars /\ [DigestNext]_digestVars
                     /\ [CastaiNext]_castaiVars /\ [SyntheticNext]_syntheticVars
                     /\ [ScoringNext]_scoringVars
  BY DEF Next, vars
<1> QED BY <1>1, <1>2, PTL DEF Spec, SlackSpec, DigestSpec, CastaiSpec, SyntheticSpec,
                            ScoringSpec

\* A process that has stopped fits its settings.
LEMMA StoppedFits == Fit([Unstarted EXCEPT !.pc = "stopped"])
<1>1. [Unstarted EXCEPT !.pc = "stopped"] \in Replica
  BY DEF Unstarted, Replica, Cached
<1> QED BY <1>1, StartupBounds DEF Fit, Sound, Equipped, Unstarted

\* The invariant of OperatorStartup holds from either beginning.
LEMMA StartupOfParts == Spec => []StartupInv
<1>1. StartupInit => StartupInv
  <2> SUFFICES ASSUME StartupInit PROVE StartupInv
    OBVIOUS
  <2>1. WorldOK /\ MapsCost
    BY StartupBounds DEF StartupInit, WorldOK, MapsCost
  <2>2. AllFit
    BY UnstartedFits DEF StartupInit, AllFit, Fit, Sound
  <2> QED BY <2>1, <2>2 DEF StartupInv
<1>2. StartupOver => StartupInv
  <2> SUFFICES ASSUME StartupOver PROVE StartupInv
    OBVIOUS
  <2>1. \E f : f \in Flags
    <3>1. [scorecard |-> TRUE, slo |-> TRUE, api |-> TRUE, datadog |-> TRUE,
           slack |-> "on", info |-> TRUE] \in Flags
      BY DEF Flags
    <3> QED BY <3>1
  <2>2. WorldOK /\ MapsCost
    BY <2>1, StartupBounds DEF StartupOver, WorldOK, MapsCost
  <2>3. AllFit
    BY StoppedFits DEF StartupOver, AllFit, Fit, Sound
  <2> QED BY <2>2, <2>3 DEF StartupInv
<1>3. Init => StartupInv
  BY <1>1, <1>2 DEF Init
<1>4. StartupInv /\ [StartupNext]_startupVars => StartupInv'
  BY WorldStep, AllFitStep DEF StartupInv
<1>5. [Next]_vars => [StartupNext]_startupVars
  BY DEF Next, vars
<1> QED BY <1>3, <1>4, <1>5, PTL DEF Spec

\* Every part keeps to its types, for all messages, apps, replicas, services, checks,
\* limits and bounds.
THEOREM PartsTypesHold == Spec => []PartsTypeOK
<1>1. StartupInv => StartupTypeOK
  BY DEF StartupInv, WorldOK, AllFit, Fit, Sound, StartupTypeOK
<1> QED BY <1>1, WholeOfParts, StartupOfParts, DeliveryTypes, DigestTypes, CastaiTypes,
           SyntheticTypesHold, ScoringTypes, PTL DEF PartsTypeOK

\* What the parts promise holds while the others stand where they began: the safety
\* properties of the run Parts, for all values of its constants but thresholds so high
\* that a message due might not be more than information.
THEOREM PromisesHold ==
  ASSUME \A f \in Files : Conf[f].critical <= 90
  PROVE  Spec => /\ [](/\ RateRespected /\ ResultIsTrue /\ DigestSpacing /\ NothingForgotten
                       /\ OneLossPerMap /\ ServingIsEquipped
                       /\ ReadingsAreTrue /\ GaugesAreTrue
                       /\ FullMarks /\ FixingNeverHurts /\ AlarmsAgree /\ ScoresAreRecent)
                 /\ NoGaugeOnceOver
<1>1. StartupInv => OneLossPerMap /\ ServingIsEquipped
  <2>1. StartupInv => OneLossPerMap
    BY DEF StartupInv, WorldOK, MapsCost, OneLossPerMap
  <2>2. StartupInv => \A r \in Operators : Fit(boot[r])
    BY DEF StartupInv, AllFit
  <2>3. StartupInv => ServingIsEquipped
    BY <2>2 DEF ServingIsEquipped, Fit, Sound, Equipped
  <2> QED BY <2>1, <2>3
<1>2. ScoringSpec => []AlarmsAgree
  BY AlarmsNeverDisagree
<1> QED BY <1>1, <1>2, WholeOfParts, StartupOfParts, RateHolds, ResultHolds, SpacingHolds,
           NothingIsForgotten, ReadingsWereTrue, NothingOnceOver, GaugesWereTrue,
           ScoresAreMarks, FixingHelps, AlwaysRecent, PTL
=============================================================================
