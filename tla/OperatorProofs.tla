--------------------------- MODULE OperatorProofs ---------------------------
(***************************************************************************)
(* What holds of an operator process before and beside its handlers: of    *)
(* OperatorStartup for every number of replicas, of failures and of        *)
(* attempts to reach the Titlis API; of CastaiMonitor for every sequence   *)
(* of services, and however often pods change and calls fail; of           *)
(* SyntheticMonitor for every number of checks, changes of their targets   *)
(* and gauges that are lost.                                               *)
(***************************************************************************)
EXTENDS OperatorStartup, CastaiMonitor, SyntheticMonitor, SequenceTheorems, TLAPS

----------------------------------------------------------------------------
(* OperatorStartup: one replica *)

\* What lru_cache may hold has the shape of what it holds.
LEMMA CachedTypes == SlackCached \in Cached /\ SloCached \in Cached
BY DEF SlackCached, SloCached, Cached

\* What the type invariant, and the settings, ask of a replica.
Sound(b) ==
    /\ b \in Replica
    /\ b.waits <= MaxWaits
    /\ b.slackReady => b.slack = "built"
    /\ b.pc = "serving" => b.sync = "done" /\ b.async = "done"

Equipped(b) ==
    /\ b.pc \in {"starting", "serving"} /\ flags.scorecard => b.scorecard = "built"
    /\ b.sync = "done" /\ flags.slo /\ flags.datadog => b.slo = "built"
    /\ b.async = "done" /\ b.pc # "stopped" /\ flags.slack = "on"
         => b.slackReady \/ b.slackFailed
    /\ b.slackReady => flags.slack = "on"
    /\ b.pc \in {"import", "readMap", "createMap", "build"}
         => b.sync = "due" /\ b.async = "due" /\ ~b.slackReady

Fit(b) == Sound(b) /\ Equipped(b)
AllFit == boot \in [Operators -> Replica] /\ \A r \in Operators : Fit(boot[r])

\* A process that did not begin yet fits its settings.
LEMMA UnstartedFits == Fit(Unstarted)
<1>1. Unstarted \in Replica
  BY DEF Unstarted, Replica, Cached
<1> QED BY <1>1, StartupBounds DEF Fit, Sound, Equipped, Unstarted

\* If one process moves to what fits, all fit.
LEMMA PutFits ==
  ASSUME AllFit, NEW r \in Operators, NEW b, Fit(b), Put(r, b), UNCHANGED flags
  PROVE  AllFit'
<1>1. boot' = [boot EXCEPT ![r] = b] /\ b \in Replica
  BY DEF Put, Fit, Sound
<1>2. boot' \in [Operators -> Replica]
  BY <1>1 DEF AllFit
<1>3. ASSUME NEW q \in Operators PROVE Fit(boot'[q])
  BY <1>1, <1>3 DEF AllFit
<1> QED BY <1>2, <1>3 DEF AllFit, Fit, Sound, Equipped

\* The steps of a replica put one that fits.
LEMMA ImportsFit ==
  ASSUME AllFit, NEW r \in Operators,
         Import(r) \/ ImportFails(r) \/ ReadMap(r) \/ CreateMap(r) \/ CreateMapRefused(r)
         \/ Build(r)
  PROVE  AllFit'
<1> DEFINE b == boot[r]
<1>0. Fit(b) /\ b \in Replica
  BY DEF AllFit, Fit, Sound
<1>a. UNCHANGED flags
  BY DEF Import, ImportFails, ReadMap, CreateMap, CreateMapRefused, Build, startupWorld
<1>1. CASE Import(r)
  <2>1. b.pc = "import"
    BY <1>1 DEF Import
  <2>2. CASE flags.scorecard
    <3> DEFINE c == [b EXCEPT !.pc = "readMap", !.slack = SlackCached]
    <3>1. c \in Replica
      BY <1>0, CachedTypes DEF Replica
    <3>2. Fit(c)
      BY <1>0, <2>1, <3>1 DEF Fit, Sound, Equipped, Replica
    <3>3. Put(r, c)
      BY <1>1, <2>2 DEF Import
    <3> HIDE DEF c
    <3> QED BY <1>a, <3>2, <3>3, PutFits
  <2>3. CASE ~flags.scorecard
    <3> DEFINE c == [b EXCEPT !.pc = "starting"]
    <3>1. c \in Replica
      BY <1>0 DEF Replica
    <3>2. Fit(c)
      BY <1>0, <2>1, <2>3, <3>1 DEF Fit, Sound, Equipped, Replica
    <3>3. Put(r, c)
      BY <1>1, <2>3 DEF Import, Enter
    <3> HIDE DEF c
    <3> QED BY <1>a, <3>2, <3>3, PutFits
  <2> QED BY <2>2, <2>3
<1>2. ASSUME NEW p \in {"build", "createMap"}, b.pc \in {"readMap", "createMap"}, Enter(r, p)
      PROVE  AllFit'
  <2> DEFINE c == [b EXCEPT !.pc = p]
  <2>1. c \in Replica
    BY <1>0 DEF Replica
  <2>2. Fit(c)
    BY <1>0, <1>2, <2>1 DEF Fit, Sound, Equipped, Replica
  <2>3. Put(r, c)
    BY <1>2 DEF Enter
  <2> HIDE DEF c
  <2> QED BY <1>a, <2>2, <2>3, PutFits
<1>3. CASE RestartReplica(r)
  BY <1>3, <1>a, UnstartedFits, PutFits DEF RestartReplica
<1>4. CASE Build(r)
  <2> DEFINE c == [b EXCEPT !.pc = "starting", !.scorecard = "built"]
  <2>1. c \in Replica
    BY <1>0 DEF Replica, Cached
  <2>2. Fit(c)
    BY <1>0, <1>4, <2>1 DEF Build, Fit, Sound, Equipped, Replica
  <2>3. Put(r, c)
    BY <1>4 DEF Build
  <2> HIDE DEF c
  <2> QED BY <1>a, <2>2, <2>3, PutFits
<1>5. CASE ReadMap(r) \/ CreateMapRefused(r)
  BY <1>2, <1>5 DEF ReadMap, CreateMapRefused
<1>6. CASE CreateMap(r)
  BY <1>2, <1>3, <1>6 DEF CreateMap
<1>7. CASE ImportFails(r)
  BY <1>3, <1>7 DEF ImportFails
<1> QED BY <1>1, <1>4, <1>5, <1>6, <1>7

\* Every handler, and the loop that waits for the API, leaves what fits the settings.
LEMMA HandlersFit ==
  ASSUME AllFit, flags \in Flags, NEW r \in Operators,
         Startup(r) \/ StartupFails(r) \/ StartupAsync(r) \/ WaitForApi(r)
         \/ InitializeSlack(r) \/ InitializeSlackFails(r) \/ Serve(r) \/ Cleanup(r)
  PROVE  AllFit'
<1> DEFINE b == boot[r]
<1>0. Fit(b) /\ b \in Replica
  BY DEF AllFit, Fit, Sound
<1>a. UNCHANGED flags
  BY DEF Startup, StartupFails, StartupAsync, WaitForApi, InitializeSlack,
         InitializeSlackFails, Serve, Cleanup, startupWorld
<1>1. CASE Startup(r)
  <2> DEFINE c == [b EXCEPT !.sync = "done", !.slack = SlackCached,
                            !.slo = IF flags.slo THEN SloCached ELSE @]
  <2>1. c \in Replica
    BY <1>0, CachedTypes DEF Replica
  <2>2. b.pc = "starting"
    BY <1>1 DEF Startup
  <2>3. b.slackReady => SlackCached = "built"
    BY <1>0 DEF Fit, Equipped, SlackCached
  <2>4. Fit(c)
    BY <1>0, <2>1, <2>2, <2>3 DEF Fit, Sound, Equipped, Replica, SloCached
  <2>5. Put(r, c)
    BY <1>1 DEF Startup
  <2> HIDE DEF c
  <2> QED BY <1>a, <2>4, <2>5, PutFits
<1>2. CASE StartupFails(r)
  <2> DEFINE c == [b EXCEPT !.sync = "failed"]
  <2>1. c \in Replica
    BY <1>0, CachedTypes DEF Replica
  <2>2. Fit(c)
    BY <1>0, <1>2, <2>1 DEF StartupFails, Fit, Sound, Equipped, Replica
  <2>3. Put(r, c)
    BY <1>2 DEF StartupFails
  <2> HIDE DEF c
  <2> QED BY <1>a, <2>2, <2>3, PutFits
<1>3. CASE StartupAsync(r)
  <2> DEFINE c == [b EXCEPT !.async = "waiting"]
  <2>1. c \in Replica
    BY <1>0, CachedTypes DEF Replica
  <2>2. Fit(c)
    BY <1>0, <1>3, <2>1 DEF StartupAsync, Fit, Sound, Equipped, Replica
  <2>3. Put(r, c)
    BY <1>3 DEF StartupAsync
  <2> HIDE DEF c
  <2> QED BY <1>a, <2>2, <2>3, PutFits
<1>4. CASE WaitForApi(r)
  <2> DEFINE c == [b EXCEPT !.waits = @ + 1]
  <2>1. c \in Replica
    BY <1>0, CachedTypes DEF Replica
  <2>2. Fit(c)
    BY <1>0, <1>4, <2>1, StartupBounds DEF WaitForApi, Fit, Sound, Equipped, Replica
  <2>3. Put(r, c)
    BY <1>4 DEF WaitForApi
  <2> HIDE DEF c
  <2> QED BY <1>a, <2>2, <2>3, PutFits
<1>5. CASE InitializeSlack(r)
  <2> DEFINE c == [b EXCEPT !.async = "done", !.slack = SlackCached,
                            !.slackReady = (SlackCached = "built")]
  <2>1. c \in Replica
    BY <1>0, CachedTypes DEF Replica
  <2>2. /\ c.slackReady <=> SlackCached = "built"
        /\ c.slack = SlackCached
        /\ SlackCached = "built" <=> flags.slack = "on"
    BY <1>0 DEF Replica, SlackCached
  <2>3. /\ c.pc = b.pc /\ c.slo = b.slo /\ c.scorecard = b.scorecard /\ c.waits = b.waits
         /\ c.sync = b.sync /\ c.async = "done"
         /\ b.async = "waiting"
    BY <1>0, <1>5 DEF Replica, InitializeSlack, WaitIsOver
  <2>4. Sound(c)
    BY <1>0, <2>1, <2>2, <2>3 DEF Fit, Sound
  <2>5. Equipped(c)
    BY <1>0, <2>2, <2>3 DEF Fit, Equipped
  <2>6. Fit(c)
    BY <2>4, <2>5 DEF Fit
  <2>7. Put(r, c)
    BY <1>5 DEF InitializeSlack
  <2> HIDE DEF c
  <2> QED BY <1>a, <2>6, <2>7, PutFits
<1>6. CASE InitializeSlackFails(r)
  <2> DEFINE c == [b EXCEPT !.async = "done", !.slack = "built", !.slackFailed = TRUE]
  <2>1. c \in Replica
    BY <1>0 DEF Replica, Cached
  <2>2. Fit(c)
    BY <1>0, <1>6, <2>1 DEF InitializeSlackFails, Fit, Sound, Equipped, Replica, WaitIsOver, SlackCached
  <2>3. Put(r, c)
    BY <1>6 DEF InitializeSlackFails
  <2> HIDE DEF c
  <2> QED BY <1>a, <2>2, <2>3, PutFits
<1>7. CASE Serve(r)
  <2> DEFINE c == [b EXCEPT !.pc = "serving"]
  <2>1. c \in Replica
    BY <1>0, CachedTypes DEF Replica
  <2>2. Fit(c)
    BY <1>0, <1>7, <2>1 DEF Serve, Fit, Sound, Equipped, Replica
  <2>3. Put(r, c)
    BY <1>7 DEF Serve, Enter
  <2> HIDE DEF c
  <2> QED BY <1>a, <2>2, <2>3, PutFits
<1>8. CASE Cleanup(r)
  <2> DEFINE c == [b EXCEPT !.pc = "stopped", !.slackReady = FALSE]
  <2>1. c \in Replica
    BY <1>0, CachedTypes DEF Replica
  <2>2. Fit(c)
    BY <1>0, <1>8, <2>1 DEF Cleanup, Fit, Sound, Equipped, Replica
  <2>3. Put(r, c)
    BY <1>8 DEF Cleanup
  <2> HIDE DEF c
  <2> QED BY <1>a, <2>2, <2>3, PutFits
<1> QED BY <1>1, <1>2, <1>3, <1>4, <1>5, <1>6, <1>7, <1>8

----------------------------------------------------------------------------
(* OperatorStartup: all of them, and the ConfigMap *)

\* A ConfigMap that is missing may cost one more process.
MapsCost == nameErrors + (IF stateMap THEN 0 ELSE 1) <= 1 + removals

WorldOK ==
    /\ flags \in Flags /\ stateMap \in BOOLEAN /\ apiUp \in BOOLEAN
    /\ nameErrors \in Nat /\ removals \in 0..MaxRemovals /\ bootFaults \in 0..MaxBootFaults

StartupInv == WorldOK /\ AllFit /\ MapsCost

\* A missing ConfigMap costs one start at most, over every action.
LEMMA WorldStep == ASSUME WorldOK, MapsCost, [StartupNext]_startupVars PROVE WorldOK' /\ MapsCost'
<1> USE StartupBounds
<1>1. ASSUME GoesWrong \/ UNCHANGED bootFaults PROVE bootFaults' \in 0..MaxBootFaults
  BY <1>1 DEF GoesWrong, WorldOK
<1>2. ASSUME UNCHANGED <<flags, stateMap, apiUp, removals, nameErrors>>,
             GoesWrong \/ UNCHANGED bootFaults
      PROVE  WorldOK' /\ MapsCost'
  BY <1>1, <1>2 DEF WorldOK, MapsCost
<1>3. ASSUME NEW r \in Operators, CreateMap(r) PROVE WorldOK' /\ MapsCost'
  <2>1. /\ nameErrors \in Nat /\ removals \in Nat
        /\ UNCHANGED <<flags, apiUp, removals, bootFaults>>
    BY <1>3 DEF CreateMap, WorldOK
  <2>2. CASE stateMap
    BY <1>3, <2>1, <2>2 DEF CreateMap, WorldOK, MapsCost
  <2>3. CASE ~stateMap
    <3>1. stateMap' = TRUE /\ nameErrors' \in {nameErrors, nameErrors + 1}
      BY <1>3, <2>3 DEF CreateMap
    <3>2. nameErrors + 1 <= 1 + removals
      BY <2>3 DEF MapsCost
    <3>3. nameErrors' <= 1 + removals' /\ nameErrors' \in Nat
      BY <2>1, <3>1, <3>2
    <3>4. MapsCost'
      <4>1. (IF stateMap' THEN 0 ELSE 1) = 0
        BY <3>1
      <4>2. nameErrors' + 0 <= 1 + removals'
        BY <3>3
      <4> QED BY <4>1, <4>2 DEF MapsCost
    <3> QED BY <2>1, <3>1, <3>3, <3>4 DEF WorldOK
  <2> QED BY <2>2, <2>3
<1>4. ASSUME NEW r \in Operators, Boot(r) \/ Failing(r) \/ Cleanup(r), ~CreateMap(r)
      PROVE  WorldOK' /\ MapsCost'
  BY <1>2, <1>4 DEF Boot, Failing, Import, ImportFails, ReadMap, CreateMapRefused, Build,
     Startup, StartupFails, StartupAsync, WaitForApi, InitializeSlack, InitializeSlackFails,
     Serve, Cleanup, startupWorld
<1>5. CASE RemoveMap
  <2>1. /\ stateMap = TRUE /\ stateMap' = FALSE
        /\ nameErrors \in Nat /\ removals \in Nat /\ removals' = removals + 1
        /\ removals < MaxRemovals /\ MaxRemovals \in Nat
        /\ UNCHANGED <<flags, apiUp, nameErrors, bootFaults>>
    BY <1>5 DEF RemoveMap, WorldOK
  <2>2. MapsCost'
    BY <2>1 DEF MapsCost
  <2>3. removals' \in 0..MaxRemovals
    BY <2>1
  <2> QED BY <2>1, <2>2, <2>3 DEF WorldOK
<1>6. CASE ApiChanges
  <2>1. apiUp' \in BOOLEAN
    BY <1>6 DEF ApiChanges, WorldOK
  <2> QED BY <1>1, <1>6, <2>1 DEF ApiChanges, WorldOK, MapsCost
<1>7. CASE UNCHANGED startupVars
  BY <1>7, <1>2 DEF startupVars
<1> QED BY <1>3, <1>4, <1>5, <1>6, <1>7 DEF StartupNext

\* No action makes a process that does not fit its settings.
LEMMA AllFitStep == ASSUME WorldOK, AllFit, [StartupNext]_startupVars PROVE AllFit'
<1>1. ASSUME NEW r \in Operators, Boot(r) \/ Failing(r) \/ Cleanup(r) PROVE AllFit'
  BY <1>1, ImportsFit, HandlersFit DEF WorldOK, Boot, Failing
<1>2. CASE UNCHANGED <<flags, boot>>
  BY <1>2 DEF AllFit, Fit, Sound, Equipped
<1> QED BY <1>1, <1>2 DEF StartupNext, RemoveMap, ApiChanges, startupVars

\* The inductive invariant holds of every behaviour.
LEMMA StartupInvHolds == StartupSpec => []StartupInv
<1>1. StartupInit => StartupInv
  <2> SUFFICES ASSUME StartupInit PROVE StartupInv
    OBVIOUS
  <2>1. WorldOK /\ MapsCost
    BY StartupBounds DEF StartupInit, WorldOK, MapsCost
  <2>2. AllFit
    <3>1. Unstarted \in Replica
      BY UnstartedFits DEF Fit, Sound
    <3> QED BY <3>1, UnstartedFits DEF StartupInit, AllFit
  <2> QED BY <2>1, <2>2 DEF StartupInv
<1>2. StartupInv /\ [StartupNext]_startupVars => StartupInv'
  BY WorldStep, AllFitStep DEF StartupInv
<1> QED BY <1>1, <1>2, PTL DEF StartupSpec

\* The types of the settings, of the cluster and of every replica hold throughout; in
\* particular a replica serves only after both startup handlers are done (main.py).
THEOREM StartupTypes == StartupSpec => []StartupTypeOK
<1>1. StartupInv => StartupTypeOK
  BY DEF StartupInv, WorldOK, AllFit, Fit, Sound, StartupTypeOK
<1> QED BY <1>1, StartupInvHolds, PTL

\* However many replicas start at the same time, the faulty log call of _ensure_cm costs
\* at most one process per ConfigMap that is missing (state_store.py).
THEOREM OneLossAtMost == StartupSpec => []OneLossPerMap
<1>1. StartupInv => OneLossPerMap
  BY DEF StartupInv, WorldOK, MapsCost, OneLossPerMap
<1> QED BY <1>1, StartupInvHolds, PTL

\* Whatever fails while it starts, a replica that serves has the services its settings
\* ask for (main.py and the cached constructors of bootstrap/dependencies.py).
THEOREM ReplicasAreEquipped == StartupSpec => []ServingIsEquipped
<1>1. StartupInv => ServingIsEquipped
  <2> SUFFICES ASSUME StartupInv, NEW r \in Operators, boot[r].pc = "serving"
               PROVE  /\ flags.scorecard => boot[r].scorecard = "built"
                      /\ flags.slo /\ flags.datadog => boot[r].slo = "built"
                      /\ flags.slack = "on" => boot[r].slackReady \/ boot[r].slackFailed
    BY DEF ServingIsEquipped
  <2>1. Fit(boot[r])
    BY DEF StartupInv, AllFit
  <2> QED BY <2>1 DEF Fit, Sound, Equipped
<1> QED BY <1>1, StartupInvHolds, PTL

----------------------------------------------------------------------------
(* CastaiMonitor: the services *)

\* The task walks over every service, and over nothing else.
LEMMA ServiceTypes ==
  /\ LastPlace \in Nat \ {0}
  /\ \A i \in 1..LastPlace : Service(i) \in ServiceSet
  /\ \A s \in ServiceSet : \E i \in 1..LastPlace : s = Service(i)
BY CastaiBounds DEF LastPlace, Service, ServiceSet, ToSet

\* A check of a service that answers gives up or down, and a right one where the pods
\* that the label app prefers are looked at.
LEMMA CheckValue ==
  ASSUME NEW ps
  PROVE  /\ \A found : Healthy(found) \in {0, 1}
         /\ CheckService(ps) \in {0, 1}
         /\ Has(ps, "app") => CheckService(ps) = Healthy(Labelled(ps, "app"))
         /\ ~Has(ps, "app") => CheckService(ps) = Healthy(Labelled(ps, "name"))
         /\ \A label : Has(ps, label) \in BOOLEAN
BY DEF CheckService, Healthy, Has

----------------------------------------------------------------------------
(* CastaiMonitor: types *)

\* The type invariant without the shape of the pods.
RestOK ==
    /\ DOMAIN pods = ServiceSet
    /\ task \in {"sleep", "look", "send", "over"}
    /\ worker \in BOOLEAN
    /\ place \in 1..LastPlace
    /\ readings \in [ServiceSet -> ReadingValues]
    /\ rightly \in [ServiceSet -> SUBSET ReadingValues]
    /\ selector \in Labels
    /\ preferred \in [ServiceSet -> SUBSET BOOLEAN]
    /\ task = "look" => worker
    /\ worker \/ selector = "app"
    /\ worker => task \in {"look", "over"}

\* Every action of the CAST AI monitor keeps RestOK.
LEMMA RestStep == ASSUME RestOK, [CastaiNext]_castaiVars PROVE RestOK'
<1> USE ServiceTypes, CheckValue, CastaiBounds
<1>1. CASE BeginRound
  <2>1. /\ readings' \in [ServiceSet -> ReadingValues]
        /\ rightly' \in [ServiceSet -> SUBSET ReadingValues]
    BY <1>1 DEF BeginRound, ReadingValues
  <2>2. preferred' \in [ServiceSet -> SUBSET BOOLEAN]
    BY <1>1 DEF BeginRound
  <2> QED BY <1>1, <2>1, <2>2 DEF RestOK, BeginRound, castaiWorld, Labels
<1>2. ASSUME NEW v \in {0, 1}, Checked(v), rightly' \in [ServiceSet -> SUBSET ReadingValues]
      PROVE  RestOK'
  <2>1. readings' \in [ServiceSet -> ReadingValues]
    BY <1>2 DEF Checked, RestOK, ReadingValues
  <2>2. place' \in 1..LastPlace
    <3>1. place' = IF place < LastPlace THEN place + 1 ELSE 1
      BY <1>2 DEF Checked
    <3>2. place \in 1..LastPlace /\ LastPlace \in Nat \ {0}
      BY DEF RestOK
    <3> QED BY <3>1, <3>2
  <2>3. /\ task' \in {"sleep", "look", "send", "over"} /\ worker' \in BOOLEAN
        /\ task' = "look" => worker'
        /\ worker' => task' \in {"look", "over"}
    BY <1>2 DEF Checked, RestOK
  <2> QED BY <1>2, <2>1, <2>2, <2>3 DEF RestOK, Checked, castaiWorld, Labels
<1>3. CASE Check
  <2>1. CASE FoundByApp
    BY <1>2, <2>1 DEF FoundByApp, RestOK
  <2>2. CASE NoneByApp
    BY <2>2 DEF NoneByApp, RestOK, castaiWorld, Labels
  <2>3. CASE ListByName
    BY <1>2, <2>3 DEF ListByName, RestOK
  <2> QED BY <1>3, <2>1, <2>2, <2>3 DEF Check
<1>4. CASE CheckFails
  <2>1. rightly' \in [ServiceSet -> SUBSET ReadingValues]
    BY <1>4 DEF CheckFails, RestOK, ReadingValues
  <2> QED BY <1>2, <1>4, <2>1 DEF CheckFails
<1>5. ASSUME NEW update, Sent(update) PROVE RestOK'
  <2>1. place' \in 1..LastPlace
    BY <1>5 DEF Sent, RestOK
  <2> QED BY <1>5, <2>1 DEF RestOK, Sent, castaiWorld
<1>6. CASE Cancel
  BY <1>6 DEF RestOK, Cancel
<1>7. CASE Terminate
  BY <1>7 DEF RestOK, Terminate
<1>8. ASSUME NEW s \in ServiceSet, PodEvent(s) PROVE RestOK'
  <2>1. DOMAIN pods' = ServiceSet
    BY <1>8 DEF PodEvent, RestOK
  <2>2. rightly' \in [ServiceSet -> SUBSET ReadingValues]
    <3>1. rightly' = [rightly EXCEPT ![s] = @ \cup {CheckService(pods'[s])}]
      BY <1>8 DEF PodEvent
    <3>2. CheckService(pods'[s]) \in ReadingValues
      BY DEF ReadingValues
    <3> QED BY <3>1, <3>2 DEF RestOK
  <2>3. preferred' \in [ServiceSet -> SUBSET BOOLEAN]
    <3>1. preferred' = [preferred EXCEPT ![s] = @ \cup {Has(pods'[s], "app")}]
      BY <1>8 DEF PodEvent
    <3> QED BY <3>1 DEF RestOK
  <2> QED BY <1>8, <2>1, <2>2, <2>3 DEF RestOK, PodEvent
<1>9. CASE UNCHANGED castaiVars
  BY <1>9 DEF RestOK, castaiVars
<1> QED
  BY <1>1, <1>3, <1>4, <1>5, <1>6, <1>7, <1>8, <1>9
  DEF CastaiNext, Monitor, SendGauge, SendGaugeFails

\* What RestOK leaves out.
OthersOK ==
    /\ settings \in [cluster : BOOLEAN, key : BOOLEAN]
    /\ pods \in [ServiceSet -> Seq(Pods)]
    /\ castaiGauge \in [ServiceSet -> ReadingValues]
    /\ signal \in {"none", "pending", "delivered"}
    /\ podEvents \in 0..MaxPodEvents /\ castaiFaults \in 0..MaxCastaiFaults
    /\ task = "over" => signal = "delivered"

\* A pod that is created, changes or is deleted leaves a sequence of pods.
LEMMA PodsStay ==
  ASSUME NEW ps \in Seq(Pods)
  PROVE  /\ \A p \in Pods : Append(ps, p) \in Seq(Pods)
         /\ \A i \in DOMAIN ps : [ps EXCEPT ![i].ready = ~@] \in Seq(Pods)
         /\ \A i \in DOMAIN ps : RemoveAt(ps, i) \in Seq(Pods)
<1>1. ASSUME NEW i \in DOMAIN ps PROVE RemoveAt(ps, i) \in Seq(Pods)
  <2>1. i \in 1..Len(ps) /\ Len(ps) \in Nat
    OBVIOUS
  <2>2. SubSeq(ps, 1, i - 1) \in Seq(Pods) /\ SubSeq(ps, i + 1, Len(ps)) \in Seq(Pods)
    BY <2>1, SubSeqProperties
  <2> QED BY <2>2, ConcatProperties DEF RemoveAt
<1>2. ASSUME NEW i \in DOMAIN ps PROVE [ps EXCEPT ![i].ready = ~@] \in Seq(Pods)
  <2>1. ps[i] \in Pods
    OBVIOUS
  <2>2. [ps[i] EXCEPT !.ready = ~@] \in Pods
    BY <2>1 DEF Pods
  <2> QED BY <2>2
<1>3. \A p \in Pods : Append(ps, p) \in Seq(Pods)
  OBVIOUS
<1> QED BY <1>1, <1>2, <1>3

\* And OthersOK.
LEMMA OthersStep == ASSUME RestOK, OthersOK, [CastaiNext]_castaiVars PROVE OthersOK'
<1> USE ServiceTypes, CastaiBounds
<1>1. CASE BeginRound
  BY <1>1 DEF OthersOK, BeginRound, castaiWorld
<1>2. ASSUME NEW v, Checked(v), castaiFaults' \in 0..MaxCastaiFaults PROVE OthersOK'
  BY <1>2 DEF OthersOK, Checked, castaiWorld
<1>3. CASE Check
  BY <1>2, <1>3 DEF Check, FoundByApp, NoneByApp, ListByName, OthersOK, castaiWorld
<1>4. CASE CheckFails
  BY <1>2, <1>4 DEF CheckFails, OthersOK
<1>5. ASSUME NEW update \in [ServiceSet -> ReadingValues], Sent(update),
             castaiFaults' \in 0..MaxCastaiFaults
      PROVE  OthersOK'
  BY <1>5 DEF OthersOK, Sent, castaiWorld
<1>6. CASE SendGauge
  <2>1. [castaiGauge EXCEPT ![Service(place)] = readings[Service(place)]]
           \in [ServiceSet -> ReadingValues]
    BY DEF OthersOK, RestOK
  <2> QED BY <1>5, <1>6, <2>1 DEF SendGauge, OthersOK
<1>7. CASE SendGaugeFails
  BY <1>5, <1>7 DEF SendGaugeFails, OthersOK
<1>8. CASE Cancel
  BY <1>8 DEF OthersOK, Cancel
<1>9. CASE Terminate
  BY <1>9 DEF OthersOK, Terminate
<1>10. ASSUME NEW s \in ServiceSet, PodEvent(s) PROVE OthersOK'
  <2>1. pods[s] \in Seq(Pods)
    BY DEF OthersOK
  <2>2. \E ps \in Seq(Pods) : pods' = [pods EXCEPT ![s] = ps]
    BY <1>10, <2>1, PodsStay DEF PodEvent
  <2>3. pods' \in [ServiceSet -> Seq(Pods)]
    BY <2>2 DEF OthersOK
  <2> QED BY <1>10, <2>3 DEF OthersOK, PodEvent
<1>11. CASE UNCHANGED castaiVars
  BY <1>11 DEF OthersOK, castaiVars
<1> QED
  BY <1>1, <1>3, <1>4, <1>6, <1>7, <1>8, <1>9, <1>10, <1>11 DEF CastaiNext, Monitor

----------------------------------------------------------------------------
(* CastaiMonitor: readings *)

\* While the thread runs, the pods as they are were seen right in this round.
NowIsRight ==
    worker => \A s \in ServiceSet : /\ CheckService(pods[s]) \in rightly[s]
                                    /\ Has(pods[s], "app") \in preferred[s]

\* A service is asked for by its second label when it had no pod with the first.
SecondChoice == selector = "name" => FALSE \in preferred[Service(place)]

\* What ReadingsAreTrue says of one service.
IsTrue(s) ==
    /\ readings[s] # NoReading
    /\ readings[s] \in rightly[s] \/ preferred[s] = BOOLEAN

\* What a round has found so far was right in it.
FoundSoFar ==
    task = "look" => \A i \in 1..LastPlace : i < place => IsTrue(Service(i))

Truthful == NowIsRight /\ SecondChoice /\ FoundSoFar /\ ReadingsAreTrue

\* A value that was right enters the readings, and what was right stays so.
LEMMA CheckedTruth ==
  ASSUME RestOK, Truthful, NEW v \in {0, 1}, Checked(v),
         v \in rightly'[Service(place)] \/ preferred[Service(place)] = BOOLEAN,
         \A s \in ServiceSet : rightly[s] \subseteq rightly'[s]
  PROVE  Truthful'
<1> USE ServiceTypes, CastaiBounds
<1>1. /\ readings'[Service(place)] = v
      /\ \A s \in ServiceSet \ {Service(place)} : readings'[s] = readings[s]
  BY DEF Checked, RestOK
<1>2. pods' = pods /\ preferred' = preferred /\ selector' = "app"
  BY DEF Checked, castaiWorld
<1>3. NowIsRight'
  <2>1. worker
    BY DEF Checked
  <2>2. \A s \in ServiceSet : /\ CheckService(pods[s]) \in rightly'[s]
                             /\ Has(pods[s], "app") \in preferred[s]
    BY <2>1 DEF Truthful, NowIsRight
  <2> QED BY <1>2, <2>2 DEF NowIsRight
<1>4. ASSUME task = "look", NEW i \in 1..LastPlace, i <= place
      PROVE  IsTrue(Service(i))'
  <2>1. Service(i)' = Service(i)
    BY DEF Service
  <2>2. CASE Service(i) = Service(place)
    BY <1>1, <1>2, <2>1, <2>2 DEF IsTrue
  <2>3. CASE Service(i) # Service(place)
    <3>1. i < place
      BY <1>4, <2>3 DEF RestOK
    <3>2. IsTrue(Service(i))
      BY <1>4, <3>1 DEF Truthful, FoundSoFar
    <3>3. Service(i) \in ServiceSet
      OBVIOUS
    <3> QED BY <1>1, <1>2, <2>1, <2>3, <3>2, <3>3 DEF IsTrue
  <2> QED BY <2>2, <2>3
<1>5. FoundSoFar'
  <2> SUFFICES ASSUME task' = "look", NEW i \in 1..LastPlace, i < place'
               PROVE  IsTrue(Service(i))'
    BY DEF FoundSoFar, LastPlace
  <2>1. task = "look" /\ place' = place + 1
    BY DEF Checked, RestOK, LastPlace
  <2>2. i <= place
    BY <2>1 DEF RestOK
  <2> QED BY <1>4, <2>1, <2>2
<1>6. ReadingsAreTrue'
  <2> SUFFICES ASSUME task' = "send" PROVE \A s \in ServiceSet : IsTrue(s)'
    BY DEF ReadingsAreTrue, IsTrue
  <2>1. task \in {"look", "over"}
    BY DEF Checked, RestOK
  <2>2. ~(place < LastPlace)
    BY <2>1 DEF Checked
  <2>3. task = "look" /\ place = LastPlace
    BY <2>1, <2>2 DEF Checked, RestOK
  <2>4. \A i \in 1..LastPlace : IsTrue(Service(i))'
    BY <1>4, <2>3
  <2> QED BY <2>4 DEF IsTrue, Service
<1> QED BY <1>2, <1>3, <1>5, <1>6 DEF Truthful, SecondChoice

\* No action breaks the truth of the readings: pods that change add to what is right,
\* a list call that fails makes 0 right, and pods of the second label count either when
\* there are none of the first, or when those came after the first call.
LEMMA TruthStep == ASSUME RestOK, Truthful, [CastaiNext]_castaiVars PROVE Truthful'
<1> USE ServiceTypes
<1>1. CASE BeginRound
  BY <1>1 DEF BeginRound, castaiWorld, Truthful, NowIsRight, SecondChoice, FoundSoFar,
              ReadingsAreTrue
<1>2. CASE Check
  <2> DEFINE place1 == Service(place)
  <2>1. worker /\ place1 \in ServiceSet
    BY <1>2 DEF Check, FoundByApp, NoneByApp, ListByName, Checked, RestOK
  <2>2. /\ CheckService(pods[place1]) \in rightly[place1]
        /\ Has(pods[place1], "app") \in preferred[place1]
    BY <2>1 DEF Truthful, NowIsRight
  <2>3. CASE FoundByApp
    BY <2>2, <2>3, CheckValue, CheckedTruth DEF FoundByApp
  <2>4. CASE NoneByApp
    <3>1. FALSE \in preferred[place1]
      BY <2>2, <2>4, CheckValue DEF NoneByApp
    <3> QED BY <2>4, <3>1 DEF NoneByApp, castaiWorld, Truthful, NowIsRight, SecondChoice,
                              FoundSoFar, IsTrue, ReadingsAreTrue, Service, LastPlace
  <2>5. CASE ListByName
    <3>1. Healthy(Labelled(pods[place1], "name")) \in {0, 1}
      BY CheckValue
    <3>2. FALSE \in preferred[place1]
      BY <2>5 DEF ListByName, Truthful, SecondChoice
    <3>3. CASE Has(pods[place1], "app") = TRUE
      <4>1. preferred[place1] \in SUBSET BOOLEAN
        BY <2>1 DEF RestOK
      <4>2. preferred[place1] = BOOLEAN
        BY <2>2, <3>2, <3>3, <4>1
      <4> QED BY <2>5, <3>1, <4>2, CheckedTruth DEF ListByName
    <3>4. CASE ~Has(pods[place1], "app")
      <4>1. Healthy(Labelled(pods[place1], "name")) \in rightly[place1]
        BY <2>2, <3>4, CheckValue
      <4> QED BY <2>5, <3>1, <4>1, CheckedTruth DEF ListByName
    <3> QED BY <3>3, <3>4, CheckValue
  <2> QED BY <1>2, <2>3, <2>4, <2>5 DEF Check
<1>3. CASE CheckFails
  <2>1. 0 \in rightly'[Service(place)]
    BY <1>3 DEF CheckFails, RestOK
  <2>2. \A s \in ServiceSet : rightly[s] \subseteq rightly'[s]
    BY <1>3 DEF CheckFails, RestOK
  <2> QED BY <1>3, <2>1, <2>2, CheckedTruth DEF CheckFails
<1>4. ASSUME NEW update, Sent(update) PROVE Truthful'
  <2>1. UNCHANGED <<pods, worker, selector, readings, rightly, preferred>> /\ task = "send"
        /\ task' \in {"send", "sleep"}
    BY <1>4 DEF Sent, castaiWorld
  <2>2. selector' = "app"
    BY <2>1 DEF RestOK
  <2> QED BY <2>1, <2>2 DEF Truthful, NowIsRight, SecondChoice, FoundSoFar, ReadingsAreTrue
<1>5. CASE Cancel
  BY <1>5 DEF Cancel, Truthful, NowIsRight, SecondChoice, FoundSoFar, ReadingsAreTrue, Service
<1>6. CASE Terminate
  BY <1>6 DEF Terminate, Truthful, NowIsRight, SecondChoice, FoundSoFar, IsTrue,
              ReadingsAreTrue, Service, LastPlace
<1>7. ASSUME NEW s \in ServiceSet, PodEvent(s) PROVE Truthful'
  <2>1. UNCHANGED <<task, worker, place, selector, readings>>
    BY <1>7 DEF PodEvent
  <2>2. /\ rightly' = [rightly EXCEPT ![s] = @ \cup {CheckService(pods'[s])}]
        /\ preferred' = [preferred EXCEPT ![s] = @ \cup {Has(pods'[s], "app")}]
    BY <1>7 DEF PodEvent
  <2>3. /\ \A x \in ServiceSet : rightly[x] \subseteq rightly'[x]
        /\ \A x \in ServiceSet : preferred[x] \subseteq preferred'[x]
        /\ \A x \in ServiceSet : preferred'[x] \subseteq BOOLEAN
    BY <2>2, CheckValue DEF RestOK
  <2>4. CheckService(pods'[s]) \in rightly'[s] /\ Has(pods'[s], "app") \in preferred'[s]
    BY <2>2 DEF RestOK
  <2>5. \A x \in ServiceSet \ {s} : pods'[x] = pods[x]
    BY <1>7 DEF PodEvent, RestOK
  <2>6. NowIsRight'
    BY <2>1, <2>3, <2>4, <2>5 DEF Truthful, NowIsRight
  <2>7. \A x \in ServiceSet : IsTrue(x) => IsTrue(x)'
    <3> SUFFICES ASSUME NEW x \in ServiceSet, IsTrue(x) PROVE IsTrue(x)'
      OBVIOUS
    <3>1. CASE readings[x] \in rightly[x]
      BY <2>1, <2>3, <3>1 DEF IsTrue
    <3>2. CASE preferred[x] = BOOLEAN
      <4>1. preferred'[x] = BOOLEAN
        BY <2>3, <3>2
      <4> QED BY <2>1, <4>1 DEF IsTrue
    <3> QED BY <3>1, <3>2 DEF IsTrue
  <2>8. FoundSoFar'
    <3> SUFFICES ASSUME task' = "look", NEW i \in 1..LastPlace, i < place'
                 PROVE  IsTrue(Service(i))'
      BY DEF FoundSoFar, LastPlace
    <3>1. IsTrue(Service(i)) /\ Service(i) \in ServiceSet
      BY <2>1 DEF Truthful, FoundSoFar
    <3> QED BY <2>7, <3>1 DEF IsTrue, Service
  <2>9. ReadingsAreTrue'
    <3> SUFFICES ASSUME task' = "send", NEW x \in ServiceSet PROVE IsTrue(x)'
      BY DEF ReadingsAreTrue, IsTrue
    <3>1. IsTrue(x)
      BY <2>1 DEF Truthful, ReadingsAreTrue, IsTrue
    <3> QED BY <2>7, <3>1
  <2>10. SecondChoice'
    <3>1. Service(place) \in ServiceSet /\ Service(place)' = Service(place)
      BY <2>1 DEF RestOK, Service
    <3> QED BY <2>1, <2>3, <3>1 DEF Truthful, SecondChoice
  <2> QED BY <2>6, <2>8, <2>9, <2>10 DEF Truthful
<1>8. CASE UNCHANGED castaiVars
  BY <1>8 DEF castaiVars, Truthful, NowIsRight, SecondChoice, FoundSoFar, IsTrue,
              ReadingsAreTrue, Service, LastPlace
<1> QED
  BY <1>1, <1>2, <1>3, <1>4, <1>5, <1>6, <1>7, <1>8
  DEF CastaiNext, Monitor, SendGauge, SendGaugeFails

\* Before the first round nothing was read.
LEMMA CastaiStart == CastaiInit => RestOK /\ Truthful
<1> SUFFICES ASSUME CastaiInit PROVE RestOK /\ Truthful
  OBVIOUS
<1>1. RestOK
  <2>1. 1 \in 1..LastPlace
    BY ServiceTypes
  <2>2. DOMAIN pods = ServiceSet
    BY DEF CastaiInit
  <2>3. /\ readings \in [ServiceSet -> ReadingValues]
        /\ rightly \in [ServiceSet -> SUBSET ReadingValues]
        /\ preferred \in [ServiceSet -> SUBSET BOOLEAN]
    BY DEF CastaiInit, ReadingValues
  <2> QED BY <2>1, <2>2, <2>3 DEF CastaiInit, RestOK, Labels
<1>2. Truthful
  BY DEF CastaiInit, Truthful, NowIsRight, SecondChoice, FoundSoFar, ReadingsAreTrue
<1> QED BY <1>1, <1>2

\* The task, its thread, the pods and the gauges keep their shape, and the task is over
\* only after the signal was delivered.
THEOREM CastaiTypes == CastaiSpec => []CastaiTypeOK
<1>1. CastaiInit => RestOK /\ OthersOK
  <2> SUFFICES ASSUME CastaiInit PROVE RestOK /\ OthersOK
    OBVIOUS
  <2>1. RestOK
    BY CastaiStart
  <2>2. \A label \in Labels : <<Ready(label)>> \in Seq(Pods)
    BY DEF Pods, Ready
  <2>3. OthersOK
    BY <2>2, CastaiBounds DEF CastaiInit, OthersOK, ReadingValues
  <2> QED BY <2>1, <2>3
<1>2. RestOK /\ OthersOK /\ [CastaiNext]_castaiVars => (RestOK /\ OthersOK)'
  BY RestStep, OthersStep
<1>3. RestOK /\ OthersOK => CastaiTypeOK
  BY DEF RestOK, OthersOK, CastaiTypeOK, LastPlace
<1> QED BY <1>1, <1>2, <1>3, PTL DEF CastaiSpec

\* However many services there are and whenever their pods change between and within the
\* two list calls of each, what a round sends was right in that round, or belongs to a
\* list call that failed, or to a service that had pods labelled app in one part of the
\* round only (check_all, _find_pods).
THEOREM ReadingsWereTrue == CastaiSpec => []ReadingsAreTrue
<1>1. RestOK /\ Truthful /\ [CastaiNext]_castaiVars => (RestOK /\ Truthful)'
  BY RestStep, TruthStep
<1>2. RestOK /\ Truthful => ReadingsAreTrue
  BY DEF Truthful
<1> QED BY CastaiStart, <1>1, <1>2, PTL DEF CastaiSpec

\* Once the task is cancelled it is over and sends nothing, although its thread may go
\* on (_monitor_loop, the cancellation).
THEOREM NothingOnceOver == CastaiSpec => NoGaugeOnceOver
<1>1. [CastaiNext]_castaiVars
        => [task = "over" => castaiGauge' = castaiGauge /\ task' = "over"]_castaiVars
  BY DEF CastaiNext, Monitor, BeginRound, Check, FoundByApp, NoneByApp, ListByName, Checked, CheckFails, SendGauge,
         SendGaugeFails, Sent, Cancel, Terminate, PodEvent, castaiVars
<1> QED BY <1>1, PTL DEF CastaiSpec, NoGaugeOnceOver

----------------------------------------------------------------------------
(* SyntheticMonitor: types *)

\* What is made of any answer can be a gauge.
LEMMA ReadingTypes ==
  ASSUME NEW c, NEW a PROVE Reading(c, a) \in Gauges
BY DEF Reading, JsonValue, SiteValue, Gauges

\* The type invariant of the synthetic monitor.
LEMMA SyntheticTypesHold == SyntheticSpec => []SyntheticTypeOK
<1>1. SyntheticInit => SyntheticTypeOK
  BY ChecksAssumption DEF SyntheticInit, SyntheticTypeOK, Sources, Places, Answers, Gauges
<1>2. SyntheticTypeOK /\ [SyntheticNext]_syntheticVars => SyntheticTypeOK'
  <2> SUFFICES ASSUME SyntheticTypeOK, [SyntheticNext]_syntheticVars PROVE SyntheticTypeOK'
    OBVIOUS
  <2>1. ASSUME NEW c \in AllChecks, Wake(c) PROVE SyntheticTypeOK'
    BY <2>1, ReadingTypes DEF SyntheticTypeOK, Wake, Places
  <2>2. ASSUME NEW c \in AllChecks, Reply(c) PROVE SyntheticTypeOK'
    BY <2>2, ReadingTypes DEF SyntheticTypeOK, Reply, Places
  <2>3. ASSUME NEW c \in AllChecks, Submit(c) \/ SubmitFails(c) PROVE SyntheticTypeOK'
    BY <2>3, ChecksAssumption DEF SyntheticTypeOK, Submit, SubmitFails, Places
  <2>4. ASSUME NEW c \in AllChecks, Change(c) PROVE SyntheticTypeOK'
    <3>1. PICK a \in Answers : /\ answer' = [answer EXCEPT ![c] = a]
                               /\ possible' = [possible EXCEPT ![c] = @ \cup {Reading(c, a)}]
      BY <2>4 DEF Change
    <3>2. possible' \in [AllChecks -> SUBSET Gauges]
      BY <3>1, ReadingTypes DEF SyntheticTypeOK
    <3> QED BY <2>4, <3>1, <3>2, ChecksAssumption DEF SyntheticTypeOK, Change
  <2>5. CASE Signal
    BY <2>5 DEF SyntheticTypeOK, Signal, Places
  <2>6. CASE UNCHANGED syntheticVars
    BY <2>6 DEF SyntheticTypeOK, syntheticVars
  <2> QED BY <2>1, <2>2, <2>3, <2>4, <2>5, <2>6 DEF SyntheticNext, Step
<1> QED BY <1>1, <1>2, PTL DEF SyntheticSpec

----------------------------------------------------------------------------
(* SyntheticMonitor: gauges *)

\* A check that asks may get what its target answers now.
AskingIsOpen ==
    \A c \in AllChecks : thread[c] = "asking" => Reading(c, answer[c]) \in possible[c]

\* A target that changes while it is asked adds to what is possible.
LEMMA GaugesStep ==
  ASSUME SyntheticTypeOK, AskingIsOpen, GaugesAreTrue, [SyntheticNext]_syntheticVars
  PROVE  AskingIsOpen' /\ GaugesAreTrue'
<1>1. ASSUME NEW c \in AllChecks, Wake(c) PROVE AskingIsOpen' /\ GaugesAreTrue'
  BY <1>1 DEF SyntheticTypeOK, AskingIsOpen, GaugesAreTrue, Wake
<1>2. ASSUME NEW c \in AllChecks, Reply(c) PROVE AskingIsOpen' /\ GaugesAreTrue'
  BY <1>2 DEF SyntheticTypeOK, AskingIsOpen, GaugesAreTrue, Reply
<1>3. ASSUME NEW c \in AllChecks, Submit(c) \/ SubmitFails(c)
      PROVE  AskingIsOpen' /\ GaugesAreTrue'
  BY <1>3 DEF SyntheticTypeOK, AskingIsOpen, GaugesAreTrue, Submit, SubmitFails
<1>4. ASSUME NEW c \in AllChecks, Change(c) PROVE AskingIsOpen' /\ GaugesAreTrue'
  <2>1. PICK a \in Answers : /\ answer' = [answer EXCEPT ![c] = a]
                             /\ possible' = [possible EXCEPT ![c] = @ \cup {Reading(c, a)}]
                             /\ UNCHANGED <<thread, observed>>
    BY <1>4 DEF Change
  <2>2. /\ answer'[c] = a /\ possible'[c] = possible[c] \cup {Reading(c, a)}
        /\ \A d \in AllChecks \ {c} : answer'[d] = answer[d] /\ possible'[d] = possible[d]
    BY <2>1 DEF SyntheticTypeOK
  <2>3. AskingIsOpen'
    BY <2>1, <2>2 DEF AskingIsOpen
  <2>4. GaugesAreTrue'
    BY <2>1, <2>2 DEF GaugesAreTrue
  <2> QED BY <2>3, <2>4
<1>5. CASE Signal
  BY <1>5 DEF SyntheticTypeOK, AskingIsOpen, GaugesAreTrue, Signal
<1>6. CASE UNCHANGED syntheticVars
  BY <1>6 DEF AskingIsOpen, GaugesAreTrue, syntheticVars
<1> QED BY <1>1, <1>2, <1>3, <1>4, <1>5, <1>6 DEF SyntheticNext, Step

\* Whatever targets answer and change to while they are asked, a gauge that is sent was
\* right at some time of the round that sends it (controllers/synthetic_monitor_controller.py).
THEOREM GaugesWereTrue == SyntheticSpec => []GaugesAreTrue
<1>1. SyntheticInit => AskingIsOpen /\ GaugesAreTrue
  BY DEF SyntheticInit, AskingIsOpen, GaugesAreTrue
<1>2. SyntheticTypeOK /\ AskingIsOpen /\ GaugesAreTrue /\ [SyntheticNext]_syntheticVars
        => (AskingIsOpen /\ GaugesAreTrue)'
  BY GaugesStep
<1> QED BY <1>1, <1>2, SyntheticTypesHold, PTL DEF SyntheticSpec
=============================================================================
