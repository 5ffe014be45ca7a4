--------------------------- MODULE OperatorStartup ---------------------------
(***************************************************************************)
(* How a replica of the operator starts: the modules of the controllers    *)
(* are imported, which builds the scorecard controller with its services   *)
(* and the state store, then kopf runs the startup handlers, and serves.   *)
(*                                                                         *)
(* Services are built once by functions under lru_cache, which keeps what  *)
(* they return, None included, but no exception.  An exception while a     *)
(* module is imported ends the process, and the kubelet starts it again.   *)
(***************************************************************************)
EXTENDS Naturals, FiniteSets

CONSTANTS
    Operators,      \* replicas
    MaxBootFaults,  \* bound: how much goes wrong
    MaxWaits,       \* attempts of _wait_for_titlis_api before its deadline
    MaxRemovals     \* bound: how often the ConfigMap is deleted

ASSUME StartupBounds ==
    MaxBootFaults \in Nat /\ MaxWaits \in Nat \ {0} /\ MaxRemovals \in Nat

VARIABLES
    flags,       \* settings
    stateMap,    \* the ConfigMap scorecard-state exists
    apiUp,       \* the health check of the Titlis API succeeds
    boot,        \* boot[r]: replica r
    nameErrors,  \* processes that ended because of the log call in _ensure_cm
    removals,    \* deletions of the ConfigMap
    bootFaults   \* what may still go wrong

startupVars == <<flags, stateMap, apiUp, boot, nameErrors, removals, bootFaults>>

\* slack: off, enabled without credentials, or with; info: LOG_LEVEL is INFO or lower.
Flags == [scorecard : BOOLEAN, slo : BOOLEAN, api : BOOLEAN, datadog : BOOLEAN,
          slack : {"off", "bare", "on"}, info : BOOLEAN]

\* What lru_cache holds: nothing yet, None, or the service.
Cached == {"unbuilt", "none", "built"}

\* sync and async are the two startup handlers.
Replica == [pc : {"import", "readMap", "createMap", "build", "starting", "serving", "stopped"},
            slo : Cached, scorecard : Cached, slack : Cached,
            slackReady : BOOLEAN, slackFailed : BOOLEAN,
            sync : {"due", "failed", "done"}, async : {"due", "waiting", "done"}, waits : Nat]

Unstarted == [pc |-> "import", slo |-> "unbuilt", scorecard |-> "unbuilt", slack |-> "unbuilt",
          slackReady |-> FALSE, slackFailed |-> FALSE,
          sync |-> "due", async |-> "due", waits |-> 0]

StartupTypeOK ==
    /\ flags \in Flags
    /\ stateMap \in BOOLEAN /\ apiUp \in BOOLEAN
    /\ boot \in [Operators -> Replica]
    /\ nameErrors \in Nat /\ removals \in 0..MaxRemovals /\ bootFaults \in 0..MaxBootFaults
    /\ \A r \in Operators :
          /\ boot[r].waits <= MaxWaits
          /\ boot[r].slackReady => boot[r].slack = "built"
          /\ boot[r].pc = "serving" => boot[r].sync = "done" /\ boot[r].async = "done"

StartupInit ==
    /\ flags \in Flags
    /\ stateMap \in BOOLEAN /\ apiUp \in BOOLEAN
    /\ boot = [r \in Operators |-> Unstarted]
    /\ nameErrors = 0 /\ removals = 0
    /\ bootFaults = MaxBootFaults

----------------------------------------------------------------------------
(* Building blocks *)

GoesWrong == bootFaults > 0 /\ bootFaults' = bootFaults - 1

Put(r, replica) == boot' = [boot EXCEPT ![r] = replica]
Enter(r, place) == Put(r, [boot[r] EXCEPT !.pc = place])

\* The process ends and starts anew: what was built is gone.
RestartReplica(r) == Put(r, Unstarted)

startupWorld == <<flags, stateMap, apiUp, removals>>

SlackCached == IF flags.slack = "on" THEN "built" ELSE "none"

----------------------------------------------------------------------------
(* Imports *)

\* main.py; with ENABLE_SCORECARD_CONTROLLER the module that ends with
\* ScorecardController(), whose first services do not fail.
Import(r) ==
    /\ boot[r].pc = "import"
    /\ IF flags.scorecard
       THEN Put(r, [boot[r] EXCEPT !.pc = "readMap", !.slack = SlackCached])
       ELSE Enter(r, "starting")
    /\ UNCHANGED <<startupWorld, nameErrors, bootFaults>>

\* No cluster, no credentials, no connection: not an ApiException.
ImportFails(r) ==
    /\ boot[r].pc \in {"import", "readMap", "createMap"}
    /\ flags.scorecard
    /\ GoesWrong
    /\ RestartReplica(r)
    /\ UNCHANGED <<startupWorld, nameErrors>>

\* KubeStateStore._ensure_cm, with the read.  An ApiException that is no 404 is logged.
ReadMap(r) ==
    /\ boot[r].pc = "readMap"
    /\ \/ Enter(r, IF stateMap THEN "build" ELSE "createMap") /\ UNCHANGED bootFaults
       \/ Enter(r, "build") /\ GoesWrong
    /\ UNCHANGED <<startupWorld, nameErrors>>

\* Mutant: whoever finds the ConfigMap missing logs it.
CreateMapOrAny(r) ==
    /\ boot[r].pc = "createMap"
    /\ stateMap' = TRUE
    /\ IF flags.info
       THEN RestartReplica(r) /\ nameErrors' = nameErrors + 1
       ELSE Enter(r, "build") /\ UNCHANGED nameErrors
    /\ UNCHANGED <<flags, apiUp, removals, bootFaults>>

\* With the create.  Once it succeeded, the message is refused by the logging module:
\* its extra has a key called name.  A message that is not enabled is not made.
CreateMap(r) ==
    /\ boot[r].pc = "createMap"
    /\ IF stateMap
       THEN Enter(r, "build") /\ UNCHANGED <<stateMap, nameErrors>>
       ELSE /\ stateMap' = TRUE
            /\ IF flags.info
               THEN RestartReplica(r) /\ nameErrors' = nameErrors + 1
               ELSE Enter(r, "build") /\ UNCHANGED nameErrors
    /\ UNCHANGED <<flags, apiUp, removals, bootFaults>>

\* It is refused: the service does without.
CreateMapRefused(r) ==
    /\ boot[r].pc = "createMap"
    /\ Enter(r, "build") /\ GoesWrong
    /\ UNCHANGED <<startupWorld, nameErrors>>

\* The rest of ScorecardService and of ScorecardController.
Build(r) ==
    /\ boot[r].pc = "build"
    /\ Put(r, [boot[r] EXCEPT !.pc = "starting", !.scorecard = "built"])
    /\ UNCHANGED <<startupWorld, nameErrors, bootFaults>>

----------------------------------------------------------------------------
(* kopf's startup handlers *)

\* get_slo_service: None without credentials.
SloCached == IF flags.datadog THEN "built" ELSE "none"

\* Mutant: the error is a permanent one.
StartupOnce(r) == boot[r].sync = "due"

\* kopf comes back to a handler that failed once the others are done.
StartupIsDue(r) ==
    \/ boot[r].sync = "due"
    \/ boot[r].sync = "failed" /\ boot[r].async = "done"

Startup(r) ==
    /\ boot[r].pc = "starting"
    /\ StartupIsDue(r)
    /\ Put(r, [boot[r] EXCEPT !.sync = "done", !.slack = SlackCached,
                              !.slo = IF flags.slo THEN SloCached ELSE @])
    /\ UNCHANGED <<startupWorld, nameErrors, bootFaults>>

\* Mutant: the error is logged and that is that.
StartupAnyway(r) ==
    /\ boot[r].pc = "starting" /\ boot[r].sync # "done"
    /\ flags.slo /\ flags.datadog /\ boot[r].slo = "unbuilt"
    /\ Put(r, [boot[r] EXCEPT !.sync = "done"])
    /\ GoesWrong
    /\ UNCHANGED <<startupWorld, nameErrors>>

\* The Datadog repository cannot be built: TemporaryError, again after 30 seconds.
StartupFails(r) ==
    /\ boot[r].pc = "starting"
    /\ StartupIsDue(r)
    /\ flags.slo /\ flags.datadog /\ boot[r].slo = "unbuilt"
    /\ Put(r, [boot[r] EXCEPT !.sync = "failed"])
    /\ GoesWrong
    /\ UNCHANGED <<startupWorld, nameErrors>>

\* startup_async, once startup was tried.
StartupAsync(r) ==
    /\ boot[r].pc = "starting" /\ boot[r].sync # "due" /\ boot[r].async = "due"
    /\ Put(r, [boot[r] EXCEPT !.async = "waiting"])
    /\ UNCHANGED <<startupWorld, nameErrors, bootFaults>>

\* _wait_for_titlis_api: another attempt that fails.
WaitForApi(r) ==
    /\ boot[r].async = "waiting" /\ flags.api /\ ~apiUp
    /\ boot[r].waits < MaxWaits
    /\ Put(r, [boot[r] EXCEPT !.waits = @ + 1])
    /\ UNCHANGED <<startupWorld, nameErrors, bootFaults>>

WaitIsOver(r) ==
    /\ boot[r].async = "waiting"
    /\ ~flags.api \/ apiUp \/ boot[r].waits = MaxWaits

\* initialize_slack_service; what its test message becomes changes nothing.
InitializeSlack(r) ==
    /\ WaitIsOver(r)
    /\ Put(r, [boot[r] EXCEPT !.async = "done", !.slack = SlackCached,
                              !.slackReady = (SlackCached = "built")])
    /\ UNCHANGED <<startupWorld, nameErrors, bootFaults>>

\* The clients of Slack cannot be built: logged, and not tried again.
InitializeSlackFails(r) ==
    /\ WaitIsOver(r) /\ SlackCached = "built"
    /\ Put(r, [boot[r] EXCEPT !.async = "done", !.slack = "built", !.slackFailed = TRUE])
    /\ GoesWrong
    /\ UNCHANGED <<startupWorld, nameErrors>>

Serve(r) ==
    /\ boot[r].pc = "starting" /\ boot[r].sync = "done" /\ boot[r].async = "done"
    /\ Enter(r, "serving")
    /\ UNCHANGED <<startupWorld, nameErrors, bootFaults>>

\* cleanup: shutdown_slack_service.
Cleanup(r) ==
    /\ boot[r].pc = "serving"
    /\ Put(r, [boot[r] EXCEPT !.pc = "stopped", !.slackReady = FALSE])
    /\ UNCHANGED <<startupWorld, nameErrors, bootFaults>>

----------------------------------------------------------------------------
(* The cluster *)

RemoveMap ==
    /\ stateMap /\ removals < MaxRemovals
    /\ stateMap' = FALSE /\ removals' = removals + 1
    /\ UNCHANGED <<flags, apiUp, boot, nameErrors, bootFaults>>

ApiChanges ==
    /\ GoesWrong
    /\ apiUp' = ~apiUp
    /\ UNCHANGED <<flags, stateMap, boot, nameErrors, removals>>

Boot(r) ==
    \/ Import(r) \/ ReadMap(r) \/ CreateMap(r) \/ Build(r)
    \/ Startup(r) \/ StartupAsync(r) \/ WaitForApi(r) \/ InitializeSlack(r) \/ Serve(r)
Failing(r) ==
    \/ ImportFails(r) \/ CreateMapRefused(r) \/ StartupFails(r) \/ InitializeSlackFails(r)

StartupNext ==
    \/ \E r \in Operators : \/ Boot(r) \/ Failing(r) \/ Cleanup(r)
    \/ RemoveMap \/ ApiChanges

StartupSpec == StartupInit /\ [][StartupNext]_startupVars

\* The kubelet and kopf go on; nothing obliges the calls to fail.
StartupFairness == \A r \in Operators : WF_startupVars(Boot(r))
FairStartupSpec == StartupSpec /\ StartupFairness

----------------------------------------------------------------------------
(* Properties *)

\* Every replica serves in the end, although the first one to create the ConfigMap
\* fails for it, and whether or not the Titlis API ever answers.
ServesAtLast == \A r \in Operators : []<>(boot[r].pc \in {"serving", "stopped"})

\* One process is lost per ConfigMap that is missing, however many replicas find it
\* missing at the same time.
OneLossPerMap == nameErrors <= 1 + removals

\* A replica that serves has the services its settings ask for: what lru_cache keeps
\* is not the outcome of a failure.  Its messages reach Slack as well, unless building
\* the clients of Slack failed: that the Titlis API did not answer in time is no reason.
ServingIsEquipped ==
    \A r \in Operators :
        boot[r].pc = "serving" =>
            /\ flags.scorecard => boot[r].scorecard = "built"
            /\ flags.slo /\ flags.datadog => boot[r].slo = "built"
            /\ flags.slack = "on" => boot[r].slackReady \/ boot[r].slackFailed
=============================================================================
