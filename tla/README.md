# Verification of titlis-operator

TLA+ models of the operator in `src/`, TLC configurations that check them on
small instances, and TLAPS proofs of what holds for every instance.

## 1. The system

titlis-operator is a kopf operator (Python, asyncio) that runs inside a
Kubernetes cluster. One process has one event loop; every kopf handler and every
background task runs on it, and most I/O (Datadog, Kubernetes, urllib) is
*synchronous*, so a handler holds the loop until its first `await`.

| Part | State it keeps | Operations | Talks to |
|---|---|---|---|
| SLO controller (`controllers/slo_controller.py`, `controllers/base.py`) | none of its own | create / update / delete handler of SLOConfig | SLOService, status writer, Slack, Titlis API |
| SLOService (`application/services/slo_service.py`) | none | `reconcile_slo` with its paths A, B, C | Datadog repository |
| Datadog repository, managers, client (`infrastructure/datadog/`) | none; SLOs live in Datadog | search, create (retried), update (not retried), catalogue lookup | Datadog |
| KubernetesStatusWriter (`infrastructure/kubernetes/k8s_status_writer.py`) | none; status lives in the SLOConfig | read, replace, up to three attempts | Kubernetes API |
| Pending changes loop (`controllers/slo_pending_changes_controller.py`) and Titlis API client (`infrastructure/titlis_api/udp_client.py`) | one background task; the queue of changes lives in the Titlis API | poll, patch SLOConfig, confirm applied / failed | Titlis API, Kubernetes API (and so the SLO controller) |
| Scorecard controller (`controllers/scorecard_controller.py`) | none of its own | create / update / resume handler of Deployments | ScorecardService, AppScorecardWriter, buffer, Slack; creates and touches SLOConfigs |
| ScorecardService (`application/services/scorecard_service.py`) | rules and thresholds as loaded at the start, last scorecard per workload (TTL) | load the configuration, evaluate, score, should_notify | Kubernetes API |
| AppScorecardWriter (`infrastructure/kubernetes/appscorecard_writer.py`) | none; AppScorecard objects | upsert, update_notification | Kubernetes API |
| Namespace notification buffer (`application/services/namespace_notification_buffer.py`) | scorecards not yet sent, last flush time, per namespace | add, flush when due | Slack via the scorecard controller |
| Slack (`infrastructure/slack/`, `application/services/slack_service.py`) | message counters, window start, HTTP session | initialize, send (webhook or bot), shutdown | Slack |
| Enrichers (`application/services/scorecard_enricher.py`, `infrastructure/backstage`, `infrastructure/castai/cost_enricher.py`) | TTL caches | none: nothing calls them | |
| Kubernetes state store (`infrastructure/kubernetes/state_store.py`) | the ConfigMap scorecard-state | make sure it exists; get and set are never reached | Kubernetes API |
| CAST AI monitor (`main_castai.py`, `controllers/castai_monitor_controller.py`, `infrastructure/kubernetes/castai_health.py`) | a process of its own: one task, one thread | check the pods of each service, send a gauge, stop on a signal | Kubernetes API, Datadog |
| Synthetic monitor (`main_synthetic.py`, `controllers/synthetic_monitor_controller.py`, `infrastructure/synthetic/`) | a process of its own: one thread per check | ask the target, send a gauge, stop on a signal | web sites, Datadog |
| Bootstrap (`main.py`, `bootstrap/dependencies.py`, `settings.py`) | singletons under `lru_cache` | imports, startup handlers, cleanup | all |

What is hard here, part by part:

* **SLO reconciliation** has no transaction: the SLO is created in Datadog and
  its id is written to the status by a second call. A crash, a failed or lost
  call, a conflict, a stale search or a second process can come between. Search
  errors read as "nothing found", the retry layer repeats POSTs, the status
  writer gives up after three conflicts, and exceptions that kopf should see are
  caught by the handler. *Correct* means: one SLO per SLOConfig, statuses that
  are true and name the resource's own SLO, and convergence once faults stop.
* **Pending changes** are applied by patch and confirmed by a second call: the
  confirmation can be lost, and the user can edit the resource in between.
* **Scorecards and digests**: the buffer is emptied before the digest is sent;
  limits and cooldowns are kept in memory and are gone after a restart; two
  writers touch the status of an AppScorecard.
* **Scores** are fractions over rules that a file may override, of pillars that may be
  absent or weigh nothing, cached at the end of an evaluation that takes its time; two
  functions with thresholds of their own decide whether somebody is told and how urgently.
* **Starting** has side effects while modules are imported, cached constructors that
  keep whatever they returned, two startup handlers that wait, fail and are repeated, and
  replicas that start together and share a ConfigMap.
* **Monitors** mix threads and an event loop: a signal, a slow target or a failing call
  must stop neither the other checks nor the end of the process.

How the parts meet: the pending changes loop and the scorecard controller write
SLOConfigs, kopf turns these writes into events of the SLO controller; the SLO and
scorecard controllers send through the one Slack repository, whose limiter they
share; everything posts events to the Titlis API, which only the pending changes loop
reads from. Each pair meets at an interface that the models keep open: to
`SLOReconciler` the other writers are `EditSpec` and `ForeignWrite`, to `NamespaceDigest`
Slack is a call that takes time and may fail, to `SlackDelivery` the senders are
messages that come at any time.

What makes each part correct, in one line:

| Part | Correct means |
|---|---|
| SLO reconciliation | one SLO per SLOConfig, statuses that are true and name the resource's own SLO, convergence once faults stop |
| Pending changes | "applied" is true, everything is settled, what is settled stays over, newer changes win |
| Slack | the rate is respected and sending resumes, the result says what is in Slack |
| Digests | at most one per interval, the latest scorecard of every app gets out |
| Scorecards | the AppScorecard reaches the scores of the current Deployment; one automatic SLOConfig per Deployment |
| Scores | between 0 and 100, full marks only for what passes, monotone, recent; alarms that do not contradict each other |
| Bootstrap | every replica serves in the end, with what its settings ask for; a fault in one costs at most one restart |
| Monitors | a gauge was true in the round that sends it, follows the world whatever failed, and a signal ends the process |

`PROJECT.json` lists these hazards at the line where they bite, with the property that
watches each.

## 2. Modules

| Module | Models |
|---|---|
| `SLOContract` | what the SLO half promises: one SLO per SLOConfig, one id for its life, only forward through the versions of the spec |
| `SLOReconciler` | the SLO controller, SLOService, the Datadog calls and the status writer, together with kopf's event delivery, the API server, Datadog, users, crashes and a second process |
| `PendingChanges` | the pending changes loop and the calls of the Titlis API client it makes, together with the people who request changes and those who edit the same SLOConfigs |
| `SlackDelivery` | the Slack repository: limiter, reset task, webhook and bot |
| `ScorecardEvents` | what the scorecard controller does for an event of a Deployment: evaluation with its cache, AppScorecard, automatic SLOConfig, notification mark; with kopf, the API server, the garbage collector and users around it |
| `NamespaceDigest` | the namespace notification buffer and the handlers that fill and flush it |
| `Scoring` | ScorecardService: rules, configuration file, verdicts, scores, evaluation with its cache, and the decisions that follow |
| `OperatorStartup` | imports, cached constructors, startup handlers and cleanup of the replicas, with the state store's ConfigMap |
| `CastaiMonitor` | the CAST AI monitor: task, thread, gauges, signal |
| `SyntheticMonitor` | the synthetic monitor: configuration, threads, both kinds of check, gauges, signal |
| `MC...` | the instances TLC checks; `MCParts` puts the parts that share no state into one run |
| `...Proofs` | the theorems: `SLOReconcilerProofs` and `SLOProgressProofs` about the SLO half, `PendingChangesProofs`, `ScorecardEventsProofs`, `ScoringProofs`, `SlackProofs` about the Slack repository and the digests, `OperatorProofs` about the start and both monitors, `PartsProofs` about their product |

### SLOReconciler

*One action is one external call.* Between two calls of a handler the world may
move (users, Datadog's console, crashes, another process); inside one process no
other handler can, because the code is synchronous until it awaits Slack. `h[p]`
is the frame of the handler that holds the loop of process `p`: the step it is
at, its snapshot of spec and `slo_id`, the id it works on, the attempt it is in.
When the status is written (or given up) the handler reaches its await and moves
to `finishing[p][c]`; `Finish` is kopf recording the snapshot's essence in the
last-handled annotation, which kopf does however the handler fared, since the
handler swallows its exceptions.

| Code | Model |
|---|---|
| `on_slo_config_change` up to `reconcile_slo` | `IgnoreExcluded`, `BeginHandler` |
| `get_service_definition` with its two list calls, the catalogue check | `Lookup`, `ChooseFramework`, `ChoosePath` |
| `_detect_framework`, `detect_trace_framework` | `Detect` |
| path B, `find_slo_by_tags` | `FindByUid` |
| path C, `get_service_slos`, `check_and_update_existing_slo`, `_compare_slo_parameters` | `FindByService` |
| `update_slo_apps` | `Update` |
| `create_slo` under `execute_with_retry` | `Create`, `RetryCreate` |
| `search_slos` under `execute_with_retry` | `SearchFailed`, `Retry` |
| `KubernetesStatusWriter.update`, `_update_status`, `_update_status_with_error` | `Bearers`, `GetCR`, `PutStatus`, `Conflict`, `StatusFailed` |
| kopf | `SameText`, `OnRecord`, `Changed`, `Deliver`, `IgnoreEvent`, `HandleDelete`, `Finish`, `Crash` |
| users, other clients, Datadog | `CreateCR`, `EditSpec`, `DeleteCR`, `ForeignWrite`, `RemoveSLO`, `Reindex` |

Decisions worth knowing:

* An SLOConfig object is its uid; a recreated resource is another element of
  `Configs`, which may have the same name (`Named`). `Declares[c]` says which services
  its spec may name, so "two resources share a service" is a choice of the instance.
* The status writer, and kopf's patches, address a resource by namespace and name and
  compare no uid: they find whoever has the name now (`Bearers`), which may be a successor.
* A spec is a service and a content; its version `gen` is a ghost that only properties
  read. kopf compares the *text* of a body with the one it recorded as handled
  (`SameText`, `OnRecord`), and no handler is registered for a resume. So an edit back to
  the text on record calls no handler, also when a version in between was applied and
  not recorded: because the process crashed, or because its handler was still at work and
  met a conflict at each attempt to write the status. `Reverted` is that case; `Converges` excepts it,
  `HandledMeansInSync` does not speak of it, and the run `SLOReverts` shows what it leaves behind.
* `Compared[k]` is the part of content `k` that `_compare_slo_parameters` looks at, and
  `Detects` the contents that leave the framework to be detected. Which framework is
  detected belongs to the query, so `Detect` has the calls (the catalogue again, then four probes, each
  with its retries) and not their result; none of them can raise out of it.
* A search is tried up to four times (`SearchFailed`), and its last failure reads as "none
  found". A failing call spends its fault each time.
* `news` / `inbox` model the watch stream: a process receives the object as it is
  when the event reaches it, then works on that copy; newer events supersede
  unprocessed older ones.
* `current` is optimistic concurrency: a process is in it while the copy it read
  has the latest resourceVersion.
* A PUT replaces every tag, so it changes which resource an SLO is tagged with.
* Deleting an SLOConfig leaves the SLO in Datadog, as `on_slo_delete` says.
* Faults are budgeted per kind (`Budget`): `crash`, `lookup`, `search`, `update`,
  `create` (the call fails without effect), `lost` (it takes effect and the reply is
  lost), `kube` (a Kubernetes call fails), `conflict` (another client writes),
  `removal` (the user deletes), `wipe` (the SLO is deleted in Datadog).

### PendingChanges

A change asks for one value of one field of one SLOConfig (`asked`), and the Titlis
API knows it as pending, applied or failed (`state`). `loop[p]` is the frame of the loop of
process `p`: the changes of the last reply that are still to come and the one in
hand. `writer` and `patched` record who wrote a field last and which changes have
taken effect; only properties read them.

| Code | Model |
|---|---|
| `_pending_changes_loop`, `apply_pending_slo_changes` | `Round`, `Upcoming`, `Proceed` |
| `get_pending_slo_changes` | `Fetch` |
| `_apply_single_change` up to the confirmation, `_coerce_field_value` | `TakeUp`, `Coercible`, `Patch` |
| `confirm_slo_change_applied`, `confirm_slo_change_failed` | `Confirm` |
| people, the API server, the pod | `Request`, `Edit`, `Delete`, `Write`, `Crash` |

The patch is synchronous and the confirmation is awaited, so the world moves between
them and between two changes of a round. `_apply_single_change` has one `except` for
everything: a value that is no number, a missing SLOConfig, a failed call and a
lost reply all confirm the change as failed. The result of a confirmation is looked at
by nobody, so a lost request and a lost reply differ only in `state`. The order of the
API's list is not in this repository; `OldestFirst` is the assumption under which order
matters, and only `NewestWins` uses it.

### SlackDelivery

`count`, `resets` and `msg[m]` are `_message_count`, the sleeping `_reset_message_count`
tasks, and where the coroutine of message `m` is. `send_notification` runs without an
await up to the first post, so passing the limiter is one step (`Pass`) and so is each
answer of Slack (`Post`, `Fail`). `begun` records when messages passed; `posted` records
what is seen in Slack. A failed initialisation is a `ready` that is false.

| Code | Model |
|---|---|
| `_should_send`, the refusal | `ShouldSend`, `Refuse` |
| counter and task in `send_notification` | `Count`, `Pass` |
| `_reset_message_count` | `Reset` |
| webhook, then bot | `FirstWay`, `Post`, `Fail`, `FallOn` |

### ScorecardEvents

The handlers of two Deployments interleave in two ways. `evaluate_resource` and `upsert` run
on threads of the executor (`ThreadSteps`), each of their calls a step of its own. The rest runs
on the event loop: from the end of the upsert to the await of Slack, and from Slack's answer
to the end, the handler holds it (`loop`), and its blocking calls (`LoopSteps`) interleave
only with threads, users and the cluster. `h[a]` is the frame: the `body` of the event, the
scorecard `sc`, the `copy` that was read and will be written back, and what is left of the `digest`.

A scorecard is the version it evaluated, and a status the version of the scorecard in it;
both also tell whether OPS-001 passed, since that decides on the SLOConfig. `Evaluate` reads the
Deployment as it is, not as the event has it. The `touched` of a SLOConfig is
its annotation; `source` and `sourceUid` are its labels. A Deployment's `uid` changes when it
is recreated, which is what ownerReferences and the search for its SLOConfig look at.

| Code | Model |
|---|---|
| kopf handlers, the event up to the evaluation | `EventDue`, `Start`, `Bury` |
| `evaluate_resource`, `_get_resource`, `_cache_ttl` | `Evaluate`, `EvaluateFails`, `Expire` |
| `upsert`, `_update`, `_create` | `GetCard`, `ReplaceCard`, `GetAgain`, `PutStatus`, `CreateCard`, `UpsertFails` |
| `_maybe_auto_create_slo`, `_find_sloconfig_by_source_uid`, `_touch_sloconfig`, `_apply_sloconfig` | `SkipSLO`, `FindConfig`, `FindFails`, `TouchConfig`, `ApplyConfig`, `ConfigFails` |
| a log call that raises in `_touch_sloconfig` | `Abandon` |
| `should_notify`, the buffer, `_send_namespace_digest` | `Notify`, `SlackAnswers` |
| `update_notification` | `MarkGet`, `MarkPut`, `MarkFails` |
| the call to the Titlis API and the return | `Finish` |
| users, the cluster, the pod | `Deploy`, `Edit`, `Delete`, `CollectGarbage`, `RemoveConfig`, `Crash` |

`debug` is LOG_LEVEL at DEBUG, the default of settings.py:132. `_touch_sloconfig` logs with an
extra key, `name`, that the logging module refuses, the same mistake as in state_store.py:37. At DEBUG the
log call after the patch raises; at any level the one in its `except` clause does, so that a patch that
fails raises as well. Either way the handler ends in the outer `except` of `on_resource_event`, without
`should_notify`, digest and Titlis API (`Abandon`, run `ScorecardNotices`).

When the buffer is flushed is a choice here: `NamespaceDigest` has the clock, the marks and
what a digest shows, and no AppScorecards; the two modules meet in `Notify`.

### NamespaceDigest

`buffer` and `lastSent` are the buffer's two dictionaries, `h[a]` the handler of Deployment
`a` while it awaits Slack. `Notify` is everything between the evaluation and that
await: `should_notify` said yes, `add_and_maybe_flush` added and possibly flushed.
`noted`, `shown`, `cut` and `flushes` are history for the properties. A scorecard is its number; the
evaluation may return the one it has cached. A handler that `ScorecardEvents` abandons does not come here.

`_format_namespace_digest` cuts its text at 3000 characters, and `_send_namespace_digest` counts all
its scorecards as sent. `Room` is how many apps fit however long their lines are; a digest of more shows some set
of at least `Room` of its apps (`Lines`), and what is left out goes to `cut`. Which apps come first, and
how long a line is, is data.

| Code | Model |
|---|---|
| `_should_flush`, `_flush`, `add_and_maybe_flush` | `ShouldFlush`, `OfNamespace`, `Without`, `AddAndMaybeFlush` |
| the notification part of `on_resource_event` | `Notify` |
| `_send_namespace_digest`, `_format_namespace_digest` | `Members`, `Lines`, `Arrives`, `Deliver`, `Lose` |

### Scoring

`eval` is the evaluation that runs, `fresh` the cached scorecard, `told` what the last step
returned. The workload is read once (`ReadWork`), and every verdict follows from that read;
the evaluation ends some time later (`Conclude`), because for every rule the code lists HPAs and
network policies, and users edit in between. A workload is known by the fields that
are set and by what rules ask of the others; a score is a fraction, exact where the code
has floats. `Weight`, `Product` and `Overall` are sums and products of functions (`SumFunction`,
`FoldFunction`), not recursive operators, so that they can be proved about.

| Code | Model |
|---|---|
| `_get_default_rules` | `ResilienceRules`, `SecurityRules`, `ScalingRules`, `RigidRules`, `OperationalRules` |
| `_load_config`, `_parse_config` | `Loaded`, `Overridden`, `Conf` |
| `_extract_value_from_resource` | `Path`, `Spelled`, `OfPath`, `Value` |
| `_validate_generic`, `_detect_criticality` | `Passes`, `InRange`, `Applies`, `Applicable` |
| `_calculate_pillar_scores`, `_calculate_overall_score` | `PillarScore`, `PillarWeight`, `Overall` |
| `should_notify`; severity in `_format_namespace_digest` | `ShouldNotify`, `Severity` |
| `evaluate_resource` | `UseCache`, `ReadWork`, `Conclude` |

What the translation brings to light:

* Ten rules look at something that is no path: the HPA, the network policies, the limits. Their
  entries of `rule_paths` hold the result of a call, which is neither a function nor a string, so that
  `_extract_value_from_resource` returns None and they never pass (`Value`, run
  `ScoresReadme`). The calls are made for every rule, whichever it is, and cost only time.
* The paths of eight rules are spelled as in a manifest and looked up in `to_dict()`,
  which spells them differently: they never pass either (`Spelled`, the same run).
* So no Deployment gets more than 37 points with the default rules and thresholds, and every
  message about one is critical.
* A rule added by the file has no path and never passes; the "rigid" rules apply to a criticality
  that `_detect_criticality` never returns; a malformed file leaves the overrides before
  the error in force, because the default rules are changed in place.
* README.md:868-872 calls 65.0 the limit of a critical message: the file decides whether a
  message is due, its severity goes by constants (scorecard_controller.py:466), and
  `get_notification_severity` and `get_validation_summary` are never called.

### OperatorStartup

`boot[r]` is a replica: where it is (`pc`), what `lru_cache` keeps of each service
(`"unbuilt"`, `"none"` for None, or `"built"`), how far the two startup handlers are. An
import that raises ends the process and the kubelet starts it anew (`RestartReplica`);
`startup` raises a TemporaryError and kopf repeats it once the other handler is done.

| Code | Model |
|---|---|
| imports of `main`, `ScorecardController.__init__` | `Import`, `ImportFails`, `Build` |
| `KubeStateStore._ensure_cm` | `ReadMap`, `CreateMap`, `CreateMapRefused` |
| `startup`, `startup_async`, `_wait_for_titlis_api` | `Startup`, `StartupFails`, `StartupAsync`, `WaitForApi`, `WaitIsOver` |
| `initialize_slack_service`, `cleanup` | `InitializeSlack`, `InitializeSlackFails`, `Cleanup` |

The log call after the ConfigMap was created has a key, `name`, that the logging module
refuses (state_store.py:37): with LOG_LEVEL at INFO or lower the first process to create
it ends with a KeyError, after the create took effect. `OneLossPerMap` says that this
costs one process, `ServesAtLast` that it does no more.

### CastaiMonitor and SyntheticMonitor

In `CastaiMonitor` the task sleeps, looks (its thread runs `check_all`, `worker`), sends (on the
loop itself, so no signal comes between) or is over. A signal is delivered where the task awaits; its
thread goes on. `_find_pods` lists the pods of a service by the label `app` and, if there are none, by
`app.kubernetes.io/name`: two calls and two steps (`selector`), between which pods may change.
`rightly[s]` is what would have been a right answer for service `s` at some time of the
round, and `preferred[s]` whether it had pods labelled `app`; only properties read them. A service that
is moved from one label to the other within a round may be reported as down although a healthy pod was
there all the time, so `ReadingsAreTrue` excepts the services that had pods labelled `app` in one
part of the round only.

In `SyntheticMonitor` each check has a thread that sleeps, asks and sends; `answer[c]` is what its
target does with a request, trickling for ever included, since httpx bounds the time between
bytes and not that of a request. `possible[c]` plays the part of `rightly`.

| Code | Model |
|---|---|
| `run_castai_health_check`, `check_all`, `_check_service` | `BeginRound`, `Check`, `CheckFails`, `Checked` |
| `_find_pods`, `_evaluate_pod` | `FoundByApp`, `NoneByApp`, `ListByName`, `Healthy`; `CheckService` is the right answer |
| `send_all`, `send_pod_health` | `SendGauge`, `SendGaugeFails` |
| `_monitor_loop`, `_stop` | `Cancel`, `Terminate` |
| `_load_checks_config`, `_check_loop` | `Configured`, `Wake`, `Reading` |
| the checkers, the senders of gauges | `SiteValue`, `JsonValue`, `Reply`, `Submit`, `SubmitFails` |
| `_handle_signal` | `Signal` |

## 3. Runs

The type invariants of `PendingChanges` and `ScorecardEvents` are in no run: they are
theorems, and what TLC could say of an instance is part of them.
Deadlock checking is off in every run: a quiet cluster rightly does nothing, and a
bounded clock stops.

### SLO reconciliation (`MCSLOReconciler`)

| Run | Instance | Shows |
|---|---|---|
| `SLOReliable` | 1 resource, 2 services, valid content whose framework is detected, invalid content, 3 versions, one fault each of crash, update, create, kube, and two of lookup | `TypeOK`, `AtMostOneSLO`, `OkMeansInSync`, `HandlersEnd`; `SLOReconciler` implements `SLOContract` (`KeepsContract`) |
| `SLOShared` | 2 resources, one service, deletion and console removal | `AtMostOnePerService` |
| `SLOOwnership` | 2 resources with services of their own, lagging and failing search, crash, lost reply, failed Kubernetes calls | `StatusRefersToOwnSLO` |
| `SLOConverges` | 2 resources, one of them excluded, one with 3 versions of two texts, crash, conflict, deletion, fairness | `HandledMeansInSync`, `NoEditLost`, `Converges`, `EveryEditHandled` |

`Converges` and `EveryEditHandled` each have a safety half, which says that nothing is lost
before fairness has to bring it on. `NoEditLost`: until the text of a resource is the one on
record, its latest version is in the watch stream, in a queue or in a handler. `HandlersEnd`: every call leaves a handler with fewer calls
to make, so that it returns to kopf. `HandledMeansInSync`: kopf calls no handler again
for the version it has recorded, so that one must already be in Datadog and in the status.

Three runs end in a violation; each contradicts a sentence of the repository:

| Run | What happens | What the repository says |
|---|---|---|
| `SLORollout` | two processes overlap in a rolling update, no fault at all: both search, both create, second SLO | docs/ia-evolucoes-executivo.md:142, an SLO is never created twice, even after restarts; README.md:48 on leader election |
| `SLOCompare` | path C reports an SLO with another query as in sync | README.md:442, a difference leads to an update |
| `SLOReverts` | text A is on record, an edit to B gets as far as the PUT, the process crashes, the user goes back to A: kopf sees no difference, and Datadog stays at B | README.md:43, an SLOConfig becomes the SLO automatically; README.md:422-442, an edit that differs leads to an update |

The same model shows two more ways to a second SLO, each of which
`NoDuplicates` below excludes by an assumption: a crash after the create followed by one
failing search (`crash` and `search` in the budget), and a lost reply to the POST, which
`execute_with_retry` repeats (`lost`). Three observations have no run. The status is written by
name: with two processes (README.md:48 promises a leader election that no code does) and a name used
again, the one that is late with the deleted SLOConfig writes its SLO id into the status of the new one,
which `StatusIsOwn` below excludes by an assumption. With a third 409 in
a row the status writer returns as if it had written; the comment at
k8s_status_writer.py:59 leaves the retry to kopf, which has a successful handler before it. And the
successor of a deleted SLOConfig adopts its SLO through path C, and when nothing differs
it returns without a PUT, so that the SLO keeps the uid tag of the deleted resource
(docs/ia-evolucoes-executivo.md:150 says path C writes the tag).

**Bounds.** `MaxGen` (versions of a spec), `Edited` (the resources whose spec users edit), `Budget`
(faults of a kind) and `SloIds` are the only bounds. Three versions (`SLOReliable`) let a version be
skipped while another is being handled and a third arrives; with two texts (`SLOConverges`) they are a
text, an edit and its revert, around a crash or within a handler that is still at work;
`SLOOwnership` trades versions for two resources and more faults, and has one version each. The
excluded resource of `SLOConverges` keeps its spec (`Edited`): it is created, written by others and deleted.
One fault of each kind reaches every error branch and their combinations. A conflict and two edits within
one handler make three stale writes, the first number that the status writer does not survive. `SloIds` has one id more than the runs that pass can use up, so
that `Create` is never disabled by the bound. Faults that a run does not list have budget 0 in it: a failing
search and a lost reply are in `SLOOwnership` only, because with them a second SLO is possible. Contents matter only through validity and
`Compared`, so two are enough.

**Fairness.** `Fairness` says a live process keeps running: synchronous handler
code runs to its end (every call returns or fails; retries are counted), kopf
delivers what it has received and starts the handler of every object, an await ends,
the search index catches up. Nothing is assumed of users, other clients, faults or
crashes; they are only bounded.

### Scorecard events (`MCScorecardEvents`)

| Run | Instance | Shows |
|---|---|---|
| `ScorecardEvents` | 2 Deployments of one service, 2 services, six mixes of edits and faults, fairness | `OneConfigPerDeployment`, `HandledMeansCarded`, `NeverBackwards`, `EveryAppGetsACard`, `ScoresFollow` |
| `ScorecardNotices` | 2 Deployments, one edit, no fault | violates README.md:264-267 (`EvaluatedMeansWeighed`): at the second event of a Deployment that has its SLOConfig, the log call of `_touch_sloconfig` raises, and nobody decides on a notification |

`Budgets` is a set of budgets of which each behaviour has one, so that one run covers
several small worlds: `Neighbours` (two handlers that interleave), `Restarted`, `Recreated`,
`Relabelled` with a failing search, `Removed`, `Refused` (failing calls). Everything at once would be
out of reach and adds nothing the pairs do not show. The properties say where the code's
promise ends. `OneConfigPerDeployment` holds until a search fails. `HandledMeansCarded` and
`EveryAppGetsACard` speak of the first Deployment of a name: the AppScorecard of a recreated one keeps the old
ownerReferences, so an event that updates it may be followed by its garbage collection.
`ScoresFollow` excepts an upsert that lost its race (`lost`: a conflict is logged and never
repeated), and an event that met a cached evaluation: with the cache still young, the new
version is not evaluated until another event comes.

An observation without a run: `_create` sends the scores in the body of the create call, but the CRD
declares the status subresource (appscorecards.titlis.io.yaml:41), so the API server drops them
(`CreateCard`), and the AppScorecard that README.md:755 describes has no scores until the next event.

Fairness: the process runs, and each of its calls returns or fails (`Program`). Nothing is
assumed of users, of the garbage collector, of the TTL.

### Pending changes (`MCPendingChanges`)

| Run | Instance | Shows |
|---|---|---|
| `Pending` | 3 changes of one field, oldest first, the process that runs (`Main`) and one that a rollout adds for a round, an edit, a deletion, a crash, one fault of each kind, fairness | `AppliedMeansPatched`, `EverySettled`, `SettledIsOver`, `NewestWins`, `WrittenOnce` |

The properties state their own conditions. `AppliedMeansPatched` and `EverySettled` hold throughout.
`SettledIsOver` holds until a second process begins a round, `NewestWins` also until a
confirmation is lost, and `WrittenOnce` also until a crash (`Spared`). These conditions
say what the code relies on: after them a change can be written over what came
after it, and the run goes on to those states. No document of the repository claims otherwise, so
no run presents it as a disagreement; the hazards name it. Three changes let an old one be
re-applied around a newer one that is already settled, with one more behind. Values are one
good and one malformed one, because only coercion looks at them. Fairness: the loop of the process that
stays goes on whatever a round raises, and each of its calls returns or fails within its
timeout.

### Scores as documented (`MCScoring`)

| Run | Instance | Shows |
|---|---|---|
| `ScoresReadme` | the workload of README.md 6.7 with an HPA, no file | violates README.md:579-589 (`PresenceCounts`): of nine Boolean rules whose subject is there, six fail: RES-007, for which the value of a call is dropped, and five whose path is spelled differently |

### Parts that share no state (`MCParts`)

Slack, digests, the start, the two monitors and the scores have no variable in common, so their product
has nothing to show. `MCParts` checks them in one run: `part` says which one moves in a
behaviour, the others stay in one of their initial states. The behaviours of a part in this
run are exactly those of its own specification, with its own fairness (`Fairness` is the disjunction), so
each property speaks of it as if it were alone; a part that does not move satisfies it
from its initial state. This is why the liveness properties are stated as `[]<>(condition =>
goal)`: a part that stays where it is must satisfy them too, and its initial state does.

| Part | Instance | Shows |
|---|---|---|
| all | | `PartsTypeOK` |
| Slack | 5 messages, one filtered, limit 2, a minute of 2 units, webhook and bot, one fault of each kind | `RateRespected`, `AlwaysReopens`, `ResultIsTrue` |
| digests | 3 Deployments in 2 namespaces, room for one app, one digest may be lost | `DigestSpacing`, `NothingForgotten` |
| start | 2 replicas, all settings, one failure, two attempts to reach the Titlis API, one deletion of the ConfigMap | `ServesAtLast`, `OneLossPerMap`, `ServingIsEquipped` |
| CAST AI | 2 services, two changes of pods, one failed call, a signal at any time | `ReadingsAreTrue`, `NoGaugeOnceOver`, `PodsFollow`, `SignalEnds` |
| synthetic | a site, a JSON value, or the one of the environment; two changes of the targets, one lost gauge | `GaugesAreTrue`, `GaugesFollow` |
| scores | 8 workloads of three kinds, 4 configurations (none, the one of README.md, one a workload can satisfy, a malformed one), two edits, a cache of 2 units | `FullMarks`, `FixingNeverHurts`, `AlarmsAgree`, `ScoresAreRecent` |

*Slack.* `ResultIsTrue` speaks of the time until an answer of Slack is lost: after that
the repository cannot know what is in Slack, and the bot may repeat what the webhook
posted. README.md:351 also promises 360 messages an hour; `rate_limit_per_hour`
(`settings.py:62`) is a setting no code reads, so there is nothing to model. A limit of
two is the least at which reaching the limit differs from the first message; the
clock runs long enough for several windows.

*Digests.* `NothingForgotten` speaks of the time until a digest is lost: the buffer keeps no copy.
In a namespace with more apps than fit (`Crowded`), a scorecard may also be what a digest was cut by;
README.md:353 announces the cut. With room for one, the namespace of two Deployments is crowded and the
other is not.
README.md:325 promises that an active cooldown suppresses a notification; the controller
calls `should_notify` without the time of the last one, so the model has no cooldown.
Two handlers of one namespace are the least that interleave, the third Deployment shows
that namespaces do not disturb each other. The interval is 2 and a call to Slack lasts
at most 1: the real values are 15 minutes and less than two, and what matters is that
the one is shorter than the other (`TimesAssumption`).

*Start.* Two replicas are the least that find the ConfigMap missing together. A deletion makes a
second loss possible, so that `OneLossPerMap` is met with equality. Failures are
bounded and nothing obliges them to occur; the Titlis API may stay down for ever.

*Monitors.* Two services, and a check of each type, are the least that could be mixed up or hold
each other up. `PodsFollow` and `GaugesFollow` are statements about what comes in the end: changes and failures
are bounded, the rounds are not. A request to a target that trickles never ends, and
`GaugesFollow` asks nothing of that check, but everything of the others. Fairness: the
event loop, the thread of the executor and the threads of the checks run, and
calls other than those to a trickling target return or fail.

*Scores.* The workloads (`MCScoring`) differ in what some rule looks at. `Attainable` makes 100 points possible: what can never
pass is switched off, two rules weigh nothing, and one of these has the severity critical, so that full
marks and a critical message occur together. An evaluation takes at most 1 unit (`Duration`), the clock runs to 5:
the cache is filled, used up to its last tick and filled again, with edits before, during
and after. The Kubernetes client sets no timeout of its own, so that an evaluation ends within `Duration` is
an assumption about the API server. `AlarmsAgree` excepts scores between the threshold of the file and that of the
message, where the code disagrees with itself as said above.

## 4. Proofs

### SLO reconciliation

`SLOReconcilerProofs` proves, for every choice of the constants that satisfies the
named assumptions of `SLOReconciler` (sets, ids and settings are what they
should be, nothing else):

* `TypeCorrect`: `Spec => []TypeOK`. One lemma per group of actions, resting on one lemma
  per building block (`WriteCR`, `Store`, `Enter`, `Outcome`, ...).
* `StatusIsOwn`: if no two resources name the same service (`Exclusively`),
  `StatusRefersToOwnSLO` holds, with a lagging index and any faults, for one process, or for
  any number of them while no name is used twice (`Unmixed`). The status is written by name, so it
  needs to know whom a name belongs to: `NamesKept` says that resources that exist have
  different names and that a single process works only on those that exist (`AtHome`), because
  kopf releases a deleted resource only after its handlers. The property is not inductive: an id travels from Datadog's index or an old status
  through event copies and handler frames before it reaches a status. `OwnInv` says
  every id on that way belongs to the group of resources that share a service with the one
  that carries it, and that the service tag of every SLO, also of its stale index entry, is
  one its resource declares. Groups (`Sharers`, `Grouped`) are what paths B and C cannot
  leave; with `Exclusively` each is a single resource (`ExclusiveGroups`).
* `NoDuplicates`: with one process, services not shared, a search that answers and
  does not lag, and no lost replies (`Dependable`), `AtMostOneSLO` holds, whatever else
  fails. `UniqueInv` adds to `OwnInv` that a handler between the search and
  the create still has no SLO.
* `NoSecondForService`: the same for services that are shared, as long as each resource
  stays with the one service it names (`Steadily`, also a case of `Grouped`):
  `AtMostOnePerService`. `ServiceInv` says that a handler about to create has found none
  for its service; that a PUT leaves the service of an SLO alone is `OwnInv` again.
* `OkIsTrue`: `OkMeansInSync`, with one process, services not shared, no lag, a comparison
  that tells contents apart (`Faithful`) and no deletion in the console; searches may
  fail and replies be lost. It needs `AgeInv`, an order on all copies of a spec: the
  resource, the event that waits, the snapshot of the handler, and what was ever written
  about the resource (its status, the SLOs with its uid) are each as old as the one before, or older
  (`Follows`). So a PUT under the id of a true status makes the SLO say what that status
  says or something newer, and `TruthInv` carries this to the write.
* `ContractKept`: under `Dependable`, `Exclusively` and without deletions in the console the
  reconciler implements `SLOContract`. `CreateCR` and `EditSpec` are `Declare`; a POST is
  `Publish` (`UniqueInv`: nothing published yet; `AgeInv`: the version was declared); a
  PUT is `Advance` (`UniqueInv`: it is the one SLO; `AgeInv`: never to an older version);
  all else is a stutter (`ContractNext`). Deletions in the console are excluded because the
  contract has no action that takes an SLO away.

None of these conditions can be dropped: without any one of them TLC finds a violation on
an instance with one or two resources and two versions. Two of these are runs:
`SLORollout` (two processes) and `SLOCompare` (a comparison that misses a difference). The
invariants were checked by TLC on such instances before they were proved.

`SLOProgressProofs` goes on with what the liveness properties rest on:

* `EditsAreKept`: `NoEditLost`, without any condition, for any number of processes. `EditInv`
  adds what makes it inductive: an event that waits for a process and is not announced any
  more is of the object as it is. `HandlersAreSerial` is needed as well: if a handler could begin for a
  resource while kopf has still to record what the one before it was given, its await would
  overwrite the newer version that is to be recorded with an older one.
* `EveryHandlerEnds`: `HandlersEnd`, also without any condition. `CallsLeft` is a measure of a frame:
  the calls of the steps to come, the attempts that `execute_with_retry` and the status writer have left
  included. It begins at 44: two calls to the catalogue, the same and four probes of four attempts for the
  detection, two searches and the POST with four attempts each, and three times a read and a write of the status, twice. `TriedInv` bounds the attempts, and each action of a handler lowers the measure
  (`HandlerFalls`). A mutant that does not count a retry breaks it.
* `HandledIsInSync`: `HandledMeansInSync`, under `Exclusively`, `Dependable` and `Forgiving` (no call
  fails for good, nobody deletes SLOs in the console, conflicts are fewer than the attempts of
  the status writer). It stands on `TypeOK`, `OwnInv`, `UniqueInv` and `AgeInv`, and on two more. `InTurn`
  orders what kopf has recorded or is about to record with the event that waits, the snapshot and
  the resource; that kopf records and the writer writes into this very resource is `AtHome`
  (`KopfRecords`, `WriterWrites`). `SettledInv` says of a frame what its step has achieved so far (`FrameSettled`), that
  a handler whose copy is stale has met, or is about to meet, a conflict that was paid for
  (`Met`, `StaleIsCharged`), and that the resource is in sync as soon as its latest version is through
  (`Through`): recorded, or waiting at the await for that.
* `RestIsInSync`: under the same conditions, an operator at rest, with no event announced, waiting
  or being handled, has every valid SLOConfig in sync, except one that is `Reverted`. So of `Converges` only the coming to rest
  needs fairness. It follows from the two properties above: at rest, `NoEditLost` leaves the latest
  version nowhere but in the record, or the record at its text. `HandledIsInSync` speaks of *versions*: an edit back
  to the text on record is one that is never recorded as handled, and the exception is what `SLOReverts` needs.

Each hypothesis of `HandledIsInSync` is needed. TLC violates the property on one resource and two versions
as soon as one call may fail for good (search, create, update, status), a reply may be lost, an
SLO may be deleted in the console, the index lags, the catalogue is required and may not
answer, three conflicts may meet, a second process runs, or two resources share a service. This is the
price of a handler that swallows its exceptions: kopf records what failed as handled.

### Pending changes

`PendingChangesProofs` proves `TypesHold` and `NothingAppliedUnpatched` without any assumption
beyond the constants', with any number of processes: a frame that is about to confirm
"applied" holds a change that is in `patched`. The other theorems hold until a second process begins
a round. `SettledStaysOver` rests on `BatchInv`: the
change in hand and those still to come are pending, and the one in hand is not among
those to come. `NewestChangeWins` (oldest first, until a confirmation is
lost) rests on `OrderInv`: every change that is settled or in hand is older
than all that are still to come, so whatever a crash repeats is repeated in order and
ends with the newest. `ChangesAreWrittenOnce` (also until a crash) rests on `OnceInv`: what is
patched is settled, or in hand and about to be. The lemmas on `Spared` turn "no such event so
far" into an assumption about every earlier step.

### Slack

`SlackProofs` proves `DeliveryTypes` together with the fact that a message
is on its way only by a configured client; `RateHolds`, for every limit and every
clock; and `ResultHolds`, until an answer is lost. `RateRespected` is not inductive: `LimiterInv`
says that the messages counted are the last `count` ones, that a task sleeps exactly while
the limiter is closed, that it wakes a minute after the last of them, and that all
earlier messages are a minute older than the clock was then. `ClosedIsTimed` draws the
other conclusion from it, the safety half of `AlwaysReopens`: while the limiter is closed, a task
sleeps that opens it within a minute.

### Digests

`SlackProofs` also proves `DigestTypes`, `SpacingHolds` and `NothingIsForgotten`. The last one needs
`FlightInv`, that two digests of a namespace are never on their way at once because
Slack's timeouts are shorter than the interval, and `LatestInv`, that the
buffer holds the latest scorecard of an app or none, and a digest the latest unless the
buffer has it. Dropping `Patience < Interval` from the assumptions breaks the proof, and a
model without it the property: a slow digest would arrive on top of a newer one. An app that a digest was
cut by shared it with at least `Room` others of its namespace, so that namespace is `Crowded`.

### Scorecard events

`ScorecardEventsProofs` proves four theorems without any bound on Deployments, faults or crashes.
`EventTypes` comes in three parts, the process, the world and the allowance
(`Typed`), because each action disturbs one of them at a time; the process part also says
that a handler about to write points at something that can be written (`Aimed`).
`NeverGoesBack` needs `ScoreInv`, which ties four copies of a version together: the status is
not newer than the cached evaluation nor the Deployment (`Fresh`), an upsert carries a
scorecard not older than the status and the same as the cache's (`Carried`), and a copy that
still has the latest resourceVersion has the latest status (`Copied`). The last one is
where optimistic concurrency enters: every write makes all copies old, so update_notification
can only write the status back that is there. `OneConfigAtMost` rests on `SearchInv`: what
is about to be created has no match, which holds because the search and the create are one
stretch of the event loop, and only a failed search breaks it; `SparedBefore` turns "no search
failed so far" into an assumption about every earlier step. `HandledAreCarded` is the safety half of
`EveryAppGetsACard`: `CardInv` says that from the read or the create of the upsert on the AppScorecard is
there (`Carded`), that it has the owner that keeps the garbage collector away (`Owning`), and that
every copy a handler may still write back has that owner too (`Placed`), also the copies that
notifications of other Deployments hold.

### Start and monitors

`OperatorProofs` proves `StartupTypes`, `OneLossAtMost` and `ReplicasAreEquipped` for any
number of replicas and failures. `MapsCost` counts a missing ConfigMap as a process
that may still be lost; `Equipped` says at each stage of a replica what has been built by
then, and that a Slack service is ready only if it is asked for.
It proves `CastaiTypes` and `ReadingsWereTrue` for any sequence of services: while the thread
runs, the answer for the pods as they are is always among the right ones (`NowIsRight`); the second
list call is made only where there was no pod labelled `app` (`SecondChoice`), so that if it answers while there is
one, the service had such pods in one part of the round only; so what has been found so far was right or is excepted
(`FoundSoFar`), and is when it is sent; and
`NothingOnceOver`, an action property that needs no invariant.
And it proves `GaugesWereTrue` of the synthetic monitor along the same line (`AskingIsOpen`).

### The product of the parts

`PartsProofs` carries these results over to `MCParts`, the specification that `Parts` runs: a step of the
product is a step of one part and a stutter of all others, so each behaviour of the product is
one of each part (`WholeOfParts`). The start is the exception, because replicas of a part that does not move
are `stopped` and not yet started: `StoppedFits` shows that its invariant holds of these too.
`PartsTypesHold` is `PartsTypeOK` for every value of the constants, `PromisesHold` the twelve other invariants and
`NoGaugeOnceOver`; like `AlarmsNeverDisagree` below, it assumes that no file sets the critical threshold above 90.

### Scores

`ScoringProofs` proves the type invariant and the four properties that `Parts` checks of the scores for every set of workloads, every
set of files and every TTL. It assumes of the files what `FilesAreSound` says, that thresholds are numbers
and no rule weighs less than nothing, and `AlarmsNeverDisagree` also that no file sets the
critical threshold above 90, where the digest begins to warn: above it a message would be due
that is only information.

* *Sums.* `SumFunction` chooses the order in which it adds. `FoldExists` shows, by taking a least
  counterexample (`LeastSubset`; the induction theorems of the library cannot be used), that
  the sum over a finite set follows from the sum without any one element, and `SumIs` that
  `SumFunction` is that sum; `ProductIs` says the same of `Product`. From these come `SumOfPart` (a part
  weighs at most the whole, and as much only if the rest weighs nothing), `SumBelow` and
  `ProductDivides`.
* *Scores.* `IsScore`: a fraction between 0 and 1 that is 1 exactly if all that weighs something
  passed. `PillarIsScore` shows it of a pillar, `OverallIsScore` of the mean, because the common denominator
  is a multiple of each (`CommonDivides`) and no pillar has weight 0 (`PillarWeights`). This is
  `ScoresAreMarks`. That more passes never lowers a score is `OverallMonotone`.
* *Decisions.* With more that passes the summary is `Milder` (`SummaryMilder`): a higher score, fewer
  issues. Whatever is below a limit was below it before (`BelowLess`), so no branch of `Severity` or `ShouldNotify`
  opens (`MilderIsCalmer`). This is `FixingHelps`; `AlarmsNeverDisagree` compares the branches.
* *States.* `ScoringTypes` and `AlwaysRecent` rest on `Timely`: an evaluation under way began
  at most `Duration` ago, and the cached one took no longer. TLC checked `Timely` on the
  instance of `Parts` first.

### What stays with TLC

Every invariant and every action property of the passing runs, and the refinement of `SLOContract`, is a
theorem. Liveness under fairness (`Converges`, `EveryEditHandled`, `EverySettled`, `AlwaysReopens`,
`EveryAppGetsACard`, `ScoresFollow`, `ServesAtLast`, `PodsFollow`, `SignalEnds`, `GaugesFollow`) and everything
about ENABLED are beyond the proof system. Of four of them the safety half is proved:
`HandledIsInSync` and `RestIsInSync` for `Converges`, `EditsAreKept` and `EveryHandlerEnds` for
`EveryEditHandled`, `HandledAreCarded` for `EveryAppGetsACard`, `ClosedIsTimed` for `AlwaysReopens`; that processes
run, events are delivered and time passes is what is left to TLC. What `Loaded` makes of a file is not proved about:
it folds over the entries, which asks for an induction over a sequence that the provers cannot do. It is only assumed
to be sound, and TLC checks that of the four files of `Parts`.

## 5. Plan

What could still be added, in the order of its weight: the waits of `execute_with_retry` and the HTTP
classes it retries; the events the operator posts to the Titlis API after a handler is done;
the safety halves of the other liveness properties, `ScoresFollow` first.

## 6. Not modelled, and why

* Log lines, message layout, metric names and Datadog payload fields: no state
  depends on them. Queries and templates of SLOs are contents to the models.
* SLO metrics, settings and wiring: counters nobody reads, and constants.
* The Titlis API, the Kubernetes API server, Datadog, Slack and kopf are modelled only as
  the code in `src/` uses them. kopf's own persistence is one fact: the essence a handler was
  started with is recorded when it ends.
* Helm charts, SQL schema (`db/`) and documentation are not programs; the charts are read where they
  decide a behaviour (the status subresource, the rollout).
* Enrichers (`scorecard_enricher.py`, `backstage/enricher.py`, `castai/cost_enricher.py`): nothing calls
  `get_scorecard_enricher`, so no behaviour of the program reaches them. The same is
  true of `get` and `set` of the state store (they depend on `store_history`, which nothing
  sets) and of time-slice SLOs (the CRD admits `metric` and `monitor` only;
  managers/slo.py:212 would raise the same KeyError as state_store.py:37).
* What the managers of `infrastructure/datadog` do to a payload: one call of
  `SLOReconciler` each, with its failures.
