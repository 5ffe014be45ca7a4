--------------------------- MODULE SLOReconciler ---------------------------
(***************************************************************************)
(* The SLO half of the operator: SLOConfig custom resources are turned     *)
(* into Datadog SLOs by SLOController.on_slo_config_change, which calls    *)
(* SLOService.reconcile_slo and then writes the resource's status through  *)
(* KubernetesStatusWriter.update.                                          *)
(*                                                                         *)
(* The handler runs on kopf's event loop and makes its Datadog and         *)
(* Kubernetes calls synchronously, so one operator process is inside at    *)
(* most one handler until it reaches the first await (the Slack message,   *)
(* after the status was written).  Everything outside the process goes on  *)
(* meanwhile: users edit the resource, other clients write it, SLOs are    *)
(* deleted in Datadog, the process crashes, a second process of a rolling  *)
(* update works on the same resource.  One action is one external call.    *)
(***************************************************************************)
EXTENDS Naturals, FiniteSets

CONSTANTS
    Configs,       \* SLOConfig objects; an object is its uid, never reused
    Services,      \* the (namespace, service) pairs that name an SLO
    Declares,      \* Declares[c]: the services the spec of c may name
    Named,         \* Named[c]: namespace and name, which a successor may reuse
    Contents,      \* what else kopf compares: thresholds, query, annotations
    Invalid,       \* the contents on_slo_config_change rejects
    Detects,       \* the contents that leave the framework to be detected
    Compared,      \* Compared[k]: the part _compare_slo_parameters looks at
    SloIds,        \* ids Datadog may hand out
    NoId,          \* status.slo_id is null
    Ops,           \* operator processes (two while a rollout overlaps)
    Excluded,      \* objects in an excluded namespace
    RequireCatalog,  \* settings.auto_slo_require_datadog_service
    IndexLag,      \* SLO search answers from an index that may lag
    MaxGen,        \* bound on the versions of one spec
    Edited,        \* bound: the objects whose spec users edit
    Budget         \* Budget[k]: bound on the faults of kind k

FaultKinds == {"crash", "lookup", "search", "update", "create", "lost",
               "kube", "conflict", "removal", "wipe"}

ASSUME ConfigsAssumption == Configs # {} /\ Excluded \subseteq Configs
ASSUME SpecsAssumption ==
    /\ Declares \in [Configs -> SUBSET Services]
    /\ DOMAIN Named = Configs
    /\ Services # {} /\ Contents # {}
    /\ Invalid \subseteq Contents /\ Detects \subseteq Contents
    /\ DOMAIN Compared = Contents
ASSUME IdsAssumption == SloIds # {} /\ NoId \notin SloIds
ASSUME SettingsAssumption == RequireCatalog \in BOOLEAN /\ IndexLag \in BOOLEAN
ASSUME BoundsAssumption == MaxGen \in Nat /\ Budget \in [FaultKinds -> Nat]

MaxAttempts == 4      \* DatadogClientBase.max_retries + 1
StatusAttempts == 3   \* KubernetesStatusWriter.update: max_retries
CatalogCalls == 2     \* get_single_service_definition: by name, by reference
DetectCalls == CatalogCalls + 4 * MaxAttempts   \* and a probe of four prefixes

VARIABLES
    cr,         \* cr[c]: the SLOConfig as the API server holds it
    news,       \* news[p]: objects with a version process p has not received
    inbox,      \* inbox[p][c]: the body of the next event kopf will process
    h,          \* h[p]: the frame of the handler that holds p's event loop
    current,    \* processes whose fetched copy has the latest resourceVersion
    finishing,  \* finishing[p][c]: spec whose handler awaits Slack, or NoSpec
    live,       \* SLOs that exist in Datadog
    used,       \* ids ever handed out
    slos,       \* slos[i]: the SLO last stored under id i
    index,      \* what SLO search sees
    left        \* faults of each kind still allowed

vars == <<cr, news, inbox, h, current, finishing, live, used, slos, index, left>>
cluster == <<cr, news, current>>
datadog == <<live, used, slos, index>>

----------------------------------------------------------------------------
(* Types and initial state *)

Gens == 0..MaxGen
Spec0 == [service: Services, content: Contents, gen: Gens]
SLO == [uid: Configs, service: Services, content: Contents, gen: Gens]
Ids == SloIds \cup {NoId}

\* gen counts the versions of a spec; the program does not see it.  handled is
\* the last-handled-configuration annotation kopf keeps (NoSpec: none); sloId and
\* state are status fields, shown the spec they were computed from.
Phases == {"absent", "live", "terminating", "gone"}
States == {"none", "ok", "error"}
CR == [phase: Phases, spec: Spec0, handled: Spec0, sloId: Ids, state: States,
       shown: Spec0]

Steps == {"idle", "lookup", "detect", "findUid", "findService", "update",
          "create", "getCR", "putStatus"}
Modes == {"result", "error"}
Tries == 0..(DetectCalls - 1)
Frame == [pc: Steps, cfg: Configs, spec: Spec0, known: Ids, slo: Ids,
          ok: BOOLEAN, mode: Modes, tries: Tries]

NoSpec == [service |-> CHOOSE s \in Services : TRUE,
           content |-> CHOOSE k \in Contents : TRUE, gen |-> 0]
NoCR == [phase |-> "absent", spec |-> NoSpec, handled |-> NoSpec, sloId |-> NoId,
         state |-> "none", shown |-> NoSpec]
Idle == [pc |-> "idle", cfg |-> CHOOSE c \in Configs : TRUE, spec |-> NoSpec,
         known |-> NoId, slo |-> NoId, ok |-> FALSE, mode |-> "result",
         tries |-> 0]
NoSLO == [uid |-> CHOOSE c \in Configs : TRUE, service |-> NoSpec.service,
          content |-> NoSpec.content, gen |-> 0]

TypeOK ==
    /\ cr \in [Configs -> CR]
    /\ news \in [Ops -> SUBSET Configs]
    /\ inbox \in [Ops -> [Configs -> CR]]
    /\ h \in [Ops -> Frame]
    /\ current \subseteq Ops
    /\ finishing \in [Ops -> [Configs -> Spec0]]
    /\ live \subseteq used
    /\ used \subseteq SloIds
    /\ slos \in [SloIds -> SLO]
    /\ index \in [live: SUBSET SloIds, slos: [SloIds -> SLO]]
    /\ left \in [FaultKinds -> Nat]

Init ==
    /\ cr = [c \in Configs |-> NoCR]
    /\ news = [p \in Ops |-> {}]
    /\ inbox = [p \in Ops |-> [c \in Configs |-> NoCR]]
    /\ h = [p \in Ops |-> Idle]
    /\ current = {}
    /\ finishing = [p \in Ops |-> [c \in Configs |-> NoSpec]]
    /\ live = {}
    /\ used = {}
    /\ slos = [i \in SloIds |-> NoSLO]
    /\ index = [live |-> {}, slos |-> slos]
    /\ left = Budget

----------------------------------------------------------------------------
(* Building blocks *)

\* The object that has the name of c now: c itself, a successor, or none.
Bearers(c) == {d \in Configs : /\ Named[d] = Named[c]
                               /\ cr[d].phase \in {"live", "terminating"}}

\* Every write of c gives it a new resourceVersion: each process will receive
\* it, and a copy fetched before it can no longer be written back.
WriteCR(c, object) ==
    /\ cr' = [cr EXCEPT ![c] = object]
    /\ news' = [p \in Ops |-> news[p] \cup {c}]
    /\ current' = {p \in current : Named[h[p].cfg] # Named[c]}

\* Datadog stores SLO s under id i; without lag, search sees it at once.
Store(i, s) ==
    /\ live' = live \cup {i}
    /\ used' = used \cup {i}
    /\ slos' = [slos EXCEPT ![i] = s]
    /\ index' = IF IndexLag THEN index ELSE [live |-> live', slos |-> slos']

Spend(kind) ==
    /\ left[kind] > 0
    /\ left' = [left EXCEPT ![kind] = @ - 1]

Enter(p, frame) == h' = [h EXCEPT ![p] = frame]
Goto(p, step) == Enter(p, [h[p] EXCEPT !.pc = step, !.tries = 0])
Retry(p) == Enter(p, [h[p] EXCEPT !.tries = @ + 1])

\* reconcile_slo returned: the status is written next.
Outcome(p, success, id) ==
    Enter(p, [h[p] EXCEPT !.pc = "getCR", !.ok = success, !.slo = id, !.tries = 0])

\* The payload _build_slo_from_spec makes of the handler's snapshot: its tags
\* carry the uid of the resource and the service.
Desired(f) == [uid |-> f.cfg, service |-> f.spec.service,
               content |-> f.spec.content, gen |-> f.spec.gen]

----------------------------------------------------------------------------
(* Users and the outside world *)

CreateCR(c) ==
    /\ cr[c].phase = "absent"
    /\ Bearers(c) = {}
    /\ MaxGen > 0
    /\ \E s \in Declares[c], k \in Contents :
          WriteCR(c, [NoCR EXCEPT !.phase = "live",
                                  !.spec = [service |-> s, content |-> k, gen |-> 1]])
    /\ UNCHANGED <<inbox, h, finishing, datadog, left>>

\* What kopf compares of two specs: all but the number of the version.
SameText(a, b) == a.service = b.service /\ a.content = b.content

\* kubectl apply, a patch of the pending-changes loop, or the annotation
\* _touch_sloconfig writes: another text, which may be an earlier one again.
EditSpec(c) ==
    /\ cr[c].phase = "live" /\ c \in Edited
    /\ cr[c].spec.gen < MaxGen
    /\ \E s \in Declares[c], k \in Contents :
          /\ ~SameText(cr[c].spec, [service |-> s, content |-> k])
          /\ WriteCR(c, [cr[c] EXCEPT !.spec = [service |-> s, content |-> k,
                                                gen |-> cr[c].spec.gen + 1]])
    /\ UNCHANGED <<inbox, h, finishing, datadog, left>>

\* kopf's finalizer keeps the object until on_slo_delete has run.
DeleteCR(c) ==
    /\ cr[c].phase = "live"
    /\ Spend("removal")
    /\ WriteCR(c, [cr[c] EXCEPT !.phase = "terminating"])
    /\ UNCHANGED <<inbox, h, finishing, datadog>>

\* A write that leaves spec and status alone but changes resourceVersion.
ForeignWrite(c) ==
    /\ cr[c].phase = "live"
    /\ Spend("conflict")
    /\ WriteCR(c, cr[c])
    /\ UNCHANGED <<inbox, h, finishing, datadog>>

\* Somebody deletes an SLO in the Datadog console.
RemoveSLO(i) ==
    /\ i \in live
    /\ Spend("wipe")
    /\ live' = live \ {i}
    /\ index' = IF IndexLag THEN index ELSE [index EXCEPT !.live = live']
    /\ UNCHANGED <<cluster, inbox, h, finishing, used, slos>>

Reindex ==
    /\ IndexLag
    /\ index # [live |-> live, slos |-> slos]
    /\ index' = [live |-> live, slos |-> slos]
    /\ UNCHANGED <<cluster, inbox, h, finishing, live, used, slos, left>>

----------------------------------------------------------------------------
(* kopf: delivery of events, one handler at a time per object *)

\* The watch stream hands p the object as it is now; versions not received
\* meanwhile are skipped, and an unprocessed older event is superseded.
Deliver(p, c) ==
    /\ c \in news[p]
    /\ inbox' = [inbox EXCEPT ![p][c] = cr[c]]
    /\ news' = [news EXCEPT ![p] = @ \ {c}]
    /\ UNCHANGED <<cr, current, h, finishing, datadog, left>>

Ready(p, c) ==
    /\ h[p].pc = "idle"
    /\ finishing[p][c] = NoSpec
    /\ inbox[p][c].phase # "absent"

Consume(p, c) == inbox' = [inbox EXCEPT ![p][c] = NoCR]

\* The annotation says that this very text was handled, whenever that was.
OnRecord(body) == body.handled # NoSpec /\ SameText(body.spec, body.handled)

\* Mutant: on_slo_create is not registered.
UpdatedOnly(body) ==
    body.phase = "live" /\ body.handled # NoSpec /\ ~OnRecord(body)

\* on_slo_create or on_slo_update is called; there is no handler for a resume,
\* so an object listed after a restart is handled only when it differs too.
Changed(body) == body.phase = "live" /\ ~OnRecord(body)

\* Mutant: the handler of an excluded namespace raises TemporaryError instead of
\* returning, so kopf keeps the event for another try.
RetryExcluded(p, c) ==
    /\ Ready(p, c)
    /\ Changed(inbox[p][c])
    /\ c \in Excluded
    /\ UNCHANGED vars

\* on_slo_config_change up to its first call: snapshot of spec and slo_id,
\* exclusion by namespace, validation of the spec.
IgnoreExcluded(p, c) ==
    /\ Ready(p, c)
    /\ Changed(inbox[p][c])
    /\ c \in Excluded
    /\ Consume(p, c)
    /\ finishing' = [finishing EXCEPT ![p][c] = inbox[p][c].spec]
    /\ UNCHANGED <<cluster, h, datadog, left>>

\* Mutant: the handler reads metadata.uid where it means status.slo_id.
BeginWithUid(p, c) ==
    LET body == inbox[p][c]
        rejected == body.spec.content \in Invalid
    IN  /\ Ready(p, c)
        /\ Changed(body)
        /\ c \notin Excluded
        /\ Consume(p, c)
        /\ Enter(p, [Idle EXCEPT !.pc = IF rejected THEN "getCR" ELSE "lookup",
                                 !.mode = IF rejected THEN "error" ELSE "result",
                                 !.cfg = c, !.spec = body.spec,
                                 !.known = c])
        /\ UNCHANGED <<cluster, finishing, datadog, left>>

BeginHandler(p, c) ==
    LET body == inbox[p][c]
        rejected == body.spec.content \in Invalid
    IN  /\ Ready(p, c)
        /\ Changed(body)
        /\ c \notin Excluded
        /\ Consume(p, c)
        /\ Enter(p, [Idle EXCEPT !.pc = IF rejected THEN "getCR" ELSE "lookup",
                                 !.mode = IF rejected THEN "error" ELSE "result",
                                 !.cfg = c, !.spec = body.spec,
                                 !.known = body.sloId])
        /\ UNCHANGED <<cluster, finishing, datadog, left>>

IgnoreEvent(p, c) ==
    /\ Ready(p, c)
    /\ inbox[p][c].phase # "terminating"
    /\ ~Changed(inbox[p][c])
    /\ Consume(p, c)
    /\ UNCHANGED <<cluster, h, finishing, datadog, left>>

\* on_slo_delete only sends a message; kopf then drops its finalizer.  The
\* SLO in Datadog is left alone.  A second process that comes late finds c gone:
\* its patch, by name, only makes a copy of the successor stale.
HandleDelete(p, c) ==
    /\ Ready(p, c)
    /\ inbox[p][c].phase = "terminating"
    /\ Consume(p, c)
    /\ WriteCR(c, [cr[c] EXCEPT !.phase = "gone"])
    /\ UNCHANGED <<h, finishing, datadog, left>>

\* Mutant: the essence recorded is that of the object as it is now.
FinishLatest(p, c) ==
    /\ h[p].pc = "idle"
    /\ finishing[p][c] # NoSpec
    /\ finishing' = [finishing EXCEPT ![p][c] = NoSpec]
    /\ \/ Bearers(c) = {} /\ UNCHANGED cluster
       \/ \E d \in Bearers(c) : WriteCR(d, [cr[d] EXCEPT !.handled = cr[d].spec])
    /\ UNCHANGED <<inbox, h, datadog, left>>

\* The handler returned, whatever it achieved: kopf records the essence of
\* the snapshot it was given as handled, in the object that has the name.
Finish(p, c) ==
    /\ h[p].pc = "idle"
    /\ finishing[p][c] # NoSpec
    /\ finishing' = [finishing EXCEPT ![p][c] = NoSpec]
    /\ \/ Bearers(c) = {} /\ UNCHANGED cluster
       \/ \E d \in Bearers(c) : WriteCR(d, [cr[d] EXCEPT !.handled = finishing[p][c]])
    /\ UNCHANGED <<inbox, h, datadog, left>>

\* The pod dies: nothing in memory survives, and the new process lists every
\* object again.
Crash(p) ==
    /\ Spend("crash")
    /\ Enter(p, Idle)
    /\ inbox' = [inbox EXCEPT ![p] = [c \in Configs |-> NoCR]]
    /\ finishing' = [finishing EXCEPT ![p] = [c \in Configs |-> NoSpec]]
    /\ news' = [news EXCEPT ![p] = {c \in Configs :
                                       cr[c].phase \in {"live", "terminating"}}]
    /\ current' = current \ {p}
    /\ UNCHANGED <<cr, datadog>>

----------------------------------------------------------------------------
(* SLOService.reconcile_slo *)

\* Mutant: without an id in the status, post straight away.
ChooseBlindly(p) ==
    Enter(p, [h[p] EXCEPT !.pc = IF h[p].known # NoId THEN "update" ELSE "create",
                          !.slo = h[p].known, !.tries = 0])

\* Path A when the status names an SLO, path B otherwise.
ChoosePath(p) ==
    Enter(p, [h[p] EXCEPT !.pc = IF h[p].known # NoId THEN "update" ELSE "findUid",
                          !.slo = h[p].known, !.tries = 0])

\* auto_detect_framework without an app_framework or its annotation.
ChooseFramework(p) ==
    IF h[p].spec.content \in Detects THEN Goto(p, "detect") ELSE ChoosePath(p)

\* get_service_definition: the second list call is made when the first fails or
\* finds nothing; a service that neither finds and two failures both give None.
Lookup(p) ==
    /\ h[p].pc = "lookup"
    /\ \/ ChooseFramework(p) /\ UNCHANGED left
       \/ /\ Spend("lookup")
          /\ \/ h[p].tries + 1 < CatalogCalls /\ Retry(p)
             \/ /\ h[p].tries + 1 >= CatalogCalls
                /\ IF RequireCatalog THEN Outcome(p, FALSE, NoId) ELSE ChooseFramework(p)
    /\ UNCHANGED <<cluster, inbox, finishing, datadog>>

\* _detect_framework: the catalogue again, then detect_trace_framework with its
\* retried probes; every call may settle it, none raises, and WSGI is the last
\* resort.  Which framework it is belongs to the query and is left out.
Detect(p) ==
    /\ h[p].pc = "detect"
    /\ ChoosePath(p) \/ (h[p].tries + 1 < DetectCalls /\ Retry(p))
    /\ UNCHANGED <<cluster, inbox, finishing, datadog, left>>

\* A search under execute_with_retry failed: a 429, a 5xx and any exception of
\* the client are tried again; the last one, or another status, reads as "none".
SearchFailed(p, step) ==
    /\ Spend("search")
    /\ Goto(p, step) \/ (h[p].tries + 1 < MaxAttempts /\ Retry(p))

\* Mutant: the tag filter of the search is not applied.
FindAny(p) ==
    LET found == index.live
    IN  /\ h[p].pc = "findUid"
        /\ \/ /\ \E i \in found : Enter(p, [h[p] EXCEPT !.pc = "update", !.slo = i])
              /\ UNCHANGED left
           \/ found = {} /\ Goto(p, "findService") /\ UNCHANGED left
           \/ SearchFailed(p, "findService")
        /\ UNCHANGED <<cluster, inbox, finishing, datadog>>

\* Mutant: path C is left out.
FindUidOnly(p) ==
    LET found == {i \in index.live : index.slos[i].uid = h[p].cfg}
    IN  /\ h[p].pc = "findUid"
        /\ \/ /\ \E i \in found : Enter(p, [h[p] EXCEPT !.pc = "update", !.slo = i])
              /\ UNCHANGED left
           \/ found = {} /\ Goto(p, "create") /\ UNCHANGED left
           \/ SearchFailed(p, "create")
        /\ UNCHANGED <<cluster, inbox, finishing, datadog>>

\* Path B: find_slo_by_tags; an error is swallowed and reads as "none found".
FindByUid(p) ==
    LET found == {i \in index.live : index.slos[i].uid = h[p].cfg}
    IN  /\ h[p].pc = "findUid"
        /\ \/ /\ \E i \in found : Enter(p, [h[p] EXCEPT !.pc = "update", !.slo = i])
              /\ UNCHANGED left
           \/ found = {} /\ Goto(p, "findService") /\ UNCHANGED left
           \/ SearchFailed(p, "findService")
        /\ UNCHANGED <<cluster, inbox, finishing, datadog>>

\* Path C: get_service_slos (errors read as an empty list), then
\* check_and_update_existing_slo on the first SLO with the slo_uid tag.
FindByService(p) ==
    LET found == {i \in index.live : index.slos[i].service = h[p].spec.service}
        same(i) == Compared[index.slos[i].content] = Compared[h[p].spec.content]
    IN  /\ h[p].pc = "findService"
        /\ \/ /\ \E i \in found :
                    IF same(i)
                    THEN Outcome(p, TRUE, i)
                    ELSE Enter(p, [h[p] EXCEPT !.pc = "update", !.slo = i])
              /\ UNCHANGED left
           \/ found = {} /\ Goto(p, "create") /\ UNCHANGED left
           \/ SearchFailed(p, "create")
        /\ UNCHANGED <<cluster, inbox, finishing, datadog>>

\* Mutant: a PUT that fails is followed by a POST.
UpdateOrCreate(p) ==
    LET i == h[p].slo
    IN  /\ h[p].pc = "update"
        /\ \/ i \in live /\ Store(i, Desired(h[p])) /\ Outcome(p, TRUE, i) /\ UNCHANGED left
           \/ i \notin live /\ Goto(p, "create") /\ UNCHANGED <<datadog, left>>
           \/ Spend("update") /\ Goto(p, "create") /\ UNCHANGED datadog
        /\ UNCHANGED <<cluster, inbox, finishing>>

\* update_slo_apps: one PUT, never retried.  A 404, an error and a lost reply
\* all give False, and the id is kept.
Update(p) ==
    LET i == h[p].slo
    IN  /\ h[p].pc = "update"
        /\ \/ /\ i \in live
              /\ Store(i, Desired(h[p]))
              /\ Outcome(p, TRUE, i)
              /\ UNCHANGED left
           \/ /\ i \in live
              /\ Spend("lost")
              /\ Store(i, Desired(h[p]))
              /\ Outcome(p, FALSE, i)
           \/ /\ i \notin live
              /\ Outcome(p, FALSE, i)
              /\ UNCHANGED <<datadog, left>>
           \/ /\ Spend("update")
              /\ Outcome(p, FALSE, i)
              /\ UNCHANGED datadog
        /\ UNCHANGED <<cluster, inbox, finishing>>

\* Mutant: an exception of the client does not count as an attempt.
RetryUncounted(p) ==
    IF h[p].tries + 1 < MaxAttempts
    THEN Enter(p, h[p])
    ELSE Outcome(p, FALSE, NoId)

\* create_slo under execute_with_retry: a 429, a 5xx or any exception of the
\* client posts again, whether or not the previous post took effect.
RetryCreate(p) ==
    IF h[p].tries + 1 < MaxAttempts
    THEN Retry(p)
    ELSE Outcome(p, FALSE, NoId)

Create(p) ==
    /\ h[p].pc = "create"
    /\ \/ /\ \E i \in SloIds \ used : Store(i, Desired(h[p])) /\ Outcome(p, TRUE, i)
          /\ UNCHANGED left
       \/ /\ \E i \in SloIds \ used : Store(i, Desired(h[p]))
          /\ Spend("lost")
          /\ RetryCreate(p)
       \/ /\ Spend("create")
          /\ RetryCreate(p) \/ Outcome(p, FALSE, NoId)
          /\ UNCHANGED datadog
    /\ UNCHANGED <<cluster, inbox, finishing>>

----------------------------------------------------------------------------
(* KubernetesStatusWriter.update, and what the controller does when it fails *)

\* The handler reaches its await: the event loop is free again.
Yield(p) ==
    /\ Enter(p, Idle)
    /\ finishing' = [finishing EXCEPT ![p][h[p].cfg] = h[p].spec]

\* The TemporaryError of _update_status is caught by on_slo_config_change,
\* which writes a fallback status once; a failure of that one is swallowed.
StatusFailed(p) ==
    IF h[p].mode = "result"
    THEN /\ Enter(p, [h[p] EXCEPT !.mode = "error", !.pc = "getCR", !.tries = 0])
         /\ UNCHANGED finishing
    ELSE Yield(p)

\* The writer names the resource by namespace and name, not by uid: with no
\* object of that name the API server answers 404.
GetCR(p) ==
    /\ h[p].pc = "getCR"
    /\ \/ /\ Bearers(h[p].cfg) # {}
          /\ current' = current \cup {p}
          /\ Enter(p, [h[p] EXCEPT !.pc = "putStatus"])
          /\ UNCHANGED <<finishing, left>>
       \/ /\ Bearers(h[p].cfg) = {}
          /\ StatusFailed(p)
          /\ UNCHANGED <<current, left>>
       \/ /\ Spend("kube")
          /\ StatusFailed(p)
          /\ UNCHANGED current
    /\ UNCHANGED <<cr, news, inbox, datadog>>

\* Mutant: the state does not depend on reconcile_slo's success.
ReportedBlindly(f, d) ==
    [cr[d] EXCEPT
        !.sloId = IF f.mode = "result" THEN f.slo ELSE NoId,
        !.state = IF f.mode = "result" THEN "ok" ELSE "error",
        !.shown = f.spec]

\* The payload, put into d: the result of the reconciliation, or a null id and
\* an error.
Reported(f, d) ==
    [cr[d] EXCEPT
        !.sloId = IF f.mode = "result" THEN f.slo ELSE NoId,
        !.state = IF f.mode = "result" /\ f.ok THEN "ok" ELSE "error",
        !.shown = f.spec]

\* Mutant: a conflict is not met by another try.
ConflictEnds(p) == Yield(p)

\* A conflict sends the writer back to the read; the third one is only logged.
Conflict(p) ==
    IF h[p].tries + 1 < StatusAttempts
    THEN /\ Enter(p, [h[p] EXCEPT !.pc = "getCR", !.tries = @ + 1])
         /\ UNCHANGED finishing
    ELSE Yield(p)

PutStatus(p) ==
    LET there == Bearers(h[p].cfg)
    IN  /\ h[p].pc = "putStatus"
        /\ \/ /\ p \in current
              /\ \E d \in there : WriteCR(d, Reported(h[p], d))
              /\ Yield(p)
              /\ UNCHANGED left
           \/ /\ there # {} /\ p \notin current
              /\ Conflict(p)
              /\ UNCHANGED <<cluster, left>>
           \/ /\ there = {}
              /\ StatusFailed(p)
              /\ UNCHANGED <<cluster, left>>
           \/ /\ Spend("kube")
              /\ StatusFailed(p)
              /\ UNCHANGED cluster
        /\ UNCHANGED <<inbox, datadog>>

----------------------------------------------------------------------------
(* The specification *)

Environment ==
    \/ \E c \in Configs : \/ CreateCR(c) \/ EditSpec(c) \/ DeleteCR(c)
                          \/ ForeignWrite(c)
    \/ \E i \in SloIds : RemoveSLO(i)
    \/ \E p \in Ops : Crash(p)

Kopf(p) ==
    \E c \in Configs : \/ Deliver(p, c) \/ IgnoreExcluded(p, c)
                       \/ BeginHandler(p, c) \/ IgnoreEvent(p, c)
                       \/ HandleDelete(p, c) \/ Finish(p, c)

Reconcile(p) ==
    \/ Lookup(p) \/ Detect(p) \/ FindByUid(p) \/ FindByService(p)
    \/ Update(p) \/ Create(p) \/ GetCR(p) \/ PutStatus(p)

Next == Environment \/ Reindex \/ \E p \in Ops : Kopf(p) \/ Reconcile(p)

Spec == Init /\ [][Next]_vars

\* A live process keeps serving: kopf delivers what it has and starts the
\* handlers of every object, synchronous code runs to its end, and the search
\* index catches up.  Nothing is assumed of users, faults or crashes.
Fairness ==
    /\ \A p \in Ops :
          /\ WF_vars(Reconcile(p))
          /\ \A c \in Configs :
                /\ WF_vars(Deliver(p, c))
                /\ WF_vars(IgnoreExcluded(p, c) \/ BeginHandler(p, c)
                           \/ IgnoreEvent(p, c) \/ HandleDelete(p, c))
                /\ WF_vars(Finish(p, c))
    /\ WF_vars(Reindex)

FairSpec == Spec /\ Fairness

----------------------------------------------------------------------------
(* Properties *)

\* What an owner sees of this specification: the version of the spec, and the
\* SLOs in Datadog that carry the uid of the resource.
Contract == INSTANCE SLOContract WITH
    declared  <- [c \in Configs |-> cr[c].spec.gen],
    published <- [c \in Configs |-> {[id |-> i, gen |-> slos[i].gen] :
                                        i \in {j \in live : slos[j].uid = c}}]

\* The reconciler keeps the contract: one SLO per SLOConfig, with one id for
\* its whole life, never moved back to an older version of the spec.
KeepsContract == Contract!Spec

\* No two SLOs in Datadog carry the uid of the same SLOConfig: whatever
\* crashes, conflicts and failed calls happen, reconcile_slo finds the SLO it
\* created before instead of creating another.
AtMostOneSLO ==
    \A i, j \in live : slos[i].uid = slos[j].uid => i = j

\* Even when SLOConfigs share a service - a second one, or the successor of a
\* deleted one - path C adopts the SLO of the service: none is created beside it.
AtMostOnePerService ==
    \A i, j \in live : slos[i].service = slos[j].service => i = j

\* status.slo_id never points at another resource's SLO: the id came from a
\* create, a search or an earlier status of this very resource.
StatusRefersToOwnSLO ==
    \A c \in Configs : cr[c].sloId # NoId =>
        /\ cr[c].sloId \in used
        /\ slos[cr[c].sloId].uid = c

\* A status of "ok" is true: the SLO it names holds the spec it was computed
\* from, or a later one.
OkMeansInSync ==
    \A c \in Configs : cr[c].state = "ok" =>
        LET s == slos[cr[c].sloId]
        IN  /\ cr[c].sloId \in live
            /\ \/ s.gen > cr[c].shown.gen
               \/ /\ s.service = cr[c].shown.service
                  /\ s.content = cr[c].shown.content

InSync(c) ==
    /\ cr[c].sloId \in live
    /\ cr[c].state = "ok"
    /\ slos[cr[c].sloId].uid = c
    /\ SameText(slos[cr[c].sloId], cr[c].spec)

\* The last edit put the spec back to the text on record, so kopf sees no difference
\* and calls no handler, although a version in between may have been applied.
Reverted(c) == OnRecord(cr[c]) /\ cr[c].handled.gen # cr[c].spec.gen

\* The operator is asked to bring c to Datadog.
Wanted(c) ==
    c \notin Excluded /\ cr[c].phase = "live" /\ cr[c].spec.content \notin Invalid

\* Once users and crashes stop, every valid SLOConfig ends up with its SLO in
\* Datadog at its latest spec, and with a status that says so, unless its last
\* edit was one that kopf does not see.
Converges == <>[](\A c \in Configs : Wanted(c) /\ ~Reverted(c) => InSync(c))

\* README.md:43 says "Transforma CRDs `SLOConfig` em SLOs reais no Datadog
\* automaticamente", and README.md:422-442 leads from "SLOConfig CRD
\* criado/atualizado" to "Há diferença? -> update_slo()": whatever is edited,
\* the SLO comes to what the resource says.
AlwaysConverges == <>[](\A c \in Configs : Wanted(c) => InSync(c))

\* A version that kopf has recorded as handled was not handled in vain: the SLO
\* and the status are at it, and no handler that is still under way, no late
\* event and no write of another client takes them away from it.
HandledMeansInSync ==
    \A c \in Configs :
        Wanted(c) /\ cr[c].handled.gen = cr[c].spec.gen => InSync(c)

\* Process p has the latest version of c before it: in the watch stream, as the
\* event to be processed next, in its handler, or behind the handler's await.
StillToCome(p, c) ==
    \/ c \in news[p]
    \/ inbox[p][c] = cr[c]
    \/ /\ cr[c].phase = "live"
       /\ \/ h[p].pc # "idle" /\ h[p].cfg = c /\ h[p].spec = cr[c].spec
          \/ finishing[p][c] = cr[c].spec

\* Edits and deletions that come while an older version is awaited, handled or
\* recorded, or just before a crash, are not lost: until the text of the resource
\* is the one on record, every process still has its latest version to come.
NoEditLost ==
    \A c \in Configs :
        \/ cr[c].phase = "live" /\ ~OnRecord(cr[c])
        \/ cr[c].phase = "terminating"
        => \A p \in Ops : StillToCome(p, c)

\* The most calls a handler in frame f can still make: the status takes up to
\* StatusAttempts reads and writes, and as many again for the fallback; before
\* it come the catalogue, the detection, two searches and a PUT or POSTs, with
\* up to MaxAttempts of each search and of the POST.
StatusCalls == 2 * StatusAttempts
CallsLeft(f) ==
    CASE f.pc = "idle" -> 0
      [] f.pc = "lookup" -> 2 * StatusCalls + 3 * MaxAttempts + DetectCalls
                            + CatalogCalls - f.tries
      [] f.pc = "detect" -> 2 * StatusCalls + 3 * MaxAttempts + DetectCalls - f.tries
      [] f.pc = "findUid" -> 2 * StatusCalls + 3 * MaxAttempts - f.tries
      [] f.pc = "findService" -> 2 * StatusCalls + 2 * MaxAttempts - f.tries
      [] f.pc = "create" -> 2 * StatusCalls + MaxAttempts - f.tries
      [] f.pc = "update" -> 2 * StatusCalls + 1
      [] f.pc \in {"getCR", "putStatus"} ->
            (IF f.mode = "result" THEN StatusCalls ELSE 0)
            + 2 * (StatusAttempts - f.tries) - (IF f.pc = "getCR" THEN 0 ELSE 1)

\* Whatever the calls answer, a handler comes to its end: the retries of the
\* client, those of the status writer and the fallback of the controller, one
\* inside the other, never start again from the beginning.
HandlersEnd ==
    [][\A p \in Ops :
          Reconcile(p) => CallsLeft(h'[p]) \in 0..(CallsLeft(h[p]) - 1)]_vars

\* Whatever fails, no edit is forgotten and no deletion hangs: the text a user
\* leaves behind is eventually the one on record, given to the handler now or
\* earlier, and a deleted object loses its finalizer.
EveryEditHandled ==
    <>[](\A c \in Configs : /\ cr[c].phase # "terminating"
                            /\ cr[c].phase = "live" => OnRecord(cr[c]))
=============================================================================
