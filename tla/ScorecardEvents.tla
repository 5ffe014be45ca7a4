--------------------------- MODULE ScorecardEvents ---------------------------
(***************************************************************************)
(* ScorecardController.on_resource_event: for every event of a Deployment, *)
(* evaluate it, write its AppScorecard, see to its automatic SLOConfig and *)
(* tell Slack.                                                             *)
(*                                                                         *)
(* kopf runs the handlers of one Deployment one after the other and those  *)
(* of different Deployments as tasks of one event loop.  The evaluation    *)
(* and AppScorecardWriter.upsert run on threads of the executor, next to   *)
(* the loop; the SLOConfig calls and update_notification run on the loop   *)
(* itself and keep it until the next await.  The finalizer of the delete   *)
(* handler keeps a Deployment, and its name, until kopf is done with it.   *)
(*                                                                         *)
(* One action is one call to the Kubernetes API with what follows it up to *)
(* the next call.  The API server refuses a replacement whose              *)
(* resourceVersion is not the latest, and takes the status of an           *)
(* AppScorecard only through the status subresource its CRD declares.      *)
(***************************************************************************)
EXTENDS Naturals, FiniteSets

CONSTANTS
    Apps,       \* names of Deployments, of a namespace that is not excluded
    Services,   \* values of the label tags.datadoghq.com/service
    None,       \* labels are missing: OPS-001 fails; nobody holds the loop
    First,      \* First[a]: the label that a is deployed with
    Versions,   \* versions of a Deployment that ScoresFollow looks at
    Budgets     \* how often users act and what fails, at most: a behaviour has one

Users == {"deploy", "edit", "relabel", "deletion", "removal"}
Faults == {"read", "kube", "search", "crash"}
Kinds == Users \cup Faults

ASSUME NamesAssumption ==
    /\ None \notin Services /\ None \notin Apps
    /\ First \in [Apps -> Services \cup {None}]
ASSUME BoundsAssumption == Versions \subseteq Nat /\ Budgets \subseteq [Kinds -> Nat]

VARIABLES
    dep,      \* dep[a]: the Deployment called a
    card,     \* card[a]: its AppScorecard
    config,   \* config[s]: the SLOConfig auto-<s>
    cache,    \* cache[a]: _validation_cache, entries not older than the TTL
    buffer,   \* NamespaceNotificationBuffer: apps to be notified
    h,        \* h[a]: the handler of a
    loop,     \* whose handler runs on the event loop (None: the loop is free)
    seen,     \* apps that were handled since the process started
    lost,     \* apps that lost a status because their AppScorecard changed
    debug,    \* LOG_LEVEL is DEBUG
    budget,   \* the budget of the behaviour
    left      \* what is left of it

vars == <<dep, card, config, cache, buffer, h, loop, seen, lost, debug, budget, left>>
allowance == <<debug, budget, left>>
cluster == <<dep, card, config>>
memory == <<cache, buffer, seen>>

----------------------------------------------------------------------------
(* Types and initial state *)

Vers == Nat
Uids == Nat
Labels == Services \cup {None}

\* handled is the last-handled-configuration annotation of kopf.
Phases == {"absent", "live", "terminating"}
Deployment == [phase: Phases, uid: Uids, ver: Vers, label: Labels, handled: Vers]

\* A scorecard is known by the version evaluated; label says if OPS-001 passed.
Scorecard == [ver: Vers, label: Labels]

\* status: the version of the scorecard in it (0: no status); mark: lastSentAt.
Card == [exists: BOOLEAN, owner: Uids, rv: Nat, status: Vers, mark: BOOLEAN]

\* source and sourceUid: its labels; touched: titlis.io/last-deployment-rv.
Config == [exists: BOOLEAN, source: Apps \cup {None}, sourceUid: Uids, touched: Vers]

ThreadSteps == {"evaluate", "get", "replace", "getAgain", "putStatus", "create"}
LoopSteps == {"touch", "apply", "notify", "markGet", "markPut"}
Steps == {"idle", "find", "send", "finish"} \cup ThreadSteps \cup LoopSteps
Body == [uid: Uids, ver: Vers, label: Labels]
Frame == [pc: Steps, body: Body, sc: Scorecard, copy: Card,
          found: Labels, digest: SUBSET Apps, target: Apps \cup {None}]

NoDeployment == [phase |-> "absent", uid |-> 0, ver |-> 0, label |-> None, handled |-> 0]
NoScorecard == [ver |-> 0, label |-> None]
NoCard == [exists |-> FALSE, owner |-> 0, rv |-> 0, status |-> 0, mark |-> FALSE]
NoConfig == [exists |-> FALSE, source |-> None, sourceUid |-> 0, touched |-> 0]
NoBody == [uid |-> 0, ver |-> 0, label |-> None]
Idle == [pc |-> "idle", body |-> NoBody, sc |-> NoScorecard, copy |-> NoCard,
         found |-> None, digest |-> {}, target |-> None]

TypeOK ==
    /\ dep \in [Apps -> Deployment]
    /\ card \in [Apps -> Card]
    /\ config \in [Services -> Config]
    /\ cache \in [Apps -> Scorecard]
    /\ buffer \subseteq Apps
    /\ h \in [Apps -> Frame]
    /\ loop \in Apps \cup {None}
    /\ \A a \in Apps : h[a].pc \in LoopSteps <=> loop = a
    /\ seen \subseteq Apps
    /\ lost \subseteq Apps
    /\ debug \in BOOLEAN
    /\ budget \in [Kinds -> Nat]
    /\ left \in [Kinds -> Nat]
    /\ \A k \in Kinds : left[k] <= budget[k]

Init ==
    /\ dep = [a \in Apps |-> NoDeployment]
    /\ card = [a \in Apps |-> NoCard]
    /\ config = [s \in Services |-> NoConfig]
    /\ cache = [a \in Apps |-> NoScorecard]
    /\ buffer = {}
    /\ h = [a \in Apps |-> Idle]
    /\ loop = None
    /\ seen = {}
    /\ lost = {}
    /\ debug \in BOOLEAN
    /\ budget \in Budgets
    /\ left = budget

----------------------------------------------------------------------------
(* Building blocks *)

Spend(kind) ==
    /\ left[kind] > 0
    /\ left' = [left EXCEPT ![kind] = @ - 1]
    /\ UNCHANGED <<debug, budget>>

Enter(a, frame) == h' = [h EXCEPT ![a] = frame]
Goto(a, step) == Enter(a, [h[a] EXCEPT !.pc = step])

\* Every write of an AppScorecard gives it a new resourceVersion.
WriteCard(a, object) == card' = [card EXCEPT ![a] = [object EXCEPT !.rv = card[a].rv + 1]]

\* The copy of b that handler a fetched may still be written back.
Latest(a, b) == card[b].exists /\ h[a].copy.rv = card[b].rv

\* The upsert is over, well or not: its failures are caught and logged.
AfterUpsert(a) == Enter(a, [h[a] EXCEPT !.pc = "find", !.copy = NoCard])

----------------------------------------------------------------------------
(* Users, the garbage collector, time *)

Deploy(a) ==
    /\ dep[a].phase = "absent"
    /\ Spend("deploy")
    /\ dep' = [dep EXCEPT ![a] = [phase |-> "live", uid |-> @.uid + 1, ver |-> @.ver + 1,
                                  label |-> First[a], handled |-> 0]]
    /\ UNCHANGED <<card, config, memory, h, loop, lost>>

Edit(a) ==
    /\ dep[a].phase = "live"
    /\ \/ Spend("edit") /\ dep' = [dep EXCEPT ![a].ver = @ + 1]
       \/ /\ Spend("relabel")
          /\ \E l \in Labels \ {dep[a].label} :
                dep' = [dep EXCEPT ![a].ver = @ + 1, ![a].label = l]
    /\ UNCHANGED <<card, config, memory, h, loop, lost>>

Delete(a) ==
    /\ dep[a].phase = "live"
    /\ Spend("deletion")
    /\ dep' = [dep EXCEPT ![a].phase = "terminating"]
    /\ UNCHANGED <<card, config, memory, h, loop, lost>>

\* The owner an AppScorecard names is gone, so the AppScorecard goes too.
CollectGarbage(a) ==
    /\ card[a].exists
    /\ dep[a].phase = "absent" \/ dep[a].uid # card[a].owner
    /\ WriteCard(a, NoCard)
    /\ UNCHANGED <<dep, config, memory, h, loop, lost, allowance>>

RemoveConfig(s) ==
    /\ config[s].exists
    /\ Spend("removal")
    /\ config' = [config EXCEPT ![s] = NoConfig]
    /\ UNCHANGED <<dep, card, memory, h, loop, lost>>

\* _cache_ttl is over.
Expire(a) ==
    /\ cache[a] # NoScorecard
    /\ cache' = [cache EXCEPT ![a] = NoScorecard]
    /\ UNCHANGED <<cluster, buffer, seen, h, loop, lost, allowance>>

----------------------------------------------------------------------------
(* kopf *)

EventDue(a) ==
    /\ dep[a].phase = "live"
    /\ dep[a].handled # dep[a].ver \/ a \notin seen

\* on_resource_event with the body of the event, up to the evaluation.
Start(a) ==
    /\ loop = None
    /\ h[a].pc = "idle"
    /\ EventDue(a)
    /\ Enter(a, [Idle EXCEPT !.pc = "evaluate",
                             !.body = [uid |-> dep[a].uid, ver |-> dep[a].ver,
                                       label |-> dep[a].label]])
    /\ UNCHANGED <<cluster, memory, loop, lost, allowance>>

\* The scorecard went to the Titlis API, or that failed: the handler returns, and
\* kopf records the essence it was started with, whatever was achieved.
Finish(a) ==
    /\ loop = None
    /\ h[a].pc = "finish"
    /\ dep' = [dep EXCEPT ![a].handled = h[a].body.ver]
    /\ seen' = seen \cup {a}
    /\ Enter(a, Idle)
    /\ UNCHANGED <<card, config, cache, buffer, loop, lost, allowance>>

\* on_deployment_delete only sends a message; then the finalizer is dropped.
Bury(a) ==
    /\ loop = None
    /\ h[a].pc = "idle"
    /\ dep[a].phase = "terminating"
    /\ dep' = [dep EXCEPT ![a].phase = "absent"]
    /\ UNCHANGED <<card, config, memory, h, loop, lost, allowance>>

Crash ==
    /\ Spend("crash")
    /\ cache' = [a \in Apps |-> NoScorecard]
    /\ buffer' = {}
    /\ h' = [a \in Apps |-> Idle]
    /\ loop' = None
    /\ seen' = {}
    /\ UNCHANGED <<cluster, lost>>

----------------------------------------------------------------------------
(* ScorecardService.evaluate_resource, on a thread *)

\* The scorecard of the cache, or that of the Deployment as it is now.
Evaluate(a) ==
    LET sc == IF cache[a] # NoScorecard THEN cache[a]
              ELSE [ver |-> dep[a].ver, label |-> dep[a].label]
    IN  /\ h[a].pc = "evaluate"
        /\ cache' = [cache EXCEPT ![a] = sc]
        /\ Enter(a, [h[a] EXCEPT !.pc = "get", !.sc = sc])
        /\ UNCHANGED <<cluster, buffer, seen, loop, lost, allowance>>

\* The Deployment cannot be read: the event is handled all the same.
EvaluateFails(a) ==
    /\ h[a].pc = "evaluate"
    /\ cache[a] = NoScorecard
    /\ Spend("read")
    /\ Goto(a, "finish")
    /\ UNCHANGED <<cluster, memory, loop, lost>>

----------------------------------------------------------------------------
(* AppScorecardWriter.upsert, on a thread *)

\* Mutant: a 404 is an error like any other.
FetchExisting(a, next) ==
    IF card[a].exists THEN Enter(a, [h[a] EXCEPT !.pc = next, !.copy = card[a]])
    ELSE AfterUpsert(a)

\* Both reads; a 404 anywhere in the try block leads to the create.
Fetch(a, next) ==
    Enter(a, IF card[a].exists THEN [h[a] EXCEPT !.pc = next, !.copy = card[a]]
             ELSE [h[a] EXCEPT !.pc = "create"])

GetCard(a) ==
    /\ h[a].pc = "get"
    /\ Fetch(a, "replace")
    /\ UNCHANGED <<cluster, memory, loop, lost, allowance>>

GetAgain(a) ==
    /\ h[a].pc = "getAgain"
    /\ Fetch(a, "putStatus")
    /\ UNCHANGED <<cluster, memory, loop, lost, allowance>>

\* Replace what handler a fetched with object; if it is gone, create it; on a
\* conflict give up.
Replace(a, object, Success) ==
    \/ Latest(a, a) /\ WriteCard(a, object) /\ Success /\ UNCHANGED lost
    \/ ~card[a].exists /\ Goto(a, "create") /\ UNCHANGED <<card, lost>>
    \/ /\ card[a].exists /\ ~Latest(a, a)
       /\ lost' = lost \cup {a}
       /\ AfterUpsert(a)
       /\ UNCHANGED card

\* Mutant: the status is not written on its own, as if there was no subresource.
ReplaceOnly(a) ==
    /\ h[a].pc = "replace"
    /\ Replace(a, h[a].copy, AfterUpsert(a))
    /\ UNCHANGED <<dep, config, memory, loop, allowance>>

\* Labels and spec are replaced; the owner stays the one the copy names.
ReplaceCard(a) ==
    /\ h[a].pc = "replace"
    /\ Replace(a, h[a].copy, Goto(a, "getAgain"))
    /\ UNCHANGED <<dep, config, memory, loop, allowance>>

\* The new status holds no notification.
PutStatus(a) ==
    /\ h[a].pc = "putStatus"
    /\ Replace(a, [h[a].copy EXCEPT !.status = h[a].sc.ver, !.mark = FALSE], AfterUpsert(a))
    /\ UNCHANGED <<dep, config, memory, loop, allowance>>

\* The API server drops the status of the body: it belongs to the subresource.
CreateCard(a) ==
    /\ h[a].pc = "create"
    /\ IF card[a].exists
       THEN UNCHANGED card /\ lost' = lost \cup {a}
       ELSE /\ WriteCard(a, [NoCard EXCEPT !.exists = TRUE, !.owner = h[a].body.uid])
            /\ UNCHANGED lost
    /\ AfterUpsert(a)
    /\ UNCHANGED <<dep, config, memory, loop, allowance>>

UpsertFails(a) ==
    /\ h[a].pc \in ThreadSteps \ {"evaluate"}
    /\ Spend("kube")
    /\ AfterUpsert(a)
    /\ UNCHANGED <<cluster, memory, loop, lost>>

----------------------------------------------------------------------------
(* _maybe_auto_create_slo, on the loop *)

\* SLOConfigs whose label titlis.io/source-uid is the uid of the Deployment.
Sourced(a, uid) ==
    {s \in Services : config[s].exists /\ config[s].source = a /\ config[s].sourceUid = uid}

\* The body has its Datadog labels and the scorecard passed OPS-001.
WantsSLO(a) == h[a].body.label # None /\ h[a].sc.label # None

Proceed(a, step, s) ==
    /\ loop = None
    /\ h[a].pc = "find"
    /\ loop' = a
    /\ Enter(a, [h[a] EXCEPT !.pc = step, !.sc = NoScorecard, !.found = s])

ConfigDone(a) ==
    /\ Enter(a, [h[a] EXCEPT !.pc = "notify", !.found = None])
    /\ UNCHANGED loop

\* A log call with an extra key called name raises KeyError: in the try block of
\* _touch_sloconfig first, in its except clause then, which ends the try block of
\* on_resource_event, and nobody is notified.
Abandon(a) ==
    /\ Enter(a, [h[a] EXCEPT !.pc = "finish", !.found = None])
    /\ loop' = None

SkipSLO(a) ==
    /\ ~WantsSLO(a)
    /\ Proceed(a, "notify", None)
    /\ UNCHANGED <<cluster, memory, lost, allowance>>

\* Mutant: look the SLOConfig up by the name it would be given.
FindByName(a) ==
    LET s == h[a].body.label
    IN  /\ WantsSLO(a)
        /\ \/ ~config[s].exists /\ Proceed(a, "apply", None)
           \/ config[s].exists /\ Proceed(a, "touch", s)
        /\ UNCHANGED <<cluster, memory, lost, allowance>>

\* _find_sloconfig_by_source_uid: the first match is touched, unless the event is
\* of a resourceVersion it was touched for already.  A version has several: kopf
\* annotates the Deployment, and its status changes.
FindConfig(a) ==
    LET matches == Sourced(a, h[a].body.uid)
        Touched(s) == config[s].touched = h[a].body.ver
    IN  /\ WantsSLO(a)
        /\ \/ matches = {} /\ Proceed(a, "apply", None)
           \/ \E s \in matches : Touched(s) /\ Proceed(a, "notify", None)
           \/ \E s \in matches : Proceed(a, "touch", s)
        /\ UNCHANGED <<cluster, memory, lost, allowance>>

\* A search that fails is a search that finds nothing.
FindFails(a) ==
    /\ WantsSLO(a)
    /\ Proceed(a, "apply", None)
    /\ Spend("search")
    /\ UNCHANGED <<cluster, memory, lost>>

\* _touch_sloconfig: only below the level DEBUG does it go well.
TouchConfig(a) ==
    LET s == h[a].found
    IN  /\ h[a].pc = "touch"
        /\ config' = IF config[s].exists
                     THEN [config EXCEPT ![s].touched = h[a].body.ver]
                     ELSE config
        /\ IF config[s].exists /\ ~debug THEN ConfigDone(a) ELSE Abandon(a)
        /\ UNCHANGED <<dep, card, memory, lost, allowance>>

\* Refused if the name is taken.
ApplyConfig(a) ==
    LET s == h[a].body.label
    IN  /\ h[a].pc = "apply"
        /\ config' = IF config[s].exists THEN config
                     ELSE [config EXCEPT ![s] = [exists |-> TRUE, source |-> a,
                                                 sourceUid |-> h[a].body.uid, touched |-> 0]]
        /\ ConfigDone(a)
        /\ UNCHANGED <<dep, card, memory, lost, allowance>>

ConfigFails(a) ==
    /\ \/ h[a].pc = "touch" /\ Abandon(a)
       \/ h[a].pc = "apply" /\ ConfigDone(a)
    /\ Spend("kube")
    /\ UNCHANGED <<cluster, memory, lost>>

----------------------------------------------------------------------------
(* Notification, on the loop *)

\* Not selected by should_notify, or left in the buffer, or taken out of it with
\* what waits there.
Notify(a) ==
    /\ h[a].pc = "notify"
    /\ loop' = None
    /\ \/ Goto(a, "finish") /\ buffer' \in {buffer, buffer \cup {a}}
       \/ /\ Enter(a, [h[a] EXCEPT !.pc = "send", !.digest = buffer \cup {a}])
          /\ buffer' = {}
    /\ UNCHANGED <<cluster, cache, seen, lost, allowance>>

\* _send_slack_notification_safe returned.
SlackAnswers(a) ==
    /\ loop = None
    /\ h[a].pc = "send"
    /\ \/ Goto(a, "finish") /\ UNCHANGED loop
       \/ Goto(a, "markGet") /\ loop' = a
    /\ UNCHANGED <<cluster, memory, lost, allowance>>

\* update_notification is done with b: the next one, or the end of the handler.
Marked(a, b) ==
    LET rest == h[a].digest \ {b}
    IN  /\ Enter(a, [h[a] EXCEPT !.pc = IF rest = {} THEN "finish" ELSE "markGet",
                                 !.digest = rest, !.target = None,
                                 !.copy = NoCard])
        /\ loop' = IF rest = {} THEN None ELSE a

\* Its read.
MarkGet(a) ==
    /\ h[a].pc = "markGet"
    /\ \E b \in h[a].digest :
          IF card[b].exists
          THEN /\ Enter(a, [h[a] EXCEPT !.pc = "markPut", !.copy = card[b], !.target = b])
               /\ UNCHANGED loop
          ELSE Marked(a, b)
    /\ UNCHANGED <<cluster, memory, lost, allowance>>

\* Mutant: the write is a patch of the status, which has no resourceVersion.
MarkPatch(a) ==
    LET b == h[a].target
    IN  /\ h[a].pc = "markPut"
        /\ IF card[b].exists THEN WriteCard(b, [h[a].copy EXCEPT !.mark = TRUE])
           ELSE UNCHANGED card
        /\ Marked(a, b)
        /\ UNCHANGED <<dep, config, memory, lost, allowance>>

\* Its write: the status that was read, with the notification.
MarkPut(a) ==
    LET b == h[a].target
    IN  /\ h[a].pc = "markPut"
        /\ IF Latest(a, b) THEN WriteCard(b, [h[a].copy EXCEPT !.mark = TRUE])
           ELSE UNCHANGED card
        /\ Marked(a, b)
        /\ UNCHANGED <<dep, config, memory, lost, allowance>>

MarkFails(a) ==
    /\ h[a].pc \in {"markGet", "markPut"}
    /\ Spend("kube")
    /\ \E b \in h[a].digest :
          /\ h[a].pc = "markPut" => b = h[a].target
          /\ Marked(a, b)
    /\ UNCHANGED <<cluster, memory, lost>>

----------------------------------------------------------------------------
(* The specification *)

User(a) == Deploy(a) \/ Edit(a) \/ Delete(a)
Kopf(a) == Start(a) \/ Finish(a) \/ Bury(a)
Scoring(a) == Evaluate(a) \/ EvaluateFails(a)
Upsert(a) ==
    GetCard(a) \/ ReplaceCard(a) \/ GetAgain(a) \/ PutStatus(a) \/ CreateCard(a) \/ UpsertFails(a)
AutoSLO(a) ==
    SkipSLO(a) \/ FindConfig(a) \/ FindFails(a) \/ TouchConfig(a) \/ ApplyConfig(a) \/ ConfigFails(a)
Notification(a) ==
    Notify(a) \/ SlackAnswers(a) \/ MarkGet(a) \/ MarkPut(a) \/ MarkFails(a)
Program(a) == Kopf(a) \/ Scoring(a) \/ Upsert(a) \/ AutoSLO(a) \/ Notification(a)

Next ==
    \/ \E a \in Apps : User(a) \/ Program(a) \/ CollectGarbage(a) \/ Expire(a)
    \/ \E s \in Services : RemoveConfig(s)
    \/ Crash

Spec == Init /\ [][Next]_vars

\* The process runs, and each of its calls returns or fails.
FairSpec == Spec /\ \A a \in Apps : WF_vars(Program(a))

----------------------------------------------------------------------------
(* Properties *)

\* No fault of kind k happened so far.
Spared(k) == left[k] = budget[k]

\* The status of an AppScorecard never goes back to an older evaluation, nor to
\* none, although upsert and update_notification, each of which reads it and
\* writes the whole of it back, interleave, and evaluations come from a cache.
NeverBackwards ==
    [][\A a \in Apps : card[a].exists /\ card'[a].exists
          => card'[a].status >= card[a].status]_vars

\* A Deployment is the source of one SLOConfig at most, also when its service
\* label changes, as long as no search failed.
OneConfigPerDeployment ==
    Spared("search") =>
        \A a \in Apps : Cardinality(Sourced(a, dep[a].uid)) <= 1

\* The first Deployment of a name gets its AppScorecard, whatever crashes, if the
\* API server answers.
Answering == Spared("read") /\ Spared("kube")
EveryAppGetsACard ==
    \A a \in Apps :
        dep[a].phase = "live" /\ dep[a].uid = 1
            ~> card[a].exists \/ dep[a].phase # "live" \/ ~Answering

\* kopf calls no handler again for what it has recorded as handled, and the handler
\* swallows what goes wrong: once the event of a first Deployment is recorded, its
\* AppScorecard is there, and stays there while users edit and handlers interleave.
HandledMeansCarded ==
    \A a \in Apps :
        dep[a].phase # "absent" /\ dep[a].uid = 1 /\ dep[a].handled # 0 /\ Answering
            => card[a].exists

\* The scores of a version follow, if its AppScorecard exists when its event
\* arrives, the evaluation of an older one is not in the cache, and the
\* notification of another handler does not come in between.
Waiting(a, v) ==
    /\ dep[a].phase = "live" /\ dep[a].ver = v /\ dep[a].handled # v
    /\ h[a].pc = "idle" /\ cache[a] = NoScorecard
    /\ card[a].exists /\ card[a].owner = dep[a].uid
ScoresFollow ==
    \A a \in Apps : \A v \in Versions :
        Waiting(a, v) ~> \/ card[a].status >= v
                         \/ dep[a].phase # "live" \/ a \in lost \/ ~Answering

\* README.md, lines 266-269: when the ResourceScorecard is there, "ScorecardController:
\* [...] Notificação -> should_notify()? -> buffer -> flush -> Slack", whatever became of
\* its AppScorecard and its SLOConfig before, as long as no process crashes.
EvaluatedMeansWeighed ==
    [][\A a \in Apps : h[a].pc \in {"find", "touch", "apply"} =>
            h'[a].pc \in {"find", "touch", "apply", "notify"}]_vars
=============================================================================
