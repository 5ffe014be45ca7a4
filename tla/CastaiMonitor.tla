---------------------------- MODULE CastaiMonitor ----------------------------
(***************************************************************************)
(* The CAST AI monitor process: one asyncio task that looks at the pods of *)
(* each CAST AI service, on a thread of the executor, sends a gauge per    *)
(* service to Datadog, on the loop itself, and sleeps for its interval.    *)
(* A signal cancels the task where it awaits; the process ends when the    *)
(* thread is done too.                                                     *)
(***************************************************************************)
EXTENDS Naturals, Sequences, FiniteSets, SequencesExt

CONSTANTS
    CastaiServices,   \* CASTAI_SERVICES, a sequence
    NoReading,        \* no value
    MaxPodEvents,     \* bound: how often pods change
    MaxCastaiFaults   \* bound: how many calls fail

ASSUME CastaiBounds ==
    /\ CastaiServices \in Seq(STRING) /\ CastaiServices # <<>>
    /\ NoReading \notin {0, 1}
    /\ MaxPodEvents \in Nat /\ MaxCastaiFaults \in Nat

ServiceSet == ToSet(CastaiServices)

VARIABLES
    settings,      \* CASTAI_CLUSTER_NAME and DD_API_KEY are set
    pods,          \* pods[s]: the pods of s, by age, the newest last
    task,          \* where the task is: sleep, look, send or over
    worker,        \* the thread runs check_all
    place,         \* the index of the service that is looked at, or sent
    selector,      \* the label that the next list call asks for
    readings,      \* readings[s]: is_healthy of the result of s
    rightly,       \* rightly[s]: the readings that were right since the round began
    preferred,     \* preferred[s]: whether s had pods labelled app, since the round began
    castaiGauge,   \* castaiGauge[s]: the last value that Datadog got
    signal,        \* SIGTERM or SIGINT: none yet, pending (task.cancel()), delivered
    podEvents, castaiFaults

castaiVars == <<settings, pods, task, worker, place, selector, readings, rightly, preferred,
                castaiGauge, signal, podEvents, castaiFaults>>

\* A pod is Running and Ready, or not; its label is app or app.kubernetes.io/name.
Labels == {"app", "name"}
Pods == [ready : BOOLEAN, label : Labels]
ReadingValues == {0, 1, NoReading}

CastaiTypeOK ==
    /\ settings \in [cluster : BOOLEAN, key : BOOLEAN]
    /\ pods \in [ServiceSet -> Seq(Pods)]
    /\ task \in {"sleep", "look", "send", "over"}
    /\ worker \in BOOLEAN
    /\ place \in 1..Len(CastaiServices)
    /\ selector \in Labels
    /\ readings \in [ServiceSet -> ReadingValues]
    /\ rightly \in [ServiceSet -> SUBSET ReadingValues]
    /\ preferred \in [ServiceSet -> SUBSET BOOLEAN]
    /\ castaiGauge \in [ServiceSet -> ReadingValues]
    /\ signal \in {"none", "pending", "delivered"}
    /\ podEvents \in 0..MaxPodEvents /\ castaiFaults \in 0..MaxCastaiFaults
    /\ task = "look" => worker
    /\ worker \/ selector = "app"
    /\ task = "over" => signal = "delivered"

Ready(label) == [ready |-> TRUE, label |-> label]

CastaiInit ==
    /\ settings \in [cluster : BOOLEAN, key : BOOLEAN]
    /\ \E label \in Labels : pods = [s \in ServiceSet |-> <<Ready(label)>>]
    /\ task = "sleep" /\ worker = FALSE /\ place = 1 /\ selector = "app"
    /\ readings = [s \in ServiceSet |-> NoReading]
    /\ rightly = [s \in ServiceSet |-> {}]
    /\ preferred = [s \in ServiceSet |-> {}]
    /\ castaiGauge = [s \in ServiceSet |-> NoReading]
    /\ signal = "none"
    /\ podEvents = MaxPodEvents /\ castaiFaults = MaxCastaiFaults

----------------------------------------------------------------------------
(* CastAIHealthChecker *)

Labelled(ps, label) == SelectSeq(ps, LAMBDA p : p.label = label)

Has(ps, label) == Labelled(ps, label) # <<>>

\* _evaluate_pod: the newest pod that was found decides.
Healthy(found) == IF found # <<>> /\ Last(found).ready THEN 1 ELSE 0

\* The right reading of pods: those of the first selector that finds any.
CheckService(ps) == Healthy(Labelled(ps, IF Has(ps, "app") THEN "app" ELSE "name"))

Service(i) == CastaiServices[i]
LastPlace == Len(CastaiServices)

----------------------------------------------------------------------------
(* The task *)

castaiWorld == <<settings, pods, signal, podEvents>>

\* Without a cluster name, or a client, the round is over at once.
BeginRound ==
    /\ task = "sleep" /\ signal # "pending" /\ settings.cluster
    /\ task' = "look" /\ worker' = TRUE /\ place' = 1 /\ selector' = "app"
    /\ readings' = [s \in ServiceSet |-> NoReading]
    /\ rightly' = [s \in ServiceSet |-> {CheckService(pods[s])}]
    /\ preferred' = [s \in ServiceSet |-> {Has(pods[s], "app")}]
    /\ UNCHANGED <<castaiWorld, castaiGauge, castaiFaults>>

\* Mutant: the thread hands its results on although nobody waits for them.
CheckedAnyway(value) ==
    /\ worker
    /\ readings' = [readings EXCEPT ![Service(place)] = value]
    /\ selector' = "app"
    /\ IF place < LastPlace
       THEN place' = place + 1 /\ UNCHANGED <<task, worker>>
       ELSE /\ place' = 1 /\ worker' = FALSE
            /\ task' = IF settings.key THEN "send"
                       ELSE IF task = "look" THEN "sleep" ELSE task
    /\ UNCHANGED <<castaiWorld, preferred, castaiGauge>>

\* The thread goes on to the next service, and after the last one is done: if the
\* task still waits for it, it has its results.
Checked(value) ==
    /\ worker
    /\ readings' = [readings EXCEPT ![Service(place)] = value]
    /\ selector' = "app"
    /\ IF place < LastPlace
       THEN place' = place + 1 /\ UNCHANGED <<task, worker>>
       ELSE /\ place' = 1 /\ worker' = FALSE
            /\ task' = IF task # "look" THEN task
                       ELSE IF settings.key THEN "send" ELSE "sleep"
    /\ UNCHANGED <<castaiWorld, preferred, castaiGauge>>

\* _find_pods makes one list call per selector: the one for the label name when there
\* was no pod labelled app.
FoundByApp ==
    /\ selector = "app" /\ Has(pods[Service(place)], "app")
    /\ Checked(Healthy(Labelled(pods[Service(place)], "app")))
    /\ UNCHANGED <<rightly, castaiFaults>>

NoneByApp ==
    /\ worker /\ selector = "app" /\ ~Has(pods[Service(place)], "app")
    /\ selector' = "name"
    /\ UNCHANGED <<castaiWorld, task, worker, place, readings, rightly, preferred,
                   castaiGauge, castaiFaults>>

ListByName ==
    /\ selector = "name"
    /\ Checked(Healthy(Labelled(pods[Service(place)], "name")))
    /\ UNCHANGED <<rightly, castaiFaults>>

\* Mutant: a service whose pods cannot be listed is left out.
CheckSkips ==
    /\ castaiFaults > 0 /\ castaiFaults' = castaiFaults - 1
    /\ Checked(NoReading)
    /\ UNCHANGED rightly

\* A list call that fails counts as no pod.
CheckFails ==
    /\ castaiFaults > 0 /\ castaiFaults' = castaiFaults - 1
    /\ Checked(0)
    /\ rightly' = [rightly EXCEPT ![Service(place)] = @ \cup {0}]

\* Mutant: the first gauge is the last.
SentFirst(update) ==
    /\ task = "send"
    /\ castaiGauge' = update
    /\ place' = 1 /\ task' = "sleep"
    /\ UNCHANGED <<castaiWorld, worker, selector, readings, rightly, preferred>>

\* send_all: each service on its own, a failure of one is logged.
Sent(update) ==
    /\ task = "send"
    /\ castaiGauge' = update
    /\ IF place < LastPlace THEN place' = place + 1 /\ UNCHANGED task
       ELSE place' = 1 /\ task' = "sleep"
    /\ UNCHANGED <<castaiWorld, worker, selector, readings, rightly, preferred>>

SendGauge ==
    /\ Sent([castaiGauge EXCEPT ![Service(place)] = readings[Service(place)]])
    /\ UNCHANGED castaiFaults

SendGaugeFails ==
    /\ castaiFaults > 0 /\ castaiFaults' = castaiFaults - 1
    /\ Sent(castaiGauge)

----------------------------------------------------------------------------
(* Signals and pods *)

\* Mutant: the try block of the round catches the cancellation as well.
CancelRound ==
    /\ signal = "pending" /\ task \in {"sleep", "look"}
    /\ signal' = "delivered"
    /\ task' = IF task = "look" THEN "sleep" ELSE "over"
    /\ UNCHANGED <<settings, pods, podEvents, worker, place, selector, readings, rightly,
                   preferred, castaiGauge, castaiFaults>>

\* The loop handles signals while the task awaits; CancelledError is no Exception, so
\* neither try block of the round holds it.
Cancel ==
    /\ signal = "pending" /\ task \in {"sleep", "look"}
    /\ signal' = "delivered"
    /\ task' = "over"
    /\ UNCHANGED <<settings, pods, podEvents, worker, place, selector, readings, rightly,
                   preferred, castaiGauge, castaiFaults>>

Terminate ==
    /\ signal = "none" /\ signal' = "pending"
    /\ UNCHANGED <<settings, pods, podEvents, task, worker, place, selector, readings,
                   rightly, preferred, castaiGauge, castaiFaults>>

\* A pod is created, changes or is deleted.
PodEvent(s) ==
    /\ podEvents > 0 /\ podEvents' = podEvents - 1
    /\ \/ \E p \in Pods : pods' = [pods EXCEPT ![s] = Append(@, p)]
       \/ \E i \in DOMAIN pods[s] :
             \/ pods' = [pods EXCEPT ![s][i].ready = ~@]
             \/ pods' = [pods EXCEPT ![s] = RemoveAt(@, i)]
    /\ rightly' = [rightly EXCEPT ![s] = @ \cup {CheckService(pods'[s])}]
    /\ preferred' = [preferred EXCEPT ![s] = @ \cup {Has(pods'[s], "app")}]
    /\ UNCHANGED <<settings, task, worker, place, selector, readings, castaiGauge, signal,
                   castaiFaults>>

Check == FoundByApp \/ NoneByApp \/ ListByName

Monitor == BeginRound \/ Check \/ SendGauge \/ Cancel

CastaiNext ==
    \/ Monitor \/ CheckFails \/ SendGaugeFails \/ Terminate
    \/ \E s \in ServiceSet : PodEvent(s)

CastaiSpec == CastaiInit /\ [][CastaiNext]_castaiVars

\* The loop and the thread run, and calls return or fail.
CastaiFairness == WF_castaiVars(Monitor)
FairCastaiSpec == CastaiSpec /\ CastaiFairness

----------------------------------------------------------------------------
(* Properties *)

\* What is sent for a service was right at some time of the round, or its pods could
\* not be listed: never the result of an earlier round, or of the other service.  Only
\* when its first pod labelled app came, or its last one went, within the round, may
\* the value be one that was never right: _find_pods asks for either label once.
ReadingsAreTrue ==
    task = "send" =>
        \A s \in ServiceSet :
            /\ readings[s] # NoReading
            /\ readings[s] \in rightly[s] \/ preferred[s] = BOOLEAN

\* Nothing is sent after the task was cancelled, although its thread goes on.
NoGaugeOnceOver == [][task = "over" => castaiGauge' = castaiGauge /\ task' = "over"]_castaiVars

\* The state of the pods gets to Datadog, whatever failed before: unless pods keep
\* changing, the gauges are right in the end.
PodsFollow ==
    \A s \in ServiceSet :
        []<>(settings.cluster /\ settings.key /\ signal = "none"
                => castaiGauge[s] = CheckService(pods[s]))

\* A signal ends the process, also when the task waits for its thread.
SignalEnds == []<>(signal # "none" => task = "over" /\ ~worker)
=============================================================================
