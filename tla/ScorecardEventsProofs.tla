------------------------ MODULE ScorecardEventsProofs ------------------------
(***************************************************************************)
(* Theorems about ScorecardEvents, for any Deployments, services, mixes of *)
(* faults and numbers of crashes.                                          *)
(***************************************************************************)
EXTENDS ScorecardEvents, FiniteSetTheorems, TLAPS

----------------------------------------------------------------------------
(* Frames *)

\* What the handlers point at when they write.
Aimed(a) ==
    /\ h[a].pc = "markPut" => h[a].target \in Apps
    /\ h[a].pc = "touch" => h[a].found \in Services
    /\ h[a].pc = "apply" => h[a].body.label \in Services

\* The part of TypeOK that is about the process, with Aimed.
ProcessOK ==
    /\ h \in [Apps -> Frame]
    /\ loop \in Apps \cup {None}
    /\ \A a \in Apps : h[a].pc \in LoopSteps <=> loop = a
    /\ \A a \in Apps : Aimed(a)

WorldOK ==
    /\ dep \in [Apps -> Deployment]
    /\ card \in [Apps -> Card]
    /\ config \in [Services -> Config]
    /\ cache \in [Apps -> Scorecard]
    /\ buffer \subseteq Apps
    /\ seen \subseteq Apps
    /\ lost \subseteq Apps

AllowanceOK ==
    /\ debug \in BOOLEAN
    /\ budget \in [Kinds -> Nat]
    /\ left \in [Kinds -> Nat]
    /\ \A k \in Kinds : left[k] <= budget[k]

\* The type invariant, cut into what the process holds, what the cluster holds and what
\* may still go wrong.
LEMMA TypeParts == TypeOK /\ (\A a \in Apps : Aimed(a)) <=> ProcessOK /\ WorldOK /\ AllowanceOK
BY DEF TypeOK, ProcessOK, WorldOK, AllowanceOK

\* The shapes of the frames that the actions enter.
LEMMA FrameShapes ==
    ASSUME NEW f \in Frame, NEW pc \in Steps, NEW sc \in Scorecard, NEW copy \in Card,
           NEW found \in Labels, NEW digest \in SUBSET Apps, NEW target \in Apps \cup {None}
    PROVE  /\ [f EXCEPT !.pc = pc] \in Frame
           /\ [f EXCEPT !.pc = pc, !.copy = copy] \in Frame
           /\ [f EXCEPT !.pc = pc, !.sc = sc] \in Frame
           /\ [f EXCEPT !.pc = pc, !.sc = sc, !.found = found] \in Frame
           /\ [f EXCEPT !.pc = pc, !.found = found] \in Frame
           /\ [f EXCEPT !.pc = pc, !.digest = digest] \in Frame
           /\ [f EXCEPT !.pc = pc, !.copy = copy, !.target = target] \in Frame
           /\ [f EXCEPT !.pc = pc, !.digest = digest, !.target = target, !.copy = copy] \in Frame
<1> DEFINE T == Apps \cup {None}
           D == SUBSET Apps
<1>1. Frame = [pc: Steps, body: Body, sc: Scorecard, copy: Card, found: Labels, digest: D, target: T]
  BY DEF Frame
<1>2. digest \in D /\ target \in T
  OBVIOUS
<1> HIDE DEF D, T
<1> QED  BY <1>1, <1>2

\* What is not there yet has the type of what is.
LEMMA Blank ==
    /\ NoScorecard \in Scorecard /\ NoCard \in Card /\ NoBody \in Body
    /\ NoConfig \in Config /\ NoDeployment \in Deployment /\ Idle \in Frame
    /\ Idle.pc = "idle"
<1>1. NoScorecard \in Scorecard
  BY DEF NoScorecard, Scorecard, Vers, Labels
<1>2. NoCard \in Card
  BY DEF NoCard, Card, Uids, Vers
<1>3. NoBody \in Body
  BY DEF NoBody, Body, Uids, Vers, Labels
<1>4. NoConfig \in Config
  BY DEF NoConfig, Config, Uids, Vers
<1>5. NoDeployment \in Deployment
  BY DEF NoDeployment, Deployment, Phases, Uids, Vers, Labels
<1>6. Idle \in Frame
  <2>1. "idle" \in Steps /\ None \in Labels /\ {} \in SUBSET Apps /\ None \in Apps \cup {None}
    BY DEF Steps, Labels
  <2> QED  BY <1>1, <1>2, <1>3, <2>1 DEF Idle, Frame
<1> QED  BY <1>1, <1>2, <1>3, <1>4, <1>5, <1>6 DEF Idle

\* A handler goes from one step to another, and takes, keeps or leaves the loop.
LEMMA Moving ==
    ASSUME ProcessOK, NEW a \in Apps, NEW frame \in Frame, Enter(a, frame),
           \/ loop' = loop
           \/ loop \in {None, a} /\ loop' \in {None, a},
           frame.pc \in LoopSteps <=> loop' = a,
           frame.pc = "markPut" => frame.target \in Apps,
           frame.pc = "touch" => frame.found \in Services,
           frame.pc = "apply" => frame.body.label \in Services
    PROVE  ProcessOK'
<1>1. h' \in [Apps -> Frame] /\ h'[a] = frame /\ \A b \in Apps \ {a} : h'[b] = h[b]
  BY DEF ProcessOK, Enter
<1>2. loop' \in Apps \cup {None}
  BY DEF ProcessOK
<1>3. ASSUME NEW b \in Apps PROVE h'[b].pc \in LoopSteps <=> loop' = b
  <2>1. None # b
    BY NamesAssumption
  <2>2. CASE b = a
    BY <1>1, <2>2
  <2>3. CASE b # a
    BY <1>1, <2>1, <2>3 DEF ProcessOK
  <2> QED  BY <2>2, <2>3
<1>4. ASSUME NEW b \in Apps PROVE Aimed(b)'
  <2>1. CASE b = a
    BY <1>1, <2>1 DEF Aimed
  <2>2. CASE b # a
    BY <1>1, <2>2 DEF Aimed, ProcessOK
  <2> QED  BY <2>1, <2>2
<1> QED  BY <1>1, <1>2, <1>3, <1>4 DEF ProcessOK

\* A process that does not move keeps its types.
LEMMA Staying == ASSUME ProcessOK, UNCHANGED <<h, loop>> PROVE ProcessOK'
BY DEF ProcessOK, Aimed

\* A handler that is not on the loop goes on without it.
LEMMA OffLoop ==
    ASSUME ProcessOK, NEW a \in Apps, NEW frame \in Frame, Enter(a, frame),
           UNCHANGED loop, h[a].pc \notin LoopSteps, frame.pc \notin LoopSteps
    PROVE  ProcessOK'
<1>1. loop' # a
  BY DEF ProcessOK
<1>2. frame.pc \notin {"markPut", "touch", "apply"}
  BY DEF LoopSteps
<1> QED  BY <1>1, <1>2, Moving

----------------------------------------------------------------------------
(* The process *)

\* Frames of the thread, of a handler that has just read.
LEMMA HandlerParts ==
    ASSUME ProcessOK, NEW a \in Apps
    PROVE  /\ h[a] \in Frame /\ h[a].pc \in Steps /\ h[a].body \in Body
           /\ h[a].sc \in Scorecard /\ h[a].copy \in Card /\ h[a].found \in Labels
           /\ h[a].digest \subseteq Apps /\ h[a].target \in Apps \cup {None}
<1>1. h[a] \in Frame
  BY DEF ProcessOK
<1> QED  BY <1>1 DEF Frame

\* To go on after the upsert keeps the types of the process.
LEMMA AfterUpsertProcess ==
    ASSUME ProcessOK, NEW a \in Apps, UNCHANGED loop, h[a].pc \in ThreadSteps, AfterUpsert(a)
    PROVE  ProcessOK'
<1> DEFINE frame == [h[a] EXCEPT !.pc = "find", !.copy = NoCard]
<1>1. "find" \in Steps /\ "find" \notin LoopSteps /\ h[a].pc \notin LoopSteps
  BY DEF Steps, LoopSteps, ThreadSteps
<1>2. frame \in Frame
  BY <1>1, FrameShapes, HandlerParts, Blank
<1>pc. frame.pc = "find"
  BY HandlerParts DEF Frame
<1>3. Enter(a, frame)
  BY DEF AfterUpsert
<1> HIDE DEF frame
<1> QED  BY <1>1, <1>2, <1>pc, <1>3, OffLoop

\* One thread step after another.
LEMMA GotoProcess ==
    ASSUME ProcessOK, NEW a \in Apps, UNCHANGED loop, NEW step \in Steps \ LoopSteps,
           h[a].pc \notin LoopSteps, Goto(a, step)
    PROVE  ProcessOK'
<1> DEFINE frame == [h[a] EXCEPT !.pc = step]
<1>1. frame \in Frame
  BY FrameShapes, HandlerParts
<1>pc. frame.pc = step
  BY HandlerParts DEF Frame
<1>2. Enter(a, frame)
  BY DEF Goto
<1> HIDE DEF frame
<1> QED  BY <1>1, <1>pc, <1>2, OffLoop

\* To read the AppScorecard keeps them.
LEMMA FetchProcess ==
    ASSUME ProcessOK, WorldOK, NEW a \in Apps, UNCHANGED loop, h[a].pc \in ThreadSteps,
           NEW next \in ThreadSteps, Fetch(a, next)
    PROVE  ProcessOK'
<1>1. /\ "create" \in Steps \ LoopSteps /\ next \in Steps \ LoopSteps
      /\ h[a].pc \notin LoopSteps
  BY DEF Steps, LoopSteps, ThreadSteps
<1>2. CASE card[a].exists
  <2> DEFINE frame == [h[a] EXCEPT !.pc = next, !.copy = card[a]]
  <2>1. card[a] \in Card
    BY DEF WorldOK
  <2>2. frame \in Frame
    BY <1>1, <2>1, FrameShapes, HandlerParts
  <2>pc. frame.pc = next
    BY HandlerParts DEF Frame
  <2>3. Enter(a, frame)
    BY <1>2 DEF Fetch
  <2> HIDE DEF frame
  <2> QED  BY <1>1, <2>2, <2>pc, <2>3, OffLoop
<1>3. CASE ~card[a].exists
  BY <1>1, <1>3, GotoProcess DEF Fetch, Goto
<1> QED  BY <1>2, <1>3

\* To replace it keeps them, whatever the API server says.
LEMMA ReplaceProcess ==
    ASSUME ProcessOK, NEW a \in Apps, UNCHANGED loop, h[a].pc \in ThreadSteps,
           NEW object, NEW Success \in BOOLEAN, Replace(a, object, Success), Success => ProcessOK'
    PROVE  ProcessOK'
<1>1. "create" \in Steps \ LoopSteps /\ h[a].pc \notin LoopSteps
  BY DEF Steps, LoopSteps, ThreadSteps
<1> QED  BY <1>1, GotoProcess, AfterUpsertProcess DEF Replace

\* The handler takes the loop for the SLOConfig, or for the notification.
LEMMA ProceedProcess ==
    ASSUME ProcessOK, NEW a \in Apps, NEW step \in {"touch", "apply", "notify"},
           NEW s \in Labels, Proceed(a, step, s),
           step = "touch" => s \in Services,
           step = "apply" => h[a].body.label \in Services
    PROVE  ProcessOK'
<1> DEFINE frame == [h[a] EXCEPT !.pc = step, !.sc = NoScorecard, !.found = s]
<1>1. step \in Steps /\ step \in LoopSteps /\ step # "markPut"
  BY DEF Steps, LoopSteps
<1>2. frame \in Frame
  BY <1>1, FrameShapes, HandlerParts, Blank
<1>3. frame.pc = step /\ frame.found = s /\ frame.body = h[a].body
  BY HandlerParts DEF Frame
<1>4. Enter(a, frame) /\ loop = None /\ loop' = a
  BY DEF Proceed
<1> HIDE DEF frame
<1> QED  BY <1>1, <1>2, <1>3, <1>4, Moving

\* To be done with the SLOConfig keeps them.
LEMMA ConfigDoneProcess ==
    ASSUME ProcessOK, NEW a \in Apps, h[a].pc \in {"touch", "apply"}, ConfigDone(a)
    PROVE  ProcessOK'
<1> DEFINE frame == [h[a] EXCEPT !.pc = "notify", !.found = None]
<1>1. "notify" \in Steps /\ "notify" \in LoopSteps /\ None \in Labels
  BY DEF Steps, LoopSteps, Labels
<1>2. frame \in Frame
  BY <1>1, FrameShapes, HandlerParts
<1>pc. frame.pc = "notify"
  BY HandlerParts DEF Frame
<1>3. Enter(a, frame) /\ loop = a /\ loop' = a
  BY DEF ConfigDone, ProcessOK, LoopSteps
<1> HIDE DEF frame
<1> QED  BY <1>1, <1>2, <1>pc, <1>3, Moving

\* So does a touch that ends the handler.
LEMMA AbandonProcess ==
    ASSUME ProcessOK, NEW a \in Apps, h[a].pc = "touch", Abandon(a)
    PROVE  ProcessOK'
<1> DEFINE frame == [h[a] EXCEPT !.pc = "finish", !.found = None]
<1>1. "finish" \in Steps /\ "finish" \notin LoopSteps /\ None \in Labels
  BY DEF Steps, LoopSteps, Labels
<1>2. frame \in Frame
  BY <1>1, FrameShapes, HandlerParts
<1>pc. frame.pc = "finish"
  BY HandlerParts DEF Frame
<1>3. Enter(a, frame) /\ loop = a /\ loop' = None /\ None # a
  BY NamesAssumption DEF Abandon, ProcessOK, LoopSteps
<1> HIDE DEF frame
<1> QED  BY <1>1, <1>2, <1>pc, <1>3, Moving

\* To be done with the notification of one AppScorecard keeps them.
LEMMA MarkedProcess ==
    ASSUME ProcessOK, NEW a \in Apps, h[a].pc \in {"markGet", "markPut"}, NEW b, Marked(a, b)
    PROVE  ProcessOK'
<1> DEFINE rest == h[a].digest \ {b}
           step == IF rest = {} THEN "finish" ELSE "markGet"
           frame == [h[a] EXCEPT !.pc = step, !.digest = rest, !.target = None, !.copy = NoCard]
<1>1. step \in Steps /\ step \notin {"markPut", "touch", "apply"}
  BY DEF Steps, LoopSteps
<1>2. rest \in SUBSET Apps /\ None \in Apps \cup {None}
  BY HandlerParts
<1>3. Enter(a, frame)
  BY DEF Marked
<1>4. loop = a /\ loop' = IF rest = {} THEN None ELSE a
  BY DEF Marked, ProcessOK, LoopSteps
<1>5. step \in LoopSteps <=> loop' = a
  BY <1>4, NamesAssumption DEF LoopSteps
<1> HIDE DEF rest, step
<1>6. frame \in Frame
  BY <1>1, <1>2, FrameShapes, HandlerParts, Blank
<1>7. frame.pc = step
  BY HandlerParts DEF Frame
<1> HIDE DEF frame
<1>8. loop \in {None, a} /\ loop' \in {None, a}
  BY <1>4
<1> QED  BY <1>1, <1>3, <1>5, <1>6, <1>7, <1>8, Moving
\* Every step of a handler keeps the types of the process.
LEMMA ProgramProcess ==
    ASSUME ProcessOK, WorldOK, NEW a \in Apps, Program(a)
    PROVE  ProcessOK'
<1> USE HandlerParts
<1>1. CASE Start(a)
  <2> DEFINE body == [uid |-> dep[a].uid, ver |-> dep[a].ver, label |-> dep[a].label]
             frame == [Idle EXCEPT !.pc = "evaluate", !.body = body]
  <2>1. dep[a] \in Deployment
    BY DEF WorldOK
  <2>2. body \in Body
    BY <2>1 DEF Body, Deployment
  <2>3. "evaluate" \in Steps /\ "evaluate" \notin LoopSteps /\ "idle" \notin LoopSteps
    BY DEF Steps, LoopSteps, ThreadSteps
  <2>4. Enter(a, frame) /\ UNCHANGED loop /\ h[a].pc \notin LoopSteps
    BY <1>1, <2>3 DEF Start
  <2> HIDE DEF body
  <2>5. frame \in Frame /\ frame.pc = "evaluate"
    BY <2>2, <2>3, Blank DEF Frame
  <2> HIDE DEF frame
  <2> QED  BY <2>3, <2>4, <2>5, OffLoop
<1>2. CASE Finish(a)
  <2>1. "finish" \notin LoopSteps /\ "idle" \notin LoopSteps
    BY DEF LoopSteps
  <2>2. Enter(a, Idle) /\ UNCHANGED loop /\ h[a].pc = "finish"
    BY <1>2 DEF Finish
  <2> QED  BY <2>1, <2>2, Blank, OffLoop
<1>3. CASE Bury(a)
  BY <1>3, Staying DEF Bury
<1>4. CASE Evaluate(a)
  <2> DEFINE sc == IF cache[a] # NoScorecard THEN cache[a]
                   ELSE [ver |-> dep[a].ver, label |-> dep[a].label]
             frame == [h[a] EXCEPT !.pc = "get", !.sc = sc]
  <2>1. dep[a] \in Deployment /\ cache[a] \in Scorecard
    BY DEF WorldOK
  <2>2. sc \in Scorecard
    BY <2>1 DEF Scorecard, Deployment
  <2>3. "get" \in Steps /\ "get" \notin LoopSteps /\ "evaluate" \notin LoopSteps
    BY DEF Steps, LoopSteps, ThreadSteps
  <2>4. Enter(a, frame) /\ UNCHANGED loop /\ h[a].pc \notin LoopSteps
    BY <1>4, <2>3 DEF Evaluate
  <2> HIDE DEF sc
  <2>5. frame \in Frame
    BY <2>2, <2>3, FrameShapes
  <2>6. frame.pc = "get"
    BY DEF Frame
  <2> HIDE DEF frame
  <2> QED  BY <2>3, <2>4, <2>5, <2>6, OffLoop
<1>5. CASE EvaluateFails(a)
  <2>1. "finish" \in Steps \ LoopSteps /\ "evaluate" \notin LoopSteps
    BY DEF Steps, LoopSteps
  <2> QED  BY <1>5, <2>1, GotoProcess DEF EvaluateFails
<1>6. CASE Upsert(a)
  <2>0. {"get", "getAgain", "replace", "putStatus", "create"} \subseteq ThreadSteps
    BY DEF ThreadSteps
  <2>1. CASE GetCard(a)
    BY <2>0, <2>1, FetchProcess DEF GetCard
  <2>2. CASE GetAgain(a)
    BY <2>0, <2>2, FetchProcess DEF GetAgain
  <2>3. CASE ReplaceCard(a)
    <3>1. "getAgain" \in Steps \ LoopSteps /\ "replace" \notin LoopSteps
      BY DEF Steps, LoopSteps, ThreadSteps
    <3>2. h[a].pc = "replace" /\ UNCHANGED loop /\ Replace(a, h[a].copy, Goto(a, "getAgain"))
      BY <2>3 DEF ReplaceCard
    <3>3. CASE Goto(a, "getAgain")
      BY <3>1, <3>2, <3>3, GotoProcess
    <3>4. CASE Goto(a, "create")
      <4>1. "create" \in Steps \ LoopSteps
        BY DEF Steps, LoopSteps, ThreadSteps
      <4> QED  BY <3>1, <3>2, <3>4, <4>1, GotoProcess
    <3>5. CASE AfterUpsert(a)
      BY <2>0, <3>2, <3>5, AfterUpsertProcess
    <3> QED  BY <3>2, <3>3, <3>4, <3>5 DEF Replace
  <2>4. CASE PutStatus(a)
    <3>1. /\ h[a].pc = "putStatus" /\ UNCHANGED loop
          /\ Goto(a, "create") \/ AfterUpsert(a)
      BY <2>4 DEF PutStatus, Replace
    <3>2. "create" \in Steps \ LoopSteps /\ "putStatus" \notin LoopSteps
      BY DEF Steps, LoopSteps, ThreadSteps
    <3> QED  BY <2>0, <3>1, <3>2, GotoProcess, AfterUpsertProcess
  <2>5. CASE CreateCard(a)
    BY <2>0, <2>5, AfterUpsertProcess DEF CreateCard
  <2>6. CASE UpsertFails(a)
    BY <2>6, AfterUpsertProcess DEF UpsertFails
  <2> QED  BY <1>6, <2>1, <2>2, <2>3, <2>4, <2>5, <2>6 DEF Upsert
<1>7. CASE AutoSLO(a)
  <2>0. None \in Labels /\ Services \subseteq Labels /\ h[a].body.label \in Labels
    BY DEF Labels, Body
  <2>1. CASE SkipSLO(a)
    BY <2>0, <2>1, ProceedProcess DEF SkipSLO
  <2>2. CASE FindConfig(a)
    <3>1. Sourced(a, h[a].body.uid) \subseteq Services
      BY DEF Sourced
    <3>2. h[a].body.label \in Services
      BY <2>0, <2>2 DEF FindConfig, WantsSLO, Labels
    <3> QED  BY <2>0, <2>2, <3>1, <3>2, ProceedProcess DEF FindConfig
  <2>3. CASE FindFails(a)
    <3>1. h[a].body.label \in Services
      BY <2>0, <2>3 DEF FindFails, WantsSLO, Labels
    <3> QED  BY <2>0, <2>3, <3>1, ProceedProcess DEF FindFails
  <2>4. CASE TouchConfig(a)
    BY <2>4, ConfigDoneProcess, AbandonProcess DEF TouchConfig
  <2>5. CASE ApplyConfig(a)
    BY <2>5, ConfigDoneProcess DEF ApplyConfig
  <2>6. CASE ConfigFails(a)
    BY <2>6, ConfigDoneProcess, AbandonProcess DEF ConfigFails
  <2> QED  BY <1>7, <2>1, <2>2, <2>3, <2>4, <2>5, <2>6 DEF AutoSLO
<1>8. CASE Notify(a)
  <2>1. h[a].pc = "notify" /\ loop' = None /\ loop = a /\ None # a
    BY <1>8, NamesAssumption DEF Notify, ProcessOK, LoopSteps
  <2>2. {"finish", "send"} \subseteq Steps /\ \A step \in {"finish", "send"} : step \notin LoopSteps
    BY DEF Steps, LoopSteps
  <2>3. CASE Goto(a, "finish")
    <3> DEFINE frame == [h[a] EXCEPT !.pc = "finish"]
    <3>1. frame \in Frame
      BY <2>2, FrameShapes
    <3>2. frame.pc = "finish"
      BY DEF Frame
    <3>3. Enter(a, frame)
      BY <2>3 DEF Goto
    <3> HIDE DEF frame
    <3> QED  BY <2>1, <2>2, <3>1, <3>2, <3>3, Moving
  <2>4. CASE Enter(a, [h[a] EXCEPT !.pc = "send", !.digest = buffer \cup {a}])
    <3> DEFINE digest == buffer \cup {a}
               frame == [h[a] EXCEPT !.pc = "send", !.digest = digest]
    <3>1. digest \in SUBSET Apps
      BY DEF WorldOK
    <3>2. Enter(a, frame)
      BY <2>4
    <3> HIDE DEF digest
    <3>3. frame \in Frame
      BY <2>2, <3>1, FrameShapes
    <3>4. frame.pc = "send"
      BY DEF Frame
    <3> HIDE DEF frame
    <3> QED  BY <2>1, <2>2, <3>2, <3>3, <3>4, Moving
  <2> QED  BY <1>8, <2>3, <2>4 DEF Notify
<1>9. CASE SlackAnswers(a)
  <2>1. h[a].pc = "send" /\ loop = None
    BY <1>9 DEF SlackAnswers
  <2>2. {"finish", "markGet"} \subseteq Steps /\ "finish" \notin LoopSteps /\ "send" \notin LoopSteps
        /\ "markGet" \in LoopSteps
    BY DEF Steps, LoopSteps
  <2>3. CASE Goto(a, "finish") /\ UNCHANGED loop
    BY <2>1, <2>2, <2>3, GotoProcess
  <2>4. CASE Goto(a, "markGet") /\ loop' = a
    <3> DEFINE frame == [h[a] EXCEPT !.pc = "markGet"]
    <3>1. frame \in Frame
      BY <2>2, FrameShapes
    <3>2. frame.pc = "markGet"
      BY DEF Frame
    <3>3. Enter(a, frame)
      BY <2>4 DEF Goto
    <3> HIDE DEF frame
    <3> QED  BY <2>1, <2>2, <2>4, <3>1, <3>2, <3>3, Moving
  <2> QED  BY <1>9, <2>3, <2>4 DEF SlackAnswers
<1>10. CASE MarkGet(a)
  <2>1. PICK b \in h[a].digest :
          IF card[b].exists
          THEN /\ Enter(a, [h[a] EXCEPT !.pc = "markPut", !.copy = card[b], !.target = b])
               /\ UNCHANGED loop
          ELSE Marked(a, b)
    BY <1>10 DEF MarkGet
  <2>2. h[a].pc = "markGet"
    BY <1>10 DEF MarkGet
  <2>3. CASE card[b].exists
    <3> DEFINE frame == [h[a] EXCEPT !.pc = "markPut", !.copy = card[b], !.target = b]
    <3>1. b \in Apps /\ card[b] \in Card /\ "markPut" \in Steps /\ "markPut" \in LoopSteps
      BY DEF WorldOK, Steps, LoopSteps
    <3>2. frame \in Frame
      BY <3>1, FrameShapes
    <3>3. frame.pc = "markPut" /\ frame.target = b
      BY DEF Frame
    <3>4. Enter(a, frame) /\ UNCHANGED loop /\ loop = a
      BY <2>1, <2>2, <2>3 DEF ProcessOK, LoopSteps
    <3> HIDE DEF frame
    <3> QED  BY <3>1, <3>2, <3>3, <3>4, Moving
  <2>4. CASE ~card[b].exists
    BY <2>1, <2>2, <2>4, MarkedProcess
  <2> QED  BY <2>3, <2>4
<1>11. CASE MarkPut(a)
  BY <1>11, MarkedProcess DEF MarkPut
<1>12. CASE MarkFails(a)
  BY <1>12, MarkedProcess DEF MarkFails
<1> QED  BY <1>1, <1>2, <1>3, <1>4, <1>5, <1>6, <1>7, <1>8, <1>9, <1>10, <1>11, <1>12
         DEF Program, Kopf, Scoring, Notification

\* Every step of all keeps them.
LEMMA ProcessStep ==
    ASSUME ProcessOK, WorldOK, [Next]_vars
    PROVE  ProcessOK'
<1>1. ASSUME NEW a \in Apps, User(a) \/ CollectGarbage(a) \/ Expire(a)
      PROVE  UNCHANGED <<h, loop>>
  BY <1>1 DEF User, Deploy, Edit, Delete, CollectGarbage, Expire
<1>2. ASSUME NEW s \in Services, RemoveConfig(s)
      PROVE  UNCHANGED <<h, loop>>
  BY <1>2 DEF RemoveConfig
<1>3. CASE Crash
  <2>1. h' = [a \in Apps |-> Idle] /\ loop' = None
    BY <1>3 DEF Crash
  <2>2. "idle" \notin LoopSteps /\ None \notin Apps
    BY NamesAssumption DEF LoopSteps
  <2> QED  BY <2>1, <2>2, Blank DEF ProcessOK, Aimed
<1>4. CASE UNCHANGED vars
  BY <1>4, Staying DEF vars
<1> QED  BY <1>1, <1>2, <1>3, <1>4, ProgramProcess, Staying DEF Next
----------------------------------------------------------------------------
(* The allowance *)

\* Every step spends something or leaves the allowance alone.
LEMMA Spending ==
    ASSUME [Next]_vars
    PROVE  (\E k \in Kinds : Spend(k)) \/ UNCHANGED allowance
<1>0. Kinds = {"deploy", "edit", "relabel", "deletion", "removal", "read", "kube", "search", "crash"}
  BY DEF Kinds, Users, Faults
<1>1. ASSUME NEW a \in Apps, User(a)
      PROVE  \E k \in Kinds : Spend(k)
  <2>1. Spend("deploy") \/ Spend("edit") \/ Spend("relabel") \/ Spend("deletion")
    BY <1>1 DEF User, Deploy, Edit, Delete
  <2> QED  BY <1>0, <2>1
<1>2. ASSUME NEW a \in Apps, CollectGarbage(a) \/ Expire(a)
      PROVE  UNCHANGED allowance
  BY <1>2 DEF CollectGarbage, Expire
<1>3. ASSUME NEW a \in Apps, Kopf(a) \/ Scoring(a)
      PROVE  Spend("read") \/ UNCHANGED allowance
  BY <1>3 DEF Kopf, Scoring, Start, Finish, Bury, Evaluate, EvaluateFails
<1>4. ASSUME NEW a \in Apps, Upsert(a)
      PROVE  Spend("kube") \/ UNCHANGED allowance
  BY <1>4 DEF Upsert, GetCard, ReplaceCard, GetAgain, PutStatus, CreateCard, UpsertFails
<1>5. ASSUME NEW a \in Apps, AutoSLO(a)
      PROVE  Spend("kube") \/ Spend("search") \/ UNCHANGED allowance
  BY <1>5 DEF AutoSLO, SkipSLO, FindConfig, FindFails, TouchConfig, ApplyConfig, ConfigFails
<1>6. ASSUME NEW a \in Apps, Notification(a)
      PROVE  Spend("kube") \/ UNCHANGED allowance
  BY <1>6 DEF Notification, Notify, SlackAnswers, MarkGet, MarkPut, MarkFails
<1>7. ASSUME NEW s \in Services, RemoveConfig(s)
      PROVE  Spend("removal")
  BY <1>7 DEF RemoveConfig
<1>8. Crash => Spend("crash")
  BY DEF Crash
<1>9. UNCHANGED vars => UNCHANGED allowance
  BY DEF vars, allowance
<1> QED  BY <1>0, <1>1, <1>2, <1>3, <1>4, <1>5, <1>6, <1>7, <1>8, <1>9 DEF Next, Program

\* What may still go wrong never goes below nothing.
LEMMA AllowanceStep ==
    ASSUME AllowanceOK, [Next]_vars
    PROVE  AllowanceOK'
<1>1. CASE UNCHANGED allowance
  BY <1>1 DEF AllowanceOK, allowance
<1>2. ASSUME NEW k \in Kinds, Spend(k) PROVE AllowanceOK'
  BY <1>2 DEF AllowanceOK, Spend
<1> QED  BY <1>1, <1>2, Spending

\* What was spared after a step was spared before it and in it.
LEMMA SparedBefore ==
    ASSUME AllowanceOK, [Next]_vars, NEW k \in Kinds, Spared(k)'
    PROVE  Spared(k) /\ ~Spend(k)
<1>1. CASE UNCHANGED allowance
  BY <1>1 DEF AllowanceOK, allowance, Spared, Spend
<1>2. ASSUME NEW j \in Kinds, Spend(j) PROVE Spared(k) /\ ~Spend(k)
  BY <1>2 DEF AllowanceOK, Spared, Spend
<1> QED  BY <1>1, <1>2, Spending

----------------------------------------------------------------------------
(* The world *)

\* A write of an AppScorecard moves its resourceVersion by one, and touches no other.
LEMMA WriteCardType ==
    ASSUME WorldOK, NEW a \in Apps, NEW object \in Card, WriteCard(a, object)
    PROVE  /\ card' \in [Apps -> Card]
           /\ card'[a] = [object EXCEPT !.rv = card[a].rv + 1]
           /\ card'[a].exists = object.exists /\ card'[a].status = object.status
           /\ card'[a].rv = card[a].rv + 1
           /\ \A b \in Apps \ {a} : card'[b] = card[b]
<1>1. card[a] \in Card /\ card[a].rv + 1 \in Nat
  BY DEF WorldOK, Card
<1>2. [object EXCEPT !.rv = card[a].rv + 1] \in Card
  BY <1>1 DEF Card
<1>3. card' = [card EXCEPT ![a] = [object EXCEPT !.rv = card[a].rv + 1]]
  BY DEF WriteCard
<1>4. card'[a] = [object EXCEPT !.rv = card[a].rv + 1]
  BY <1>3 DEF WorldOK
<1> QED  BY <1>2, <1>3, <1>4 DEF WorldOK, Card

\* What the actions write.
LEMMA Objects ==
    ASSUME ProcessOK, NEW a \in Apps
    PROVE  /\ [h[a].copy EXCEPT !.status = h[a].sc.ver, !.mark = FALSE] \in Card
           /\ [h[a].copy EXCEPT !.mark = TRUE] \in Card
           /\ [NoCard EXCEPT !.exists = TRUE, !.owner = h[a].body.uid] \in Card
<1>1. h[a].copy \in Card /\ h[a].sc.ver \in Vers /\ h[a].body.uid \in Uids
  BY HandlerParts DEF Scorecard, Body
<1> QED  BY <1>1, Blank DEF Card, Vers, Uids

\* What users and the cluster do keeps the types of the cluster.
LEMMA UserWorld ==
    ASSUME WorldOK, NEW a \in Apps, User(a) \/ CollectGarbage(a) \/ Expire(a)
    PROVE  WorldOK'
<1>0. dep[a] \in Deployment /\ First[a] \in Labels /\ card[a] \in Card
  BY NamesAssumption DEF WorldOK, Labels
<1>1. CASE Deploy(a)
  <2> DEFINE new == [phase |-> "live", uid |-> dep[a].uid + 1, ver |-> dep[a].ver + 1,
                     label |-> First[a], handled |-> 0]
  <2>1. new \in Deployment
    BY <1>0 DEF Deployment, Phases, Uids, Vers
  <2>2. dep' = [dep EXCEPT ![a] = new]
    BY <1>1 DEF Deploy, WorldOK
  <2> HIDE DEF new
  <2> QED  BY <1>1, <2>1, <2>2 DEF Deploy, memory, WorldOK
<1>2. CASE Edit(a)
  <2>1. PICK l \in Labels :
          dep' = [dep EXCEPT ![a].ver = @ + 1] \/ dep' = [dep EXCEPT ![a].ver = @ + 1, ![a].label = l]
    BY <1>0, <1>2 DEF Edit
  <2>2. /\ [dep[a] EXCEPT !.ver = dep[a].ver + 1] \in Deployment
        /\ [dep[a] EXCEPT !.ver = dep[a].ver + 1, !.label = l] \in Deployment
    <3>1. dep[a].ver + 1 \in Vers
      BY <1>0 DEF Deployment, Vers
    <3> QED  BY <1>0, <3>1 DEF Deployment
  <2>3. dep' \in [Apps -> Deployment]
    BY <2>1, <2>2 DEF WorldOK
  <2> QED  BY <1>2, <2>3 DEF Edit, memory, WorldOK
<1>3. CASE Delete(a)
  <2>1. [dep[a] EXCEPT !.phase = "terminating"] \in Deployment
    BY <1>0 DEF Deployment, Phases
  <2> QED  BY <1>3, <2>1 DEF Delete, memory, WorldOK
<1>4. CASE CollectGarbage(a)
  <2>1. card' \in [Apps -> Card]
    BY <1>4, Blank, WriteCardType DEF CollectGarbage
  <2> QED  BY <1>4, <2>1 DEF CollectGarbage, memory, WorldOK
<1>5. CASE Expire(a)
  BY <1>5, Blank DEF Expire, cluster, WorldOK
<1> QED  BY <1>1, <1>2, <1>3, <1>4, <1>5 DEF User

\* What the handlers do keeps them.
LEMMA ProgramWorld ==
    ASSUME ProcessOK, WorldOK, NEW a \in Apps, Program(a)
    PROVE  WorldOK'
<1>0. dep[a] \in Deployment /\ card[a] \in Card /\ cache[a] \in Scorecard
  BY DEF WorldOK
<1>1. CASE Kopf(a)
  <2>1. h[a].body.ver \in Vers
    BY HandlerParts DEF Body
  <2>2. /\ [dep[a] EXCEPT !.handled = h[a].body.ver] \in Deployment
        /\ [dep[a] EXCEPT !.phase = "absent"] \in Deployment
    BY <1>0, <2>1 DEF Deployment, Phases
  <2>3. CASE Start(a)
    BY <2>3 DEF Start, cluster, memory, WorldOK
  <2>4. CASE Finish(a)
    BY <2>2, <2>4 DEF Finish, WorldOK
  <2>5. CASE Bury(a)
    BY <2>2, <2>5 DEF Bury, memory, WorldOK
  <2> QED  BY <1>1, <2>3, <2>4, <2>5 DEF Kopf
<1>2. CASE Scoring(a)
  <2>1. [ver |-> dep[a].ver, label |-> dep[a].label] \in Scorecard
    BY <1>0 DEF Deployment, Scorecard
  <2>2. CASE Evaluate(a)
    BY <1>0, <2>1, <2>2 DEF Evaluate, cluster, WorldOK
  <2>3. CASE EvaluateFails(a)
    BY <2>3 DEF EvaluateFails, cluster, memory, WorldOK
  <2> QED  BY <1>2, <2>2, <2>3 DEF Scoring
<1>3. CASE Upsert(a)
  <2>1. CASE GetCard(a) \/ GetAgain(a) \/ UpsertFails(a)
    BY <2>1 DEF GetCard, GetAgain, UpsertFails, cluster, memory, WorldOK
  <2>2. CASE ReplaceCard(a) \/ PutStatus(a)
    <3>1. card' \in [Apps -> Card]
      BY <2>2, Objects, HandlerParts, WriteCardType DEF ReplaceCard, PutStatus, Replace, WorldOK
    <3>2. lost' \subseteq Apps
      BY <2>2 DEF ReplaceCard, PutStatus, Replace, WorldOK
    <3> QED  BY <2>2, <3>1, <3>2 DEF ReplaceCard, PutStatus, memory, WorldOK
  <2>3. CASE CreateCard(a)
    <3>1. card' \in [Apps -> Card]
      BY <2>3, Objects, WriteCardType DEF CreateCard, WorldOK
    <3> QED  BY <2>3, <3>1 DEF CreateCard, memory, WorldOK
  <2> QED  BY <1>3, <2>1, <2>2, <2>3 DEF Upsert
<1>4. CASE AutoSLO(a)
  <2>1. CASE TouchConfig(a)
    <3>1. h[a].found \in Services /\ h[a].body.ver \in Vers
      BY <2>1, HandlerParts DEF TouchConfig, ProcessOK, Aimed, Body
    <3>2. [config[h[a].found] EXCEPT !.touched = h[a].body.ver] \in Config
      BY <3>1 DEF WorldOK, Config
    <3> QED  BY <2>1, <3>1, <3>2 DEF TouchConfig, memory, WorldOK
  <2>2. CASE ApplyConfig(a)
    <3>1. h[a].body.uid \in Uids
      BY HandlerParts DEF Body
    <3>2. [exists |-> TRUE, source |-> a, sourceUid |-> h[a].body.uid, touched |-> 0] \in Config
      BY <3>1 DEF Config, Vers
    <3> QED  BY <2>2, <3>2 DEF ApplyConfig, memory, WorldOK
  <2>3. CASE SkipSLO(a) \/ FindConfig(a) \/ FindFails(a) \/ ConfigFails(a)
    BY <2>3 DEF SkipSLO, FindConfig, FindFails, ConfigFails, cluster, memory, WorldOK
  <2> QED  BY <1>4, <2>1, <2>2, <2>3 DEF AutoSLO
<1>5. CASE Notification(a)
  <2>1. CASE MarkPut(a)
    <3>1. h[a].target \in Apps
      BY <2>1 DEF MarkPut, ProcessOK, Aimed
    <3>2. card' \in [Apps -> Card]
      BY <2>1, <3>1, Objects, WriteCardType DEF MarkPut, WorldOK
    <3> QED  BY <2>1, <3>2 DEF MarkPut, memory, WorldOK
  <2>2. CASE Notify(a)
    BY <2>2 DEF Notify, cluster, WorldOK
  <2>3. CASE SlackAnswers(a) \/ MarkGet(a) \/ MarkFails(a)
    BY <2>3 DEF SlackAnswers, MarkGet, MarkFails, cluster, memory, WorldOK
  <2> QED  BY <1>5, <2>1, <2>2, <2>3 DEF Notification
<1> QED  BY <1>1, <1>2, <1>3, <1>4, <1>5 DEF Program

\* Every step keeps them.
LEMMA WorldStep ==
    ASSUME ProcessOK, WorldOK, [Next]_vars
    PROVE  WorldOK'
<1>1. ASSUME NEW s \in Services, RemoveConfig(s) PROVE WorldOK'
  BY <1>1, Blank DEF RemoveConfig, memory, WorldOK
<1>2. CASE Crash
  BY <1>2, Blank DEF Crash, cluster, WorldOK
<1>3. CASE UNCHANGED vars
  BY <1>3 DEF vars, WorldOK
<1> QED  BY <1>1, <1>2, <1>3, UserWorld, ProgramWorld DEF Next

----------------------------------------------------------------------------
(* Types *)

Typed == ProcessOK /\ WorldOK /\ AllowanceOK

\* The types hold of every behaviour.
LEMMA AlwaysTyped == Spec => []Typed
<1>1. Init => Typed
  <2> SUFFICES ASSUME Init PROVE Typed
    OBVIOUS
  <2>1. "idle" \notin LoopSteps /\ None \notin Apps
    BY NamesAssumption DEF LoopSteps
  <2>2. ProcessOK
    BY <2>1, Blank DEF Init, ProcessOK, Aimed
  <2>3. WorldOK
    BY Blank DEF Init, WorldOK
  <2>4. AllowanceOK
    BY BoundsAssumption DEF Init, AllowanceOK
  <2> QED  BY <2>2, <2>3, <2>4 DEF Typed
<1>2. Typed /\ [Next]_vars => Typed'
  BY ProcessStep, WorldStep, AllowanceStep DEF Typed
<1> QED  BY <1>1, <1>2, PTL DEF Spec

\* Every variable keeps its type; the event loop is held by the handler that is at a
\* step of the loop, and by no other.
THEOREM EventTypes == Spec => []TypeOK
<1>1. Typed => TypeOK
  BY TypeParts DEF Typed, ProcessOK
<1> QED  BY <1>1, AlwaysTyped, PTL
----------------------------------------------------------------------------
(* Statuses never go back *)

Upserts == ThreadSteps \ {"evaluate"}

\* A status is not newer than its Deployment or the evaluation in the cache.
Fresh(a) ==
    /\ card[a].status <= dep[a].ver
    /\ cache[a].ver <= dep[a].ver
    /\ cache[a] # NoScorecard => card[a].status <= cache[a].ver

\* The scorecard that an upsert carries is not older than the status, and it is
\* the one in the cache.
Carried(a, frame) ==
    frame.pc \in Upserts =>
        /\ card[a].status <= frame.sc.ver /\ frame.sc.ver <= dep[a].ver
        /\ cache[a] \in {NoScorecard, frame.sc}

\* A copy has the status of the AppScorecard, unless that has been written since.
CopyOf(frame, b) ==
    /\ frame.copy.rv <= card[b].rv
    /\ card[b].exists /\ frame.copy.rv = card[b].rv => frame.copy.status = card[b].status

Copied(a, frame) ==
    /\ frame.pc \in {"replace", "putStatus"} => CopyOf(frame, a)
    /\ frame.pc = "markPut" => CopyOf(frame, frame.target)

ScoreInv == \A a \in Apps : Fresh(a) /\ Carried(a, h[a]) /\ Copied(a, h[a])

\* What is counted is a natural number.
LEMMA Numbers ==
    ASSUME Typed, NEW a \in Apps
    PROVE  /\ card[a].status \in Nat /\ card[a].rv \in Nat /\ dep[a].ver \in Nat
           /\ cache[a] \in Scorecard /\ cache[a].ver \in Nat
           /\ h[a].sc.ver \in Nat /\ h[a].copy.rv \in Nat /\ h[a].copy.status \in Nat
           /\ h[a].pc = "markPut" => h[a].target \in Apps
<1>1. card[a] \in Card /\ dep[a] \in Deployment /\ cache[a] \in Scorecard
  BY DEF Typed, WorldOK
<1>2. h[a].sc \in Scorecard /\ h[a].copy \in Card
  BY HandlerParts DEF Typed
<1>3. h[a].pc = "markPut" => h[a].target \in Apps
  BY DEF Typed, ProcessOK, Aimed
<1> QED  BY <1>1, <1>2, <1>3 DEF Card, Deployment, Scorecard, Vers, Uids

\* A handler that enters a step changes nobody else.
LEMMA Entered ==
    ASSUME Typed, NEW a \in Apps, NEW frame, Enter(a, frame)
    PROVE  h'[a] = frame /\ \A b \in Apps \ {a} : h'[b] = h[b]
BY DEF Typed, ProcessOK, Enter

\* Deployments move on, cached evaluations expire, handlers end.
LEMMA ScoreAging ==
    ASSUME Typed, ScoreInv, UNCHANGED card,
           \A a \in Apps : dep'[a].ver \in Nat /\ dep'[a].ver >= dep[a].ver,
           \A a \in Apps : cache'[a] \in {cache[a], NoScorecard},
           \A a \in Apps : h'[a] = h[a] \/ h'[a].pc = "idle"
    PROVE  ScoreInv'
<1>1. "idle" \notin Upserts
  BY DEF Upserts, ThreadSteps
<1>2. NoScorecard.ver = 0
  BY DEF NoScorecard
<1> SUFFICES ASSUME NEW a \in Apps PROVE (Fresh(a) /\ Carried(a, h[a]) /\ Copied(a, h[a]))'
  BY DEF ScoreInv
<1>3. Fresh(a) /\ Carried(a, h[a]) /\ Copied(a, h[a])
  BY DEF ScoreInv
<1>4. Fresh(a)'
  BY <1>2, <1>3, Numbers DEF Fresh
<1>5. Carried(a, h[a])'
  BY <1>1, <1>3, Numbers DEF Carried
<1>6. Copied(a, h[a])'
  BY <1>3 DEF Copied, CopyOf
<1> QED  BY <1>4, <1>5, <1>6

\* One handler moves, and nothing else.
LEMMA ScoreMoving ==
    ASSUME Typed, ScoreInv, UNCHANGED <<dep, card, cache>>,
           NEW a \in Apps, NEW frame, Enter(a, frame), Carried(a, frame), Copied(a, frame)
    PROVE  ScoreInv'
<1>1. h'[a] = frame /\ \A b \in Apps \ {a} : h'[b] = h[b]
  BY Entered
<1> SUFFICES ASSUME NEW b \in Apps PROVE (Fresh(b) /\ Carried(b, h[b]) /\ Copied(b, h[b]))'
  BY DEF ScoreInv
<1>2. Fresh(b) /\ Carried(b, h[b]) /\ Copied(b, h[b])
  BY DEF ScoreInv
<1>3. Fresh(b)'
  BY <1>2 DEF Fresh
<1>4. CASE b = a
  BY <1>1, <1>3, <1>4 DEF Carried, Copied, CopyOf
<1>5. CASE b # a
  BY <1>1, <1>2, <1>3, <1>5 DEF Carried, Copied, CopyOf
<1> QED  BY <1>4, <1>5

\* An AppScorecard gets a new resourceVersion, so all copies of it are old.
LEMMA CopiesAge ==
    ASSUME Typed, NEW b \in Apps, NEW object \in Card, WriteCard(b, object),
           NEW a \in Apps, Copied(a, h[a]), h'[a] = h[a]
    PROVE  Copied(a, h[a])'
<1>1. /\ card'[b].rv = card[b].rv + 1
      /\ \A c \in Apps \ {b} : card'[c] = card[c]
  BY WriteCardType DEF Typed
<1>2. ASSUME NEW c \in Apps, CopyOf(h[a], c) PROVE CopyOf(h[a], c)'
  BY <1>1, <1>2, Numbers DEF CopyOf
<1>3. h[a].pc = "markPut" => h[a].target \in Apps
  BY Numbers
<1> QED  BY <1>2, <1>3 DEF Copied

\* A handler writes an AppScorecard: its own with the scorecard it carries, or
\* any with the status it has.
LEMMA ScoreWriting ==
    ASSUME Typed, ScoreInv, UNCHANGED <<dep, cache>>,
           NEW b \in Apps, NEW object \in Card, WriteCard(b, object),
           object.status <= dep[b].ver,
           cache[b] # NoScorecard => object.status <= cache[b].ver,
           NEW a \in Apps, NEW frame, Enter(a, frame),
           a # b => object.status <= card[b].status,
           frame.pc \notin {"replace", "putStatus", "markPut"},
           frame.pc \in Upserts => /\ frame.sc = h[a].sc /\ h[a].pc \in Upserts
                                   /\ object.status <= card[b].status
    PROVE  ScoreInv'
<1>1. h'[a] = frame /\ \A c \in Apps \ {a} : h'[c] = h[c]
  BY Entered
<1>2. /\ card'[b].status = object.status
      /\ \A c \in Apps \ {b} : card'[c] = card[c]
  BY WriteCardType DEF Typed
<1>3. object.status \in Nat
  BY DEF Card, Vers
<1> SUFFICES ASSUME NEW c \in Apps PROVE (Fresh(c) /\ Carried(c, h[c]) /\ Copied(c, h[c]))'
  BY DEF ScoreInv
<1>4. Fresh(c) /\ Carried(c, h[c]) /\ Copied(c, h[c])
  BY DEF ScoreInv
<1>5. Fresh(c)'
  BY <1>2, <1>4 DEF Fresh
<1>6. CASE c = a
  <2>1. Carried(c, h[c])'
    BY <1>1, <1>2, <1>3, <1>4, <1>6, Numbers DEF Carried
  <2>2. Copied(c, h[c])'
    BY <1>1, <1>6 DEF Copied
  <2> QED  BY <1>5, <2>1, <2>2
<1>7. CASE c # a
  <2>1. Carried(c, h[c])'
    BY <1>1, <1>2, <1>3, <1>4, <1>7, Numbers DEF Carried
  <2>2. Copied(c, h[c])'
    BY <1>1, <1>4, <1>7, CopiesAge
  <2> QED  BY <1>5, <2>1, <2>2
<1> QED  BY <1>6, <1>7
\* No step of the upsert makes a status older than it was.
LEMMA ScoreUpsert ==
    ASSUME Typed, ScoreInv, NEW a \in Apps, Upsert(a)
    PROVE  ScoreInv'
<1>0. /\ Fresh(a) /\ Carried(a, h[a]) /\ Copied(a, h[a])
      /\ h[a] \in Frame /\ h[a].copy \in Card /\ card[a] \in Card
  BY HandlerParts DEF ScoreInv, Typed, WorldOK
<1>1. /\ \A step \in {"get", "replace", "getAgain", "putStatus", "create"} : step \in Upserts
      /\ \A step \in {"find", "finish"} : step \notin Upserts
  BY DEF Upserts, ThreadSteps
<1>2. \A step \in Steps : [h[a] EXCEPT !.pc = step].pc = step /\ [h[a] EXCEPT !.pc = step].sc = h[a].sc
  BY <1>0 DEF Frame
<1>3. ASSUME AfterUpsert(a), UNCHANGED <<dep, card, cache>> PROVE ScoreInv'
  <2> DEFINE frame == [h[a] EXCEPT !.pc = "find", !.copy = NoCard]
  <2>1. frame.pc = "find"
    BY <1>0 DEF Frame
  <2>2. Enter(a, frame)
    BY <1>3 DEF AfterUpsert
  <2>3. Carried(a, frame) /\ Copied(a, frame)
    BY <1>1, <2>1 DEF Carried, Copied
  <2> HIDE DEF frame
  <2> QED  BY <1>3, <2>2, <2>3, ScoreMoving
<1>4. ASSUME NEW step \in {"getAgain", "create"}, Goto(a, step), h[a].pc \in Upserts,
             UNCHANGED <<dep, card, cache>>
      PROVE  ScoreInv'
  <2> DEFINE frame == [h[a] EXCEPT !.pc = step]
  <2>1. frame.pc = step /\ frame.sc = h[a].sc
    BY <1>2 DEF Steps, ThreadSteps
  <2>2. Enter(a, frame)
    BY <1>4 DEF Goto
  <2>3. Carried(a, frame) /\ Copied(a, frame)
    BY <1>0, <1>4, <2>1 DEF Carried, Copied
  <2> HIDE DEF frame
  <2> QED  BY <1>4, <2>2, <2>3, ScoreMoving
<1>5. ASSUME NEW step \in {"replace", "putStatus"}, Fetch(a, step), h[a].pc \in Upserts,
             UNCHANGED <<dep, card, cache>>
      PROVE  ScoreInv'
  <2>1. CASE card[a].exists
    <3> DEFINE frame == [h[a] EXCEPT !.pc = step, !.copy = card[a]]
    <3>1. frame.pc = step /\ frame.sc = h[a].sc /\ frame.copy = card[a]
      BY <1>0 DEF Frame
    <3>2. Enter(a, frame)
      BY <1>5, <2>1 DEF Fetch
    <3>3. Carried(a, frame)
      BY <1>0, <1>5, <3>1 DEF Carried
    <3>4. Copied(a, frame)
      BY <1>5, <3>1, Numbers DEF Copied, CopyOf
    <3> HIDE DEF frame
    <3> QED  BY <1>5, <3>2, <3>3, <3>4, ScoreMoving
  <2>2. CASE ~card[a].exists
    BY <1>4, <1>5, <2>2 DEF Fetch, Goto
  <2> QED  BY <2>1, <2>2
<1>6. CASE GetCard(a)
  BY <1>1, <1>5, <1>6 DEF GetCard, cluster, memory
<1>7. CASE GetAgain(a)
  BY <1>1, <1>5, <1>7 DEF GetAgain, cluster, memory
<1>8. CASE ReplaceCard(a)
  <2>1. h[a].pc = "replace" /\ UNCHANGED <<dep, cache>> /\ Replace(a, h[a].copy, Goto(a, "getAgain"))
    BY <1>8 DEF ReplaceCard, memory
  <2>2. CASE Latest(a, a) /\ WriteCard(a, h[a].copy) /\ Goto(a, "getAgain")
    <3> DEFINE frame == [h[a] EXCEPT !.pc = "getAgain"]
    <3>1. frame.pc = "getAgain" /\ frame.sc = h[a].sc
      BY <1>2 DEF Steps, ThreadSteps
    <3>2. Enter(a, frame)
      BY <2>2 DEF Goto
    <3>3. h[a].copy.status = card[a].status
      BY <1>0, <2>1, <2>2 DEF Copied, CopyOf, Latest
    <3>4. card[a].status \in Nat
      BY Numbers
    <3> HIDE DEF frame
    <3> QED  BY <1>0, <1>1, <2>1, <2>2, <3>1, <3>2, <3>3, <3>4, ScoreWriting DEF Fresh
  <2>3. CASE Goto(a, "create") /\ UNCHANGED card
    BY <1>1, <1>4, <2>1, <2>3
  <2>4. CASE AfterUpsert(a) /\ UNCHANGED card
    BY <1>3, <2>1, <2>4
  <2> QED  BY <2>1, <2>2, <2>3, <2>4 DEF Replace
<1>9. CASE PutStatus(a)
  <2> DEFINE object == [h[a].copy EXCEPT !.status = h[a].sc.ver, !.mark = FALSE]
  <2>1. h[a].pc = "putStatus" /\ UNCHANGED <<dep, cache>> /\ Replace(a, object, AfterUpsert(a))
    BY <1>9 DEF PutStatus, memory
  <2>2. CASE WriteCard(a, object) /\ AfterUpsert(a)
    <3> DEFINE frame == [h[a] EXCEPT !.pc = "find", !.copy = NoCard]
    <3>1. frame.pc = "find"
      BY <1>0 DEF Frame
    <3>2. Enter(a, frame)
      BY <2>2 DEF AfterUpsert
    <3>3. object \in Card /\ object.status = h[a].sc.ver
      BY <1>0, Objects DEF Card, Typed
    <3>4. /\ h[a].sc.ver <= dep[a].ver
          /\ cache[a] # NoScorecard => h[a].sc.ver <= cache[a].ver
      BY <1>0, <1>1, <2>1, Numbers DEF Carried
    <3> HIDE DEF frame, object
    <3> QED  BY <1>1, <2>1, <2>2, <3>1, <3>2, <3>3, <3>4, ScoreWriting
  <2> HIDE DEF object
  <2>3. CASE Goto(a, "create") /\ UNCHANGED card
    BY <1>1, <1>4, <2>1, <2>3
  <2>4. CASE AfterUpsert(a) /\ UNCHANGED card
    BY <1>3, <2>1, <2>4
  <2> QED  BY <2>1, <2>2, <2>3, <2>4 DEF Replace
<1>10. CASE CreateCard(a)
  <2> DEFINE object == [NoCard EXCEPT !.exists = TRUE, !.owner = h[a].body.uid]
  <2>1. h[a].pc = "create" /\ UNCHANGED <<dep, cache>> /\ AfterUpsert(a)
    BY <1>10 DEF CreateCard, memory
  <2>2. CASE WriteCard(a, object)
    <3> DEFINE frame == [h[a] EXCEPT !.pc = "find", !.copy = NoCard]
    <3>1. frame.pc = "find"
      BY <1>0 DEF Frame
    <3>2. Enter(a, frame)
      BY <2>1 DEF AfterUpsert
    <3>3. object \in Card
      BY Objects DEF Typed
    <3>4. object.status = 0
      BY DEF NoCard
    <3> HIDE DEF frame, object
    <3> QED  BY <1>1, <2>1, <2>2, <3>1, <3>2, <3>3, <3>4, Numbers, ScoreWriting
  <2>3. CASE UNCHANGED card
    BY <1>3, <2>1, <2>3
  <2> QED  BY <1>10, <2>2, <2>3 DEF CreateCard
<1>11. CASE UpsertFails(a)
  BY <1>3, <1>11 DEF UpsertFails, cluster, memory
<1> QED  BY <1>6, <1>7, <1>8, <1>9, <1>10, <1>11 DEF Upsert

\* Nor does one of the notification, which writes a copy back.
LEMMA ScoreNotification ==
    ASSUME Typed, ScoreInv, NEW a \in Apps, Notification(a)
    PROVE  ScoreInv'
<1>0. h[a] \in Frame
  BY HandlerParts DEF Typed
<1>1. \A step \in {"finish", "send", "markGet", "markPut"} : step \notin Upserts
  BY DEF Upserts, ThreadSteps
<1>2. ASSUME NEW frame, Enter(a, frame), frame.pc \in {"finish", "send", "markGet"},
             UNCHANGED <<dep, card, cache>>
      PROVE  ScoreInv'
  BY <1>1, <1>2, ScoreMoving DEF Carried, Copied
<1>3. CASE Notify(a)
  <2>1. UNCHANGED <<dep, card, cache>>
    BY <1>3 DEF Notify, cluster
  <2>2. \/ Enter(a, [h[a] EXCEPT !.pc = "finish"])
        \/ Enter(a, [h[a] EXCEPT !.pc = "send", !.digest = buffer \cup {a}])
    BY <1>3 DEF Notify, Goto
  <2>3. /\ [h[a] EXCEPT !.pc = "finish"].pc = "finish"
        /\ [h[a] EXCEPT !.pc = "send", !.digest = buffer \cup {a}].pc = "send"
    BY <1>0 DEF Frame
  <2> QED  BY <1>2, <2>1, <2>2, <2>3
<1>4. CASE SlackAnswers(a)
  <2>1. UNCHANGED <<dep, card, cache>>
    BY <1>4 DEF SlackAnswers, cluster, memory
  <2>2. PICK frame : Enter(a, frame) /\ frame.pc \in {"finish", "markGet"}
    BY <1>0, <1>4 DEF SlackAnswers, Goto, Frame
  <2> QED  BY <1>2, <2>1, <2>2
<1>5. ASSUME NEW b, Marked(a, b)
      PROVE  \E frame : Enter(a, frame) /\ frame.pc \in {"finish", "markGet"}
  <2> DEFINE rest == h[a].digest \ {b}
             step == IF rest = {} THEN "finish" ELSE "markGet"
             frame == [h[a] EXCEPT !.pc = step, !.digest = rest, !.target = None, !.copy = NoCard]
  <2>1. Enter(a, frame)
    BY <1>5 DEF Marked
  <2>2. step \in {"finish", "markGet"}
    OBVIOUS
  <2> HIDE DEF step
  <2>3. frame.pc = step
    BY <1>0 DEF Frame
  <2> HIDE DEF frame
  <2> QED  BY <2>1, <2>2, <2>3
<1>6. CASE MarkGet(a)
  <2>1. UNCHANGED <<dep, card, cache>>
    BY <1>6 DEF MarkGet, cluster, memory
  <2>2. PICK b \in h[a].digest :
          IF card[b].exists
          THEN /\ Enter(a, [h[a] EXCEPT !.pc = "markPut", !.copy = card[b], !.target = b])
               /\ UNCHANGED loop
          ELSE Marked(a, b)
    BY <1>6 DEF MarkGet
  <2>3. CASE card[b].exists
    <3> DEFINE frame == [h[a] EXCEPT !.pc = "markPut", !.copy = card[b], !.target = b]
    <3>1. frame.pc = "markPut" /\ frame.copy = card[b] /\ frame.target = b
      BY <1>0 DEF Frame
    <3>2. Enter(a, frame)
      BY <2>2, <2>3
    <3>3. b \in Apps
      BY HandlerParts DEF Typed
    <3>4. Carried(a, frame) /\ Copied(a, frame)
      BY <1>1, <3>1, <3>3, Numbers DEF Carried, Copied, CopyOf
    <3> HIDE DEF frame
    <3> QED  BY <2>1, <3>2, <3>4, ScoreMoving
  <2>4. CASE ~card[b].exists
    BY <1>2, <1>5, <2>1, <2>2, <2>4
  <2> QED  BY <2>3, <2>4
<1>7. CASE MarkPut(a)
  <2> DEFINE b == h[a].target
             object == [h[a].copy EXCEPT !.mark = TRUE]
  <2>1. UNCHANGED <<dep, cache>> /\ h[a].pc = "markPut" /\ Marked(a, b)
    BY <1>7 DEF MarkPut, memory
  <2>2. PICK frame : Enter(a, frame) /\ frame.pc \in {"finish", "markGet"}
    BY <1>5, <2>1
  <2>3. CASE UNCHANGED card
    BY <1>2, <2>1, <2>2, <2>3
  <2>4. CASE Latest(a, b) /\ WriteCard(b, object)
    <3>1. b \in Apps
      BY <2>1, Numbers
    <3>2. object \in Card /\ object.status = h[a].copy.status
      BY Objects, HandlerParts DEF Typed, Card
    <3>3. h[a].copy.status = card[b].status
      BY <2>1, <2>4 DEF ScoreInv, Copied, CopyOf, Latest
    <3>4. Fresh(b)
      BY <3>1 DEF ScoreInv
    <3> HIDE DEF b, object
    <3> QED  BY <1>1, <2>1, <2>2, <2>4, <3>1, <3>2, <3>3, <3>4, Numbers, ScoreWriting DEF Fresh
  <2> QED  BY <1>7, <2>3, <2>4 DEF MarkPut
<1>8. CASE MarkFails(a)
  BY <1>2, <1>5, <1>8 DEF MarkFails, cluster, memory
<1> QED  BY <1>3, <1>4, <1>6, <1>7, <1>8 DEF Notification
\* No step does.
LEMMA ScoreStep ==
    ASSUME Typed, ScoreInv, [Next]_vars
    PROVE  ScoreInv'
<1>0. \A a \in Apps : dep[a] \in Deployment /\ dep[a].ver \in Nat
  BY Numbers DEF Typed, WorldOK
<1>1. ASSUME NEW a \in Apps, User(a) PROVE ScoreInv'
  <2>1. UNCHANGED <<card, cache, h>>
    BY <1>1 DEF User, Deploy, Edit, Delete, memory
  <2>2. \A b \in Apps : dep'[b].ver = dep[b].ver \/ dep'[b].ver = dep[b].ver + 1
    BY <1>0, <1>1 DEF User, Deploy, Edit, Delete, Typed, WorldOK, Deployment
  <2>3. \A b \in Apps : dep'[b].ver \in Nat /\ dep'[b].ver >= dep[b].ver
    BY <1>0, <2>2
  <2> QED  BY <2>1, <2>3, ScoreAging
<1>2. ASSUME NEW a \in Apps, Kopf(a) PROVE ScoreInv'
  <2>1. CASE Start(a)
    <3> DEFINE body == [uid |-> dep[a].uid, ver |-> dep[a].ver, label |-> dep[a].label]
               frame == [Idle EXCEPT !.pc = "evaluate", !.body = body]
    <3>1. Enter(a, frame) /\ UNCHANGED <<dep, card, cache>>
      BY <2>1 DEF Start, cluster, memory
    <3>2. frame.pc = "evaluate"
      BY DEF Idle
    <3>3. "evaluate" \notin Upserts
      BY DEF Upserts
    <3> HIDE DEF frame
    <3> QED  BY <3>1, <3>2, <3>3, ScoreMoving DEF Carried, Copied
  <2>2. CASE Finish(a) \/ Bury(a)
    <3>1. UNCHANGED <<card, cache>>
      BY <2>2 DEF Finish, Bury, memory
    <3>2. \A b \in Apps : dep'[b].ver = dep[b].ver
      BY <1>0, <2>2 DEF Finish, Bury, Typed, WorldOK, Deployment
    <3>3. \A b \in Apps : h'[b] = h[b] \/ h'[b].pc = "idle"
      BY <2>2, Blank DEF Finish, Bury, Enter, Typed, ProcessOK
    <3>4. \A b \in Apps : dep'[b].ver \in Nat /\ dep'[b].ver >= dep[b].ver
      BY <1>0, <3>2
    <3> QED  BY <3>1, <3>3, <3>4, ScoreAging
  <2> QED  BY <1>2, <2>1, <2>2 DEF Kopf
<1>3. ASSUME NEW a \in Apps, Scoring(a) PROVE ScoreInv'
  <2>0. h[a] \in Frame
    BY HandlerParts DEF Typed
  <2>1. CASE EvaluateFails(a)
    <3> DEFINE frame == [h[a] EXCEPT !.pc = "finish"]
    <3>1. Enter(a, frame) /\ UNCHANGED <<dep, card, cache>>
      BY <2>1 DEF EvaluateFails, Goto, cluster, memory
    <3>2. frame.pc = "finish"
      BY <2>0 DEF Frame
    <3>3. "finish" \notin Upserts
      BY DEF Upserts, ThreadSteps
    <3> HIDE DEF frame
    <3> QED  BY <3>1, <3>2, <3>3, ScoreMoving DEF Carried, Copied
  <2>2. CASE Evaluate(a)
    <3> DEFINE sc == IF cache[a] # NoScorecard THEN cache[a]
                     ELSE [ver |-> dep[a].ver, label |-> dep[a].label]
               frame == [h[a] EXCEPT !.pc = "get", !.sc = sc]
    <3>1. UNCHANGED <<dep, card>> /\ Enter(a, frame) /\ cache' = [cache EXCEPT ![a] = sc]
      BY <2>2 DEF Evaluate, cluster
    <3>2. h'[a] = frame /\ \A b \in Apps \ {a} : h'[b] = h[b]
      BY <3>1, Entered
    <3>3. card[a].status <= sc.ver /\ sc.ver <= dep[a].ver
      BY <1>0 DEF ScoreInv, Fresh
    <3>4. cache'[a] = sc /\ \A b \in Apps \ {a} : cache'[b] = cache[b]
      BY <3>1 DEF Typed, WorldOK
    <3> HIDE DEF sc
    <3>5. frame.pc = "get" /\ frame.sc = sc
      BY <2>0 DEF Frame
    <3> HIDE DEF frame
    <3> SUFFICES ASSUME NEW b \in Apps PROVE (Fresh(b) /\ Carried(b, h[b]) /\ Copied(b, h[b]))'
      BY DEF ScoreInv
    <3>6. Fresh(b) /\ Carried(b, h[b]) /\ Copied(b, h[b])
      BY DEF ScoreInv
    <3>7. CASE b = a
      <4>1. Fresh(b)'
        BY <3>1, <3>3, <3>4, <3>6, <3>7 DEF Fresh
      <4>2. Carried(b, h[b])'
        BY <3>1, <3>2, <3>3, <3>4, <3>5, <3>7 DEF Carried
      <4>3. Copied(b, h[b])'
        BY <3>2, <3>5, <3>7 DEF Copied
      <4> QED  BY <4>1, <4>2, <4>3
    <3>8. CASE b # a
      BY <3>1, <3>2, <3>4, <3>6, <3>8 DEF Fresh, Carried, Copied, CopyOf
    <3> QED  BY <3>7, <3>8
  <2> QED  BY <1>3, <2>1, <2>2 DEF Scoring
<1>4. ASSUME NEW a \in Apps, AutoSLO(a) PROVE ScoreInv'
  <2>0. h[a] \in Frame
    BY HandlerParts DEF Typed
  <2>1. UNCHANGED <<dep, card, cache>>
    BY <1>4 DEF AutoSLO, SkipSLO, FindConfig, FindFails, TouchConfig, ApplyConfig, ConfigFails,
                cluster, memory
  <2>2. \A step \in {"touch", "apply", "notify"} : step \notin Upserts
    BY DEF Upserts, ThreadSteps
  <2>3. ASSUME NEW step \in {"touch", "apply", "notify"}, NEW s, Proceed(a, step, s)
        PROVE  ScoreInv'
    <3> DEFINE frame == [h[a] EXCEPT !.pc = step, !.sc = NoScorecard, !.found = s]
    <3>1. Enter(a, frame)
      BY <2>3 DEF Proceed
    <3>2. frame.pc = step
      BY <2>0 DEF Frame
    <3> HIDE DEF frame
    <3> QED  BY <2>1, <2>2, <3>1, <3>2, ScoreMoving DEF Carried, Copied
  <2>4. ASSUME ConfigDone(a) \/ Abandon(a) PROVE ScoreInv'
    <3>1. PICK step \in {"notify", "finish"} : Enter(a, [h[a] EXCEPT !.pc = step, !.found = None])
      BY <2>4 DEF ConfigDone, Abandon
    <3> DEFINE frame == [h[a] EXCEPT !.pc = step, !.found = None]
    <3>2. frame.pc = step /\ step \notin Upserts
      BY <2>0 DEF Frame, Upserts, ThreadSteps
    <3> HIDE DEF frame
    <3>3. Enter(a, frame)
      BY <3>1 DEF frame
    <3> QED  BY <2>1, <3>2, <3>3, ScoreMoving DEF Carried, Copied
  <2> QED  BY <1>4, <2>3, <2>4
           DEF AutoSLO, SkipSLO, FindConfig, FindFails, TouchConfig, ApplyConfig, ConfigFails
<1>5. ASSUME NEW a \in Apps, CollectGarbage(a) PROVE ScoreInv'
  <2>1. WriteCard(a, NoCard) /\ UNCHANGED <<dep, cache, h>>
    BY <1>5 DEF CollectGarbage, memory
  <2>2. /\ card'[a].status = 0
        /\ \A b \in Apps \ {a} : card'[b] = card[b]
    BY <2>1, Blank, WriteCardType DEF Typed, NoCard
  <2> SUFFICES ASSUME NEW b \in Apps PROVE (Fresh(b) /\ Carried(b, h[b]) /\ Copied(b, h[b]))'
    BY DEF ScoreInv
  <2>3. Fresh(b) /\ Carried(b, h[b]) /\ Copied(b, h[b])
    BY DEF ScoreInv
  <2>4. Fresh(b)' /\ Carried(b, h[b])'
    BY <2>1, <2>2, <2>3, Numbers DEF Fresh, Carried
  <2>5. Copied(b, h[b])'
    BY <2>1, <2>3, Blank, CopiesAge
  <2> QED  BY <2>4, <2>5
<1>6. ASSUME NEW a \in Apps, Expire(a) PROVE ScoreInv'
  <2>1. UNCHANGED <<dep, card, h>> /\ \A b \in Apps : cache'[b] \in {cache[b], NoScorecard}
    BY <1>6 DEF Expire, cluster, Typed, WorldOK
  <2> QED  BY <1>0, <2>1, ScoreAging
<1>7. ASSUME NEW s \in Services, RemoveConfig(s) PROVE ScoreInv'
  BY <1>0, <1>7, ScoreAging DEF RemoveConfig, memory
<1>8. CASE Crash
  <2>1. UNCHANGED <<dep, card>>
    BY <1>8 DEF Crash, cluster
  <2>2. \A b \in Apps : cache'[b] = NoScorecard /\ h'[b].pc = "idle"
    BY <1>8, Blank DEF Crash
  <2> QED  BY <1>0, <2>1, <2>2, ScoreAging
<1>9. CASE UNCHANGED vars
  BY <1>0, <1>9, ScoreAging DEF vars
<1> QED  BY <1>1, <1>2, <1>3, <1>4, <1>5, <1>6, <1>7, <1>8, <1>9, ScoreUpsert, ScoreNotification
         DEF Next, Program

\* No step takes a status back.
LEMMA StatusStep ==
    ASSUME Typed, ScoreInv, [Next]_vars, NEW a \in Apps, card[a].exists, card'[a].exists
    PROVE  card'[a].status >= card[a].status
<1>0. card[a].status \in Nat
  BY Numbers
<1>1. ASSUME NEW b \in Apps, NEW object \in Card, WriteCard(b, object),
             object.exists /\ card[b].exists => object.status >= card[b].status
      PROVE  card'[a].status >= card[a].status
  <2>1. /\ card'[b].exists = object.exists /\ card'[b].status = object.status
        /\ \A c \in Apps \ {b} : card'[c] = card[c]
    BY <1>1, WriteCardType DEF Typed
  <2>2. CASE b = a
    BY <1>1, <2>1, <2>2
  <2>3. CASE b # a
    BY <1>0, <2>1, <2>3
  <2> QED  BY <2>2, <2>3
<1>2. ASSUME NEW b \in Apps, ReplaceCard(b) \/ PutStatus(b) \/ CreateCard(b) \/ CollectGarbage(b)
      PROVE  card'[a].status >= card[a].status
  <2>1. Carried(b, h[b]) /\ Copied(b, h[b]) /\ h[b].copy \in Card /\ "putStatus" \in Upserts
    BY HandlerParts DEF ScoreInv, Typed, Upserts, ThreadSteps
  <2>2. card[b].status \in Nat /\ h[b].copy.status \in Nat /\ h[b].sc.ver \in Nat
    BY Numbers
  <2>3. CASE UNCHANGED card
    BY <1>0, <2>3
  <2>4. CASE ReplaceCard(b) /\ Latest(b, b) /\ WriteCard(b, h[b].copy)
    <3>1. h[b].copy.status = card[b].status
      BY <2>1, <2>4 DEF ReplaceCard, Latest, Copied, CopyOf
    <3> QED  BY <1>1, <2>1, <2>2, <2>4, <3>1
  <2>5. CASE PutStatus(b) /\ WriteCard(b, [h[b].copy EXCEPT !.status = h[b].sc.ver, !.mark = FALSE])
    <3> DEFINE object == [h[b].copy EXCEPT !.status = h[b].sc.ver, !.mark = FALSE]
    <3>1. object \in Card /\ object.status = h[b].sc.ver
      BY <2>1, Objects DEF Card, Typed
    <3>2. card[b].status <= h[b].sc.ver
      BY <2>1, <2>5 DEF PutStatus, Carried
    <3> HIDE DEF object
    <3> QED  BY <1>1, <2>2, <2>5, <3>1, <3>2 DEF object
  <2>6. CASE CreateCard(b) /\ ~card[b].exists
                          /\ WriteCard(b, [NoCard EXCEPT !.exists = TRUE, !.owner = h[b].body.uid])
    BY <1>1, <2>6, Objects DEF Typed
  <2>7. CASE CollectGarbage(b) /\ WriteCard(b, NoCard)
    BY <1>1, <2>7, Blank DEF NoCard
  <2> QED  BY <1>2, <2>3, <2>4, <2>5, <2>6, <2>7 DEF ReplaceCard, PutStatus, CreateCard, CollectGarbage, Replace
<1>3. ASSUME NEW b \in Apps, MarkPut(b)
      PROVE  card'[a].status >= card[a].status
  <2>1. h[b].pc = "markPut" /\ h[b].target \in Apps
    BY <1>3, Numbers DEF MarkPut
  <2>2. CASE UNCHANGED card
    BY <1>0, <2>2
  <2>3. CASE Latest(b, h[b].target) /\ WriteCard(h[b].target, [h[b].copy EXCEPT !.mark = TRUE])
    <3> DEFINE object == [h[b].copy EXCEPT !.mark = TRUE]
    <3>1. object \in Card /\ object.status = h[b].copy.status
      BY Objects, HandlerParts DEF Card, Typed
    <3>2. h[b].copy.status = card[h[b].target].status
      BY <2>1, <2>3 DEF ScoreInv, Copied, CopyOf, Latest
    <3>3. card[h[b].target].status \in Nat
      BY <2>1, Numbers
    <3>4. WriteCard(h[b].target, object)
      BY <2>3
    <3>5. object.status >= card[h[b].target].status
      BY <3>1, <3>2, <3>3
    <3> HIDE DEF object
    <3> QED  BY <1>1, <2>1, <3>1, <3>4, <3>5
  <2> QED  BY <1>3, <2>2, <2>3 DEF MarkPut
<1>4. CASE UNCHANGED card
  BY <1>0, <1>4
<1>5. \/ UNCHANGED card
      \/ \E b \in Apps : ReplaceCard(b) \/ PutStatus(b) \/ CreateCard(b) \/ CollectGarbage(b) \/ MarkPut(b)
  <2>1. ASSUME NEW b \in Apps, User(b) \/ Kopf(b) \/ Scoring(b) \/ Expire(b)
        PROVE  UNCHANGED card
    BY <2>1 DEF User, Deploy, Edit, Delete, Kopf, Start, Finish, Bury, Scoring, Evaluate, EvaluateFails,
                Expire, cluster
  <2>2. ASSUME NEW b \in Apps, GetCard(b) \/ GetAgain(b) \/ UpsertFails(b) \/ AutoSLO(b)
        PROVE  UNCHANGED card
    BY <2>2 DEF GetCard, GetAgain, UpsertFails, AutoSLO, SkipSLO, FindConfig, FindFails, TouchConfig,
                ApplyConfig, ConfigFails, cluster
  <2>3. ASSUME NEW b \in Apps, Notify(b) \/ SlackAnswers(b) \/ MarkGet(b) \/ MarkFails(b)
        PROVE  UNCHANGED card
    BY <2>3 DEF Notify, SlackAnswers, MarkGet, MarkFails, cluster
  <2>4. (\E s \in Services : RemoveConfig(s)) \/ Crash \/ UNCHANGED vars => UNCHANGED card
    BY DEF RemoveConfig, Crash, cluster, vars
  <2> QED  BY <2>1, <2>2, <2>3, <2>4 DEF Next, Program, Upsert, Notification
<1> QED  BY <1>2, <1>3, <1>4, <1>5

\* With any number of Deployments, handlers that read and write back each other's
\* AppScorecards, conflicts, crashes and an evaluation cache, no status goes back
\* to an older evaluation.
THEOREM NeverGoesBack == Spec => NeverBackwards
<1>1. Init => ScoreInv
  <2> SUFFICES ASSUME Init PROVE ScoreInv
    OBVIOUS
  <2>1. "idle" \notin Upserts
    BY DEF Upserts, ThreadSteps
  <2>2. NoCard.status = 0 /\ NoDeployment.ver = 0 /\ NoScorecard.ver = 0
    BY DEF NoCard, NoDeployment, NoScorecard
  <2> QED  BY <2>1, <2>2, Blank DEF Init, ScoreInv, Fresh, Carried, Copied
<1>2. Typed /\ ScoreInv /\ [Next]_vars => ScoreInv'
  BY ScoreStep
<1>3. Typed /\ ScoreInv /\ [Next]_vars =>
        [\A a \in Apps : card[a].exists /\ card'[a].exists => card'[a].status >= card[a].status]_vars
  BY StatusStep
<1> QED  BY <1>1, <1>2, <1>3, AlwaysTyped, PTL DEF Spec, NeverBackwards
----------------------------------------------------------------------------
(* One SLOConfig per Deployment *)

\* No two SLOConfigs are of one Deployment, and one that is about to be created is
\* the first.
SearchInv ==
    Spared("search") =>
        /\ \A s, t \in Services :
              config[s].exists /\ config[t].exists /\ config[s].source = config[t].source
                  /\ config[s].sourceUid = config[t].sourceUid => s = t
        /\ \A a \in Apps : h[a].pc = "apply" => Sourced(a, h[a].body.uid) = {}

\* SLOConfigs may go or be touched, and nobody is about to create one but who was.
LEMMA SearchQuiet ==
    ASSUME SearchInv, Spared("search"),
           \A s \in Services : \/ ~config'[s].exists
                               \/ /\ config[s].exists /\ config'[s].source = config[s].source
                                  /\ config'[s].sourceUid = config[s].sourceUid,
           \A a \in Apps : h'[a].pc = "apply" =>
               h'[a].body = h[a].body /\ (h[a].pc = "apply" \/ Sourced(a, h[a].body.uid) = {})
    PROVE  SearchInv'
BY DEF SearchInv, Sourced

\* No step makes a second SLOConfig of a Deployment, unless a search failed.
LEMMA SearchStep ==
    ASSUME Typed, SearchInv, [Next]_vars
    PROVE  SearchInv'
<1> SUFFICES ASSUME Spared("search")' PROVE SearchInv'
  BY DEF SearchInv
<1>0. Spared("search") /\ ~Spend("search")
  BY SparedBefore DEF Typed, Kinds, Faults
<1> DEFINE Kept == \A s \in Services : \/ ~config'[s].exists
                                      \/ /\ config[s].exists /\ config'[s].source = config[s].source
                                         /\ config'[s].sourceUid = config[s].sourceUid
           Nobody == \A a \in Apps : h'[a].pc = "apply" =>
                        h'[a].body = h[a].body /\ (h[a].pc = "apply" \/ Sourced(a, h[a].body.uid) = {})
<1>1. Kept /\ Nobody => SearchInv'
  BY <1>0, SearchQuiet
<1>2. UNCHANGED config => Kept
  OBVIOUS
<1>3. UNCHANGED h => Nobody
  OBVIOUS
<1>4. ASSUME NEW a \in Apps, NEW frame, Enter(a, frame), frame.pc # "apply" PROVE Nobody
  BY <1>4, Entered
<1>5. \A a \in Apps : h[a] \in Frame
  BY HandlerParts DEF Typed
<1>6. ASSUME NEW a \in Apps, ConfigDone(a) \/ Abandon(a) PROVE Nobody
  <2>0. PICK step \in {"notify", "finish"} : Enter(a, [h[a] EXCEPT !.pc = step, !.found = None])
    BY <1>6 DEF ConfigDone, Abandon
  <2> DEFINE frame == [h[a] EXCEPT !.pc = step, !.found = None]
  <2>1. Enter(a, frame)
    BY <2>0
  <2>2. frame.pc \in {"notify", "finish"}
    BY <1>5 DEF Frame
  <2> HIDE DEF frame, Nobody
  <2> QED  BY <1>4, <2>1, <2>2
<1>7. ASSUME NEW a \in Apps, NEW step \in {"touch", "apply", "notify"}, NEW s, Proceed(a, step, s),
             step = "apply" => Sourced(a, h[a].body.uid) = {}
      PROVE  Nobody
  <2> DEFINE frame == [h[a] EXCEPT !.pc = step, !.sc = NoScorecard, !.found = s]
  <2>1. Enter(a, frame)
    BY <1>7 DEF Proceed
  <2>2. frame.pc = step /\ frame.body = h[a].body
    BY <1>5 DEF Frame
  <2> HIDE DEF frame
  <2>3. h'[a] = frame /\ \A b \in Apps \ {a} : h'[b] = h[b]
    BY <2>1, Entered
  <2> QED  BY <1>7, <2>2, <2>3
<1>8. ASSUME NEW a \in Apps, AutoSLO(a) PROVE SearchInv'
  <2>1. CASE SkipSLO(a)
    BY <1>1, <1>2, <1>7, <2>1 DEF SkipSLO, cluster
  <2>2. CASE FindConfig(a)
    BY <1>1, <1>2, <1>7, <2>2 DEF FindConfig, cluster
  <2>3. CASE FindFails(a)
    BY <1>0, <2>3 DEF FindFails
  <2>4. CASE TouchConfig(a)
    <3>1. ConfigDone(a) \/ Abandon(a)
      BY <2>4 DEF TouchConfig
    <3>2. \A s \in Services : config[s] \in Config
      BY DEF Typed, WorldOK
    <3>3. Kept
      BY <2>4, <3>2 DEF TouchConfig, Typed, WorldOK, Config
    <3> HIDE DEF Kept, Nobody
    <3> QED  BY <1>1, <1>6, <3>1, <3>3
  <2>5. CASE ApplyConfig(a)
    <3> DEFINE l == h[a].body.label
               new == [exists |-> TRUE, source |-> a, sourceUid |-> h[a].body.uid, touched |-> 0]
    <3>1. ConfigDone(a) /\ h[a].pc = "apply" /\ l \in Services
      BY <2>5 DEF ApplyConfig, Typed, ProcessOK, Aimed
    <3>2. CASE config[l].exists
      <4>1. UNCHANGED config
        BY <2>5, <3>2 DEF ApplyConfig
      <4> HIDE DEF Kept, Nobody
      <4> QED  BY <1>1, <1>2, <1>6, <3>1, <4>1
    <3>3. CASE ~config[l].exists
      <4>1. config'[l] = new /\ \A s \in Services \ {l} : config'[s] = config[s]
        BY <2>5, <3>1, <3>3 DEF ApplyConfig, Typed, WorldOK
      <4>2. Sourced(a, h[a].body.uid) = {}
        BY <1>0, <3>1 DEF SearchInv
      <4>3. \A s \in Services : config[s].exists /\ config[s].source = a => config[s].sourceUid # h[a].body.uid
        BY <4>2 DEF Sourced
      <4>4. \A s, t \in Services :
              config'[s].exists /\ config'[t].exists /\ config'[s].source = config'[t].source
                  /\ config'[s].sourceUid = config'[t].sourceUid => s = t
        BY <1>0, <4>1, <4>3 DEF SearchInv
      <4>5. \A b \in Apps : h'[b].pc = "apply" => b # a /\ h'[b] = h[b]
        <5> DEFINE frame == [h[a] EXCEPT !.pc = "notify", !.found = None]
        <5>1. Enter(a, frame)
          BY <3>1 DEF ConfigDone
        <5>2. frame.pc = "notify"
          BY <1>5 DEF Frame
        <5> HIDE DEF frame
        <5> QED  BY <5>1, <5>2, Entered
      <4>6. \A b \in Apps : h'[b].pc = "apply" => Sourced(b, h[b].body.uid)' = {}
        BY <1>0, <4>1, <4>5 DEF SearchInv, Sourced
      <4> QED  BY <4>4, <4>6 DEF SearchInv
    <3> QED  BY <3>2, <3>3
  <2>6. CASE ConfigFails(a)
    BY <1>1, <1>2, <1>6, <2>6 DEF ConfigFails, cluster
  <2> QED  BY <1>8, <2>1, <2>2, <2>3, <2>4, <2>5, <2>6 DEF AutoSLO
<1>9. ASSUME NEW a \in Apps, Kopf(a) \/ Scoring(a) \/ Upsert(a) \/ Notification(a)
      PROVE  SearchInv'
  <2>0. UNCHANGED config
    BY <1>9 DEF Kopf, Start, Finish, Bury, Scoring, Evaluate, EvaluateFails, Upsert, GetCard, GetAgain,
                ReplaceCard, PutStatus, CreateCard, UpsertFails, Notification, Notify, SlackAnswers,
                MarkGet, MarkPut, MarkFails, cluster
  <2>1. ASSUME NEW step, step # "apply", Goto(a, step) PROVE Nobody
    <3>1. [h[a] EXCEPT !.pc = step].pc = step
      BY <1>5 DEF Frame
    <3> HIDE DEF Nobody
    <3> QED  BY <1>4, <2>1, <3>1 DEF Goto
  <2>2. ASSUME AfterUpsert(a) PROVE Nobody
    <3> DEFINE frame == [h[a] EXCEPT !.pc = "find", !.copy = NoCard]
    <3>1. Enter(a, frame)
      BY <2>2 DEF AfterUpsert
    <3>2. frame.pc = "find"
      BY <1>5 DEF Frame
    <3> HIDE DEF frame, Nobody
    <3> QED  BY <1>4, <3>1, <3>2
  <2>3. ASSUME NEW step \in {"replace", "putStatus"}, Fetch(a, step) PROVE Nobody
    <3> DEFINE frame == [h[a] EXCEPT !.pc = step, !.copy = card[a]]
    <3>1. Enter(a, frame) \/ Goto(a, "create")
      BY <2>3 DEF Fetch, Goto
    <3>2. frame.pc = step
      BY <1>5 DEF Frame
    <3> HIDE DEF frame, Nobody
    <3> QED  BY <1>4, <2>1, <2>3, <3>1, <3>2
  <2>4. ASSUME NEW b, Marked(a, b) PROVE Nobody
    <3> DEFINE rest == h[a].digest \ {b}
               step == IF rest = {} THEN "finish" ELSE "markGet"
               frame == [h[a] EXCEPT !.pc = step, !.digest = rest, !.target = None, !.copy = NoCard]
    <3>1. Enter(a, frame)
      BY <2>4 DEF Marked
    <3>2. step # "apply"
      OBVIOUS
    <3> HIDE DEF step
    <3>3. frame.pc = step
      BY <1>5 DEF Frame
    <3> HIDE DEF frame, Nobody
    <3> QED  BY <1>4, <3>1, <3>2, <3>3
  <2>5. ASSUME Kopf(a) \/ Scoring(a) PROVE Nobody
    <3>1. CASE Start(a)
      <4> DEFINE body == [uid |-> dep[a].uid, ver |-> dep[a].ver, label |-> dep[a].label]
                 frame == [Idle EXCEPT !.pc = "evaluate", !.body = body]
      <4>1. Enter(a, frame) /\ frame.pc = "evaluate"
        BY <3>1 DEF Start, Idle
      <4> HIDE DEF frame, Nobody
      <4> QED  BY <1>4, <4>1
    <3>2. CASE Finish(a) \/ Bury(a)
      <4>1. UNCHANGED h \/ Enter(a, Idle)
        BY <3>2 DEF Finish, Bury
      <4> HIDE DEF Nobody
      <4> QED  BY <1>3, <1>4, <4>1, Blank
    <3>3. CASE Evaluate(a)
      <4> DEFINE sc == IF cache[a] # NoScorecard THEN cache[a]
                       ELSE [ver |-> dep[a].ver, label |-> dep[a].label]
                 frame == [h[a] EXCEPT !.pc = "get", !.sc = sc]
      <4>1. Enter(a, frame)
        BY <3>3 DEF Evaluate
      <4> HIDE DEF sc
      <4>2. frame.pc = "get"
        BY <1>5 DEF Frame
      <4> HIDE DEF frame, Nobody
      <4> QED  BY <1>4, <4>1, <4>2
    <3>4. CASE EvaluateFails(a)
      BY <2>1, <3>4 DEF EvaluateFails
    <3> HIDE DEF Nobody
    <3> QED  BY <2>5, <3>1, <3>2, <3>3, <3>4 DEF Kopf, Scoring
  <2>6. ASSUME Upsert(a) PROVE Nobody
    <3> HIDE DEF Nobody
    <3>1. \/ AfterUpsert(a)
          \/ \E step \in {"replace", "putStatus"} : Fetch(a, step)
          \/ \E step \in {"getAgain", "create"} : Goto(a, step)
      BY <2>6 DEF Upsert, GetCard, GetAgain, ReplaceCard, PutStatus, CreateCard, UpsertFails, Replace
    <3> QED  BY <2>1, <2>2, <2>3, <3>1
  <2>7. ASSUME Notification(a) PROVE Nobody
    <3>1. CASE Notify(a)
      <4> DEFINE frame == [h[a] EXCEPT !.pc = "send", !.digest = buffer \cup {a}]
      <4>1. Goto(a, "finish") \/ Enter(a, frame)
        BY <3>1 DEF Notify
      <4>2. frame.pc = "send"
        BY <1>5 DEF Frame
      <4> HIDE DEF frame, Nobody
      <4> QED  BY <1>4, <2>1, <4>1, <4>2
    <3>2. CASE SlackAnswers(a)
      <4>1. \E step \in {"finish", "markGet"} : Goto(a, step)
        BY <3>2 DEF SlackAnswers
      <4> HIDE DEF Nobody
      <4> QED  BY <2>1, <4>1
    <3>3. CASE MarkGet(a)
      <4>1. PICK b \in h[a].digest :
              IF card[b].exists
              THEN /\ Enter(a, [h[a] EXCEPT !.pc = "markPut", !.copy = card[b], !.target = b])
                   /\ UNCHANGED loop
              ELSE Marked(a, b)
        BY <3>3 DEF MarkGet
      <4> DEFINE frame == [h[a] EXCEPT !.pc = "markPut", !.copy = card[b], !.target = b]
      <4>2. Enter(a, frame) \/ Marked(a, b)
        BY <4>1
      <4>3. frame.pc = "markPut"
        BY <1>5 DEF Frame
      <4> HIDE DEF frame, Nobody
      <4> QED  BY <1>4, <2>4, <4>2, <4>3
    <3>4. CASE MarkPut(a) \/ MarkFails(a)
      <4>1. \E b : Marked(a, b)
        BY <3>4 DEF MarkPut, MarkFails
      <4> HIDE DEF Nobody
      <4> QED  BY <2>4, <4>1
    <3> HIDE DEF Nobody
    <3> QED  BY <2>7, <3>1, <3>2, <3>3, <3>4 DEF Notification
  <2> HIDE DEF Kept, Nobody
  <2> QED  BY <1>1, <1>2, <1>9, <2>0, <2>5, <2>6, <2>7
<1>10. ASSUME NEW a \in Apps, User(a) \/ CollectGarbage(a) \/ Expire(a)
       PROVE  SearchInv'
  <2>1. UNCHANGED <<config, h>>
    BY <1>10 DEF User, Deploy, Edit, Delete, CollectGarbage, Expire, cluster
  <2> HIDE DEF Kept, Nobody
  <2> QED  BY <1>1, <1>2, <1>3, <2>1
<1>11. ASSUME NEW s \in Services, RemoveConfig(s)
       PROVE  SearchInv'
  <2>1. UNCHANGED h /\ Nobody
    BY <1>3, <1>11 DEF RemoveConfig
  <2>2. \A t \in Services : config'[t] = config[t] \/ config'[t] = NoConfig
    BY <1>11 DEF RemoveConfig, Typed, WorldOK
  <2>3. \A t \in Services : config[t].exists \/ config[t].exists = FALSE
    BY DEF Typed, WorldOK, Config
  <2>4. Kept
    BY <2>2, <2>3 DEF NoConfig
  <2> QED  BY <1>1, <2>1, <2>4
<1>12. CASE Crash
  <2>1. UNCHANGED config /\ \A a \in Apps : h'[a] = Idle
    BY <1>12 DEF Crash, cluster
  <2>2. Kept /\ Nobody
    BY <2>1, Blank
  <2> QED  BY <1>1, <2>2
<1>13. CASE UNCHANGED vars
  <2>1. UNCHANGED <<config, h>>
    BY <1>13 DEF vars
  <2> HIDE DEF Kept, Nobody
  <2> QED  BY <1>1, <1>2, <1>3, <2>1
<1> HIDE DEF Kept, Nobody
<1> QED  BY <1>8, <1>9, <1>10, <1>11, <1>12, <1>13 DEF Next, Program

\* For any Deployments that share, change and lose labels, whoever crashes and
\* whatever calls fail, a Deployment is the source of one SLOConfig at most until a
\* search for it fails.
THEOREM OneConfigAtMost == Spec => []OneConfigPerDeployment
<1>1. Init => SearchInv
  <2> SUFFICES ASSUME Init PROVE SearchInv
    OBVIOUS
  <2> QED  BY Blank DEF Init, SearchInv, NoConfig
<1>2. Typed /\ SearchInv /\ [Next]_vars => SearchInv'
  BY SearchStep
<1>3. SearchInv => OneConfigPerDeployment
  <2> SUFFICES ASSUME SearchInv, Spared("search"), NEW a \in Apps
               PROVE  Cardinality(Sourced(a, dep[a].uid)) <= 1
    BY DEF OneConfigPerDeployment
  <2> DEFINE found == Sourced(a, dep[a].uid)
  <2>1. CASE found = {}
    BY <2>1, FS_EmptySet
  <2>2. CASE found # {}
    <3>1. PICK s \in found : TRUE
      BY <2>2
    <3>2. \A t \in found : t = s
      BY <3>1 DEF SearchInv, Sourced
    <3>3. found = {s}
      BY <3>1, <3>2
    <3>4. Cardinality({s}) = 1
      BY FS_Singleton
    <3>5. Cardinality(found) = 1
      BY <3>3, <3>4
    <3> HIDE DEF found
    <3>6. Cardinality(found) <= 1
      BY <3>5
    <3> QED  BY <3>6 DEF found
  <2> QED  BY <2>1, <2>2
<1> QED  BY <1>1, <1>2, <1>3, AlwaysTyped, PTL DEF Spec

----------------------------------------------------------------------------
(* AppScorecards of what was handled *)

\* Steps at which the AppScorecard of the event need not be there yet.
Early == {"idle", "evaluate", "get", "create"}

IsFirst(a) == dep[a].phase # "absent" /\ dep[a].uid = 1

\* A copy of the AppScorecard of b, while there is but one Deployment of that name, is
\* one of an AppScorecard that this Deployment owns.
CopyOfFirst(frame, b) ==
    dep[b].uid \in {0, 1} => dep[b].uid = 1 /\ frame.copy.exists /\ frame.copy.owner = 1

\* A handler of the first Deployment works for that one.
Placed(a, frame) ==
    /\ dep[a].uid = 0 => frame.pc = "idle"
    /\ dep[a].uid = 1 /\ frame.pc # "idle" => frame.body.uid = 1
    /\ frame.pc \in {"replace", "putStatus"} => CopyOfFirst(frame, a)
    /\ frame.pc = "markPut" => CopyOfFirst(frame, frame.target)

\* An AppScorecard has the owner that keeps the garbage collector away.
Owning(a) ==
    /\ dep[a].uid = 0 => dep[a].phase = "absent" /\ ~card[a].exists
    /\ dep[a].uid = 1 /\ card[a].exists => card[a].owner = 1

\* It is there as soon as the upsert has seen or written it.
Carded(a, frame) == IsFirst(a) /\ frame.pc \notin Early => card[a].exists
Recorded(a) == IsFirst(a) /\ dep[a].handled # 0 => card[a].exists

CardInv ==
    /\ \A a \in Apps : Owning(a) /\ Placed(a, h[a])
    /\ Answering => \A a \in Apps : Carded(a, h[a]) /\ Recorded(a)

\* Calls that were all answered after a step were answered before it.
LEMMA AnsweringBefore ==
    ASSUME Typed, [Next]_vars, Answering'
    PROVE  Answering /\ ~Spend("read") /\ ~Spend("kube")
<1>1. "read" \in Kinds /\ "kube" \in Kinds
  BY DEF Kinds, Faults
<1>2. Spared("read")' /\ Spared("kube")'
  BY DEF Answering
<1>3. Spared("read") /\ ~Spend("read")
  BY <1>1, <1>2, SparedBefore DEF Typed
<1>4. Spared("kube") /\ ~Spend("kube")
  BY <1>1, <1>2, SparedBefore DEF Typed
<1> QED  BY <1>3, <1>4 DEF Answering

\* Handlers stay where they are, or end.
LEMMA CardQuiet ==
    ASSUME Typed, CardInv, [Next]_vars, UNCHANGED <<dep, card>>,
           \A a \in Apps : h'[a] = h[a] \/ h'[a].pc = "idle"
    PROVE  CardInv'
<1>1. ASSUME NEW a \in Apps PROVE Owning(a)' /\ Placed(a, h[a])'
  <2>1. Owning(a) /\ Placed(a, h[a]) /\ (h'[a] = h[a] \/ h'[a].pc = "idle")
    BY DEF CardInv
  <2> QED  BY <2>1 DEF Owning, Placed, CopyOfFirst
<1>2. ASSUME Answering', NEW a \in Apps PROVE Carded(a, h[a])' /\ Recorded(a)'
  <2>1. Carded(a, h[a]) /\ Recorded(a) /\ (h'[a] = h[a] \/ h'[a].pc = "idle")
    BY <1>2, AnsweringBefore DEF CardInv
  <2> QED  BY <2>1 DEF Carded, Recorded, IsFirst, Early
<1> QED  BY <1>1, <1>2 DEF CardInv

\* A handler goes on, with a copy that is in order and no further than it may.
LEMMA CardGoing ==
    ASSUME Typed, CardInv, [Next]_vars, UNCHANGED <<dep, card>>,
           NEW a \in Apps, NEW frame, Enter(a, frame),
           Placed(a, frame), Answering' => Carded(a, frame)
    PROVE  CardInv'
<1>0. h'[a] = frame /\ \A b \in Apps \ {a} : h'[b] = h[b]
  BY Entered
<1>1. ASSUME NEW b \in Apps PROVE Owning(b)' /\ Placed(b, h[b])'
  <2>1. Owning(b) /\ Placed(b, h[b])
    BY DEF CardInv
  <2>2. Placed(b, h'[b])
    BY <1>0, <2>1
  <2> QED  BY <2>1, <2>2 DEF Owning, Placed, CopyOfFirst
<1>2. ASSUME Answering', NEW b \in Apps PROVE Carded(b, h[b])' /\ Recorded(b)'
  <2>1. Carded(b, h[b]) /\ Recorded(b)
    BY <1>2, AnsweringBefore DEF CardInv
  <2>2. Carded(b, h'[b])
    BY <1>0, <1>2, <2>1
  <2> QED  BY <2>1, <2>2 DEF Carded, Recorded, IsFirst
<1> QED  BY <1>1, <1>2 DEF CardInv

\* A handler stays with its body.
LEMMA PlacedOn ==
    ASSUME CardInv, NEW a \in Apps, h[a].pc # "idle",
           NEW frame, frame.body = h[a].body,
           frame.pc \in {"replace", "putStatus"} => CopyOfFirst(frame, a),
           frame.pc = "markPut" => CopyOfFirst(frame, frame.target)
    PROVE  Placed(a, frame)
BY DEF CardInv, Placed

\* A handler that is past the upsert remains so.
LEMMA CardLater ==
    ASSUME Typed, CardInv, [Next]_vars, UNCHANGED <<dep, card>>,
           NEW a \in Apps, NEW frame, Enter(a, frame), h[a].pc \notin Early,
           frame.body = h[a].body,
           frame.pc \notin {"replace", "putStatus"},
           frame.pc = "markPut" => CopyOfFirst(frame, frame.target)
    PROVE  CardInv'
<1>1. Placed(a, frame)
  BY PlacedOn DEF Early
<1>2. Answering' => Carded(a, frame)
  BY AnsweringBefore DEF CardInv, Carded
<1> QED  BY <1>1, <1>2, CardGoing

\* A handler writes an AppScorecard: its own, or one that it has read.
LEMMA CardWriting ==
    ASSUME Typed, CardInv, [Next]_vars, UNCHANGED dep,
           NEW b \in Apps, NEW object \in Card, WriteCard(b, object), dep[b].uid # 0,
           dep[b].uid = 1 => object.exists /\ object.owner = 1,
           NEW a \in Apps, NEW frame, Enter(a, frame), Placed(a, frame),
           a # b => h[a].pc \notin Early
    PROVE  CardInv'
<1>0. h'[a] = frame /\ \A c \in Apps \ {a} : h'[c] = h[c]
  BY Entered
<1>1. /\ card'[b] = [object EXCEPT !.rv = card[b].rv + 1]
      /\ \A c \in Apps \ {b} : card'[c] = card[c]
  BY WriteCardType DEF Typed
<1>2. card'[b].exists = object.exists /\ card'[b].owner = object.owner
  BY <1>1 DEF Card
<1>3. ASSUME NEW c \in Apps PROVE Owning(c)' /\ Placed(c, h[c])'
  <2>1. Owning(c) /\ Placed(c, h[c])
    BY DEF CardInv
  <2>2. Placed(c, h'[c])
    BY <1>0, <2>1
  <2>3. Placed(c, h[c])'
    BY <2>2 DEF Placed, CopyOfFirst
  <2>4. Owning(c)'
    BY <1>1, <1>2, <2>1 DEF Owning
  <2> QED  BY <2>3, <2>4
<1>4. ASSUME Answering', NEW c \in Apps PROVE Carded(c, h[c])' /\ Recorded(c)'
  <2>1. Carded(c, h[c]) /\ Recorded(c) /\ Carded(a, h[a])
    BY <1>4, AnsweringBefore DEF CardInv
  <2>2. CASE c = b
    BY <1>2, <2>2 DEF Carded, Recorded, IsFirst
  <2>3. CASE c # b
    BY <1>0, <1>1, <2>1, <2>3 DEF Carded, Recorded, IsFirst
  <2> QED  BY <2>2, <2>3
<1> QED  BY <1>3, <1>4 DEF CardInv

\* A new Deployment is not the first of its name, unless nothing of that name was
\* there: then no handler holds a copy.
LEMMA PlacedStays ==
    ASSUME Typed, CardInv, NEW a \in Apps, h'[a] = h[a],
           \A b \in Apps : dep'[b].uid = 0 => dep[b].uid = 0,
           \A b \in Apps : dep'[b].uid = 1 => dep[b].uid \in {0, 1}
    PROVE  Placed(a, h[a])'
<1>1. Placed(a, h[a]) /\ (h[a].pc = "markPut" => h[a].target \in Apps)
  BY Numbers DEF CardInv
<1> QED  BY <1>1 DEF Placed, CopyOfFirst

\* Users, and the garbage collector, which spares what the first Deployment owns.
LEMMA CardUser ==
    ASSUME Typed, CardInv, [Next]_vars, NEW a \in Apps, User(a) \/ CollectGarbage(a)
    PROVE  CardInv'
<1>0. /\ \A b \in Apps : dep[b] \in Deployment /\ dep[b].uid \in Nat
      /\ \A b \in Apps : h[b].pc = "markPut" => h[b].target \in Apps
  BY Numbers DEF Typed, WorldOK, Deployment, Uids
<1>1. CASE Deploy(a)
  <2>1. /\ dep[a].phase = "absent" /\ UNCHANGED <<card, h>>
        /\ dep' = [dep EXCEPT ![a] = [phase |-> "live", uid |-> dep[a].uid + 1,
                     ver |-> dep[a].ver + 1, label |-> First[a], handled |-> 0]]
    BY <1>1 DEF Deploy
  <2>2. /\ dep'[a].uid = dep[a].uid + 1 /\ dep'[a].phase = "live" /\ dep'[a].handled = 0
        /\ \A b \in Apps \ {a} : dep'[b] = dep[b]
    BY <2>1 DEF Typed, WorldOK
  <2>3. dep'[a].uid # 0 /\ (dep'[a].uid = 1 => dep[a].uid = 0)
    BY <1>0, <2>2
  <2>4. ASSUME NEW b \in Apps PROVE Placed(b, h[b])'
    <3>1. /\ \A c \in Apps : dep'[c].uid = 0 => dep[c].uid = 0
          /\ \A c \in Apps : dep'[c].uid = 1 => dep[c].uid \in {0, 1}
      BY <2>2, <2>3
    <3>2. h'[b] = h[b]
      BY <2>1
    <3> QED  BY <3>1, <3>2, PlacedStays
  <2>5. ASSUME NEW b \in Apps PROVE Owning(b)'
    <3>1. Owning(b)
      BY DEF CardInv
    <3> QED  BY <2>1, <2>2, <2>3, <3>1 DEF Owning
  <2>6. ASSUME Answering', NEW b \in Apps PROVE Carded(b, h[b])' /\ Recorded(b)'
    <3>1. Carded(b, h[b]) /\ Recorded(b) /\ Placed(b, h[b])
      BY <2>6, AnsweringBefore DEF CardInv
    <3> QED  BY <2>1, <2>2, <2>3, <3>1 DEF Carded, Recorded, IsFirst, Placed, Early
  <2> QED  BY <2>4, <2>5, <2>6 DEF CardInv
<1>2. CASE Edit(a) \/ Delete(a)
  <2>1. UNCHANGED <<card, h>> /\ dep[a].phase = "live"
    BY <1>2 DEF Edit, Delete
  <2>2. /\ \A b \in Apps : dep'[b].uid = dep[b].uid /\ dep'[b].handled = dep[b].handled
        /\ \A b \in Apps : dep'[b].phase \in {dep[b].phase, "terminating"}
        /\ \A b \in Apps : dep'[b].phase = "absent" <=> dep[b].phase = "absent"
    <3>1. CASE Edit(a)
      BY <1>0, <2>1, <3>1 DEF Edit, Typed, WorldOK, Deployment
    <3>2. CASE Delete(a)
      BY <1>0, <2>1, <3>2 DEF Delete, Typed, WorldOK, Deployment
    <3> QED  BY <1>2, <3>1, <3>2
  <2>3. ASSUME NEW b \in Apps PROVE Placed(b, h[b])'
    BY <2>1, <2>2, PlacedStays
  <2>4. ASSUME NEW b \in Apps PROVE Owning(b)'
    <3>1. Owning(b)
      BY DEF CardInv
    <3> QED  BY <2>1, <2>2, <3>1 DEF Owning
  <2>5. ASSUME Answering', NEW b \in Apps PROVE Carded(b, h[b])' /\ Recorded(b)'
    <3>1. Carded(b, h[b]) /\ Recorded(b)
      BY <2>5, AnsweringBefore DEF CardInv
    <3> QED  BY <2>1, <2>2, <3>1 DEF Carded, Recorded, IsFirst
  <2> QED  BY <2>3, <2>4, <2>5 DEF CardInv
<1>3. CASE CollectGarbage(a)
  <2>1. /\ WriteCard(a, NoCard) /\ UNCHANGED <<dep, h>> /\ card[a].exists
        /\ dep[a].phase = "absent" \/ dep[a].uid # card[a].owner
    BY <1>3 DEF CollectGarbage
  <2>2. /\ ~card'[a].exists
        /\ \A b \in Apps \ {a} : card'[b] = card[b]
    BY <2>1, Blank, WriteCardType DEF Typed, NoCard
  <2>3. ~IsFirst(a)
    BY <2>1 DEF CardInv, Owning, IsFirst
  <2>4. ASSUME NEW b \in Apps PROVE Owning(b)' /\ Placed(b, h[b])'
    <3>1. Owning(b) /\ Placed(b, h[b])
      BY DEF CardInv
    <3> QED  BY <2>1, <2>2, <3>1 DEF Owning, Placed, CopyOfFirst
  <2>5. ASSUME Answering', NEW b \in Apps PROVE Carded(b, h[b])' /\ Recorded(b)'
    <3>1. Carded(b, h[b]) /\ Recorded(b)
      BY <2>5, AnsweringBefore DEF CardInv
    <3> QED  BY <2>1, <2>2, <2>3, <3>1 DEF Carded, Recorded, IsFirst
  <2> QED  BY <2>4, <2>5 DEF CardInv
<1> QED  BY <1>1, <1>2, <1>3 DEF User

\* kopf starts a handler for the Deployment as it is, and records what the handler
\* that ends was started with.
LEMMA CardKopf ==
    ASSUME Typed, CardInv, [Next]_vars, NEW a \in Apps, Kopf(a)
    PROVE  CardInv'
<1>0. \A b \in Apps : dep[b] \in Deployment
  BY DEF Typed, WorldOK
<1>1. CASE Start(a)
  <2> DEFINE body == [uid |-> dep[a].uid, ver |-> dep[a].ver, label |-> dep[a].label]
             frame == [Idle EXCEPT !.pc = "evaluate", !.body = body]
  <2>1. Enter(a, frame) /\ UNCHANGED <<dep, card>> /\ dep[a].phase = "live"
    BY <1>1 DEF Start, EventDue, cluster
  <2>2. frame.pc = "evaluate" /\ frame.body.uid = dep[a].uid
    BY DEF Idle
  <2> HIDE DEF frame
  <2>3. Placed(a, frame)
    BY <2>1, <2>2 DEF CardInv, Owning, Placed
  <2>4. Carded(a, frame)
    BY <2>2 DEF Carded, Early
  <2> QED  BY <2>1, <2>3, <2>4, CardGoing
<1>2. CASE Finish(a) \/ Bury(a)
  <2>1. /\ UNCHANGED card /\ h[a].pc \in {"finish", "idle"}
        /\ \A b \in Apps : h'[b] = h[b] \/ h'[b].pc = "idle"
    BY <1>2, Blank DEF Finish, Bury, Enter, Typed, ProcessOK
  <2>2. /\ \A b \in Apps : dep'[b].uid = dep[b].uid
        /\ \A b \in Apps : dep'[b].phase \in {dep[b].phase, "absent"}
        /\ \A b \in Apps : \/ dep'[b].handled = dep[b].handled
                           \/ b = a /\ h[a].pc = "finish"
    BY <1>0, <1>2 DEF Finish, Bury, Typed, WorldOK, Deployment
  <2>3. ASSUME NEW b \in Apps PROVE Owning(b)'
    <3>1. Owning(b)
      BY DEF CardInv
    <3> QED  BY <2>1, <2>2, <3>1 DEF Owning
  <2>4. ASSUME NEW b \in Apps PROVE Placed(b, h[b])'
    <3>1. CASE h'[b].pc = "idle"
      BY <3>1 DEF Placed
    <3>2. CASE h'[b] = h[b]
      BY <2>2, <3>2, PlacedStays
    <3> QED  BY <2>1, <3>1, <3>2
  <2>5. ASSUME Answering', NEW b \in Apps PROVE Carded(b, h[b])' /\ Recorded(b)'
    <3>1. Carded(b, h[b]) /\ Recorded(b) /\ Carded(a, h[a])
      BY <2>5, AnsweringBefore DEF CardInv
    <3>2. IsFirst(b)' => IsFirst(b)
      BY <2>2 DEF IsFirst
    <3>3. Carded(b, h[b])'
      BY <2>1, <3>1, <3>2 DEF Carded, Early
    <3>4. Recorded(b)'
      BY <2>1, <2>2, <3>1, <3>2 DEF Recorded, Carded, Early
    <3> QED  BY <3>3, <3>4
  <2> QED  BY <2>3, <2>4, <2>5 DEF CardInv
<1> QED  BY <1>1, <1>2 DEF Kopf

\* The upsert ends only where the AppScorecard has been seen or written.
LEMMA CardUpsert ==
    ASSUME Typed, CardInv, [Next]_vars, NEW a \in Apps, Upsert(a)
    PROVE  CardInv'
<1>0. /\ Owning(a) /\ Placed(a, h[a])
      /\ h[a] \in Frame /\ h[a].copy \in Card /\ card[a] \in Card
      /\ dep[a].uid \in Nat
  BY HandlerParts DEF CardInv, Typed, WorldOK, Deployment, Uids
<1>1. h[a].pc \in {"get", "replace", "getAgain", "putStatus", "create"}
  BY DEF Upsert, GetCard, ReplaceCard, GetAgain, PutStatus, CreateCard, UpsertFails, ThreadSteps
<1>2. /\ dep[a].uid # 0
      /\ dep[a].uid = 1 => h[a].body.uid = 1
  BY <1>0, <1>1 DEF Placed
<1>3. \A step \in Steps : /\ [h[a] EXCEPT !.pc = step].pc = step
                          /\ [h[a] EXCEPT !.pc = step].body = h[a].body
  BY <1>0 DEF Frame
<1>4. ASSUME AfterUpsert(a), UNCHANGED <<dep, card>>,
             Answering' => card[a].exists
      PROVE  CardInv'
  <2> DEFINE frame == [h[a] EXCEPT !.pc = "find", !.copy = NoCard]
  <2>1. frame.pc = "find" /\ frame.body = h[a].body
    BY <1>0 DEF Frame
  <2>2. Enter(a, frame)
    BY <1>4 DEF AfterUpsert
  <2> HIDE DEF frame
  <2>3. Placed(a, frame)
    BY <1>1, <2>1, PlacedOn
  <2>4. Answering' => Carded(a, frame)
    BY <1>4 DEF Carded
  <2> QED  BY <1>4, <2>2, <2>3, <2>4, CardGoing
<1>5. ASSUME Goto(a, "create"), UNCHANGED <<dep, card>> PROVE CardInv'
  <2> DEFINE frame == [h[a] EXCEPT !.pc = "create"]
  <2>1. frame.pc = "create" /\ frame.body = h[a].body
    BY <1>3 DEF Steps, ThreadSteps
  <2>2. Enter(a, frame)
    BY <1>5 DEF Goto
  <2> HIDE DEF frame
  <2>3. Placed(a, frame)
    BY <1>1, <2>1, PlacedOn
  <2>4. Carded(a, frame)
    BY <2>1 DEF Carded, Early
  <2> QED  BY <1>5, <2>2, <2>3, <2>4, CardGoing
<1>6. ASSUME NEW step \in {"replace", "putStatus"}, Fetch(a, step), UNCHANGED <<dep, card>>
      PROVE  CardInv'
  <2>1. CASE card[a].exists
    <3> DEFINE frame == [h[a] EXCEPT !.pc = step, !.copy = card[a]]
    <3>1. frame.pc = step /\ frame.body = h[a].body /\ frame.copy = card[a]
      BY <1>0 DEF Frame
    <3>2. Enter(a, frame)
      BY <1>6, <2>1 DEF Fetch
    <3> HIDE DEF frame
    <3>3. CopyOfFirst(frame, a)
      BY <1>0, <1>2, <2>1, <3>1 DEF CopyOfFirst, Owning
    <3>4. Placed(a, frame)
      BY <1>1, <1>6, <3>1, <3>3, PlacedOn
    <3>5. Carded(a, frame)
      BY <2>1 DEF Carded
    <3> QED  BY <1>6, <3>2, <3>4, <3>5, CardGoing
  <2>2. CASE ~card[a].exists
    BY <1>5, <1>6, <2>2 DEF Fetch, Goto
  <2> QED  BY <2>1, <2>2
<1>7. CASE GetCard(a) \/ GetAgain(a)
  BY <1>6, <1>7 DEF GetCard, GetAgain, cluster
<1>8. CASE ReplaceCard(a)
  <2>1. h[a].pc = "replace" /\ UNCHANGED dep /\ Replace(a, h[a].copy, Goto(a, "getAgain"))
    BY <1>8 DEF ReplaceCard
  <2>2. CASE WriteCard(a, h[a].copy) /\ Goto(a, "getAgain")
    <3> DEFINE frame == [h[a] EXCEPT !.pc = "getAgain"]
    <3>1. frame.pc = "getAgain" /\ frame.body = h[a].body
      BY <1>3 DEF Steps, ThreadSteps
    <3>2. Enter(a, frame)
      BY <2>2 DEF Goto
    <3> HIDE DEF frame
    <3>3. Placed(a, frame)
      BY <1>1, <3>1, PlacedOn
    <3>4. dep[a].uid = 1 => h[a].copy.exists /\ h[a].copy.owner = 1
      BY <1>0, <2>1 DEF Placed, CopyOfFirst
    <3> QED  BY <1>0, <1>2, <2>1, <2>2, <3>2, <3>3, <3>4, CardWriting
  <2>3. CASE Goto(a, "create") /\ UNCHANGED card
    BY <1>5, <2>1, <2>3
  <2>4. CASE card[a].exists /\ AfterUpsert(a) /\ UNCHANGED card
    BY <1>4, <2>1, <2>4
  <2> QED  BY <2>1, <2>2, <2>3, <2>4 DEF Replace
<1>9. CASE PutStatus(a)
  <2> DEFINE object == [h[a].copy EXCEPT !.status = h[a].sc.ver, !.mark = FALSE]
  <2>1. h[a].pc = "putStatus" /\ UNCHANGED dep /\ Replace(a, object, AfterUpsert(a))
    BY <1>9 DEF PutStatus
  <2>2. CASE WriteCard(a, object) /\ AfterUpsert(a)
    <3> DEFINE frame == [h[a] EXCEPT !.pc = "find", !.copy = NoCard]
    <3>1. frame.pc = "find" /\ frame.body = h[a].body
      BY <1>0 DEF Frame
    <3>2. Enter(a, frame)
      BY <2>2 DEF AfterUpsert
    <3>3. object \in Card /\ object.exists = h[a].copy.exists /\ object.owner = h[a].copy.owner
      BY <1>0, Objects DEF Card, Typed
    <3> HIDE DEF frame, object
    <3>4. Placed(a, frame)
      BY <1>1, <3>1, PlacedOn
    <3>5. dep[a].uid = 1 => object.exists /\ object.owner = 1
      BY <1>0, <2>1, <3>3 DEF Placed, CopyOfFirst
    <3> QED  BY <1>2, <2>1, <2>2, <3>2, <3>3, <3>4, <3>5, CardWriting
  <2> HIDE DEF object
  <2>3. CASE Goto(a, "create") /\ UNCHANGED card
    BY <1>5, <2>1, <2>3
  <2>4. CASE card[a].exists /\ AfterUpsert(a) /\ UNCHANGED card
    BY <1>4, <2>1, <2>4
  <2> QED  BY <2>1, <2>2, <2>3, <2>4 DEF Replace
<1>10. CASE CreateCard(a)
  <2> DEFINE object == [NoCard EXCEPT !.exists = TRUE, !.owner = h[a].body.uid]
  <2>1. h[a].pc = "create" /\ UNCHANGED dep /\ AfterUpsert(a)
    BY <1>10 DEF CreateCard
  <2>2. CASE WriteCard(a, object)
    <3> DEFINE frame == [h[a] EXCEPT !.pc = "find", !.copy = NoCard]
    <3>1. frame.pc = "find" /\ frame.body = h[a].body
      BY <1>0 DEF Frame
    <3>2. Enter(a, frame)
      BY <2>1 DEF AfterUpsert
    <3>3. object \in Card /\ object.exists /\ object.owner = h[a].body.uid
      BY Objects DEF Typed, NoCard
    <3> HIDE DEF frame, object
    <3>4. Placed(a, frame)
      BY <1>1, <3>1, PlacedOn
    <3> QED  BY <1>2, <2>1, <2>2, <3>2, <3>3, <3>4, CardWriting
  <2>3. CASE card[a].exists /\ UNCHANGED card
    BY <1>4, <2>1, <2>3
  <2> QED  BY <1>10, <2>2, <2>3 DEF CreateCard
<1>11. CASE UpsertFails(a)
  BY <1>4, <1>11, AnsweringBefore DEF UpsertFails, cluster
<1> QED  BY <1>7, <1>8, <1>9, <1>10, <1>11 DEF Upsert

\* Afterwards an AppScorecard is only written back.
LEMMA CardNotification ==
    ASSUME Typed, CardInv, [Next]_vars, NEW a \in Apps, Notification(a)
    PROVE  CardInv'
<1>0. h[a] \in Frame
  BY HandlerParts DEF Typed
<1>1. h[a].pc \notin Early
  BY DEF Notification, Notify, SlackAnswers, MarkGet, MarkPut, MarkFails, Early
<1>2. ASSUME NEW frame, Enter(a, frame), frame.pc \in {"finish", "send", "markGet"},
             frame.body = h[a].body, UNCHANGED <<dep, card>>
      PROVE  CardInv'
  BY <1>1, <1>2, CardLater
<1>3. CASE Notify(a)
  <2>1. UNCHANGED <<dep, card>>
    BY <1>3 DEF Notify, cluster
  <2>2. \/ Enter(a, [h[a] EXCEPT !.pc = "finish"])
        \/ Enter(a, [h[a] EXCEPT !.pc = "send", !.digest = buffer \cup {a}])
    BY <1>3 DEF Notify, Goto
  <2>3. /\ [h[a] EXCEPT !.pc = "finish"].pc = "finish"
        /\ [h[a] EXCEPT !.pc = "finish"].body = h[a].body
        /\ [h[a] EXCEPT !.pc = "send", !.digest = buffer \cup {a}].pc = "send"
        /\ [h[a] EXCEPT !.pc = "send", !.digest = buffer \cup {a}].body = h[a].body
    BY <1>0 DEF Frame
  <2> QED  BY <1>2, <2>1, <2>2, <2>3
<1>4. CASE SlackAnswers(a)
  <2>1. UNCHANGED <<dep, card>>
    BY <1>4 DEF SlackAnswers, cluster
  <2>2. PICK frame : /\ Enter(a, frame) /\ frame.pc \in {"finish", "markGet"}
                     /\ frame.body = h[a].body
    BY <1>0, <1>4 DEF SlackAnswers, Goto, Frame
  <2> QED  BY <1>2, <2>1, <2>2
<1>5. ASSUME NEW b, Marked(a, b)
      PROVE  \E frame : /\ Enter(a, frame) /\ frame.pc \in {"finish", "markGet"}
                        /\ frame.body = h[a].body
  <2> DEFINE rest == h[a].digest \ {b}
             step == IF rest = {} THEN "finish" ELSE "markGet"
             frame == [h[a] EXCEPT !.pc = step, !.digest = rest, !.target = None, !.copy = NoCard]
  <2>1. Enter(a, frame)
    BY <1>5 DEF Marked
  <2>2. step \in {"finish", "markGet"}
    OBVIOUS
  <2> HIDE DEF step
  <2>3. frame.pc = step /\ frame.body = h[a].body
    BY <1>0 DEF Frame
  <2> HIDE DEF frame
  <2> QED  BY <2>1, <2>2, <2>3
<1>6. CASE MarkGet(a)
  <2>1. UNCHANGED <<dep, card>>
    BY <1>6 DEF MarkGet, cluster
  <2>2. PICK b \in h[a].digest :
          IF card[b].exists
          THEN /\ Enter(a, [h[a] EXCEPT !.pc = "markPut", !.copy = card[b], !.target = b])
               /\ UNCHANGED loop
          ELSE Marked(a, b)
    BY <1>6 DEF MarkGet
  <2>3. CASE card[b].exists
    <3> DEFINE frame == [h[a] EXCEPT !.pc = "markPut", !.copy = card[b], !.target = b]
    <3>1. /\ frame.pc = "markPut" /\ frame.copy = card[b] /\ frame.target = b
          /\ frame.body = h[a].body
      BY <1>0 DEF Frame
    <3>2. Enter(a, frame)
      BY <2>2, <2>3
    <3> HIDE DEF frame
    <3>3. b \in Apps
      BY HandlerParts DEF Typed
    <3>4. CopyOfFirst(frame, b)
      BY <2>3, <3>1, <3>3 DEF CardInv, Owning, CopyOfFirst
    <3> QED  BY <1>1, <2>1, <3>1, <3>2, <3>4, CardLater
  <2>4. CASE ~card[b].exists
    BY <1>2, <1>5, <2>1, <2>2, <2>4
  <2> QED  BY <2>3, <2>4
<1>7. CASE MarkPut(a)
  <2> DEFINE b == h[a].target
             object == [h[a].copy EXCEPT !.mark = TRUE]
  <2>1. UNCHANGED dep /\ h[a].pc = "markPut" /\ Marked(a, b)
    BY <1>7 DEF MarkPut
  <2>2. PICK frame : /\ Enter(a, frame) /\ frame.pc \in {"finish", "markGet"}
                     /\ frame.body = h[a].body
    BY <1>5, <2>1
  <2>3. CASE UNCHANGED card
    BY <1>2, <2>1, <2>2, <2>3
  <2>4. CASE WriteCard(b, object)
    <3>1. b \in Apps
      BY <2>1, Numbers
    <3>2. object \in Card /\ object.exists = h[a].copy.exists /\ object.owner = h[a].copy.owner
      BY Objects, HandlerParts DEF Typed, Card
    <3>3. CopyOfFirst(h[a], b)
      BY <2>1 DEF CardInv, Placed
    <3>4. dep[b].uid # 0 /\ (dep[b].uid = 1 => object.exists /\ object.owner = 1)
      BY <3>2, <3>3 DEF CopyOfFirst
    <3> HIDE DEF b, object
    <3>5. Placed(a, frame)
      BY <2>1, <2>2, PlacedOn
    <3> QED  BY <1>1, <2>1, <2>2, <2>4, <3>1, <3>2, <3>4, <3>5, CardWriting
  <2> QED  BY <1>7, <2>3, <2>4 DEF MarkPut
<1>8. CASE MarkFails(a)
  <2>1. UNCHANGED <<dep, card>> /\ \E b : Marked(a, b)
    BY <1>8 DEF MarkFails, cluster
  <2> QED  BY <1>2, <1>5, <2>1
<1> QED  BY <1>3, <1>4, <1>6, <1>7, <1>8 DEF Notification

\* No step leaves a Deployment handled without its AppScorecard.
LEMMA CardStep ==
    ASSUME Typed, CardInv, [Next]_vars
    PROVE  CardInv'
<1>1. ASSUME NEW a \in Apps, Scoring(a) PROVE CardInv'
  <2>0. h[a] \in Frame
    BY HandlerParts DEF Typed
  <2>1. CASE EvaluateFails(a)
    <3> DEFINE frame == [h[a] EXCEPT !.pc = "finish"]
    <3>1. Enter(a, frame) /\ UNCHANGED <<dep, card>> /\ h[a].pc # "idle" /\ Spend("read")
      BY <2>1 DEF EvaluateFails, Goto, cluster
    <3>2. frame.pc = "finish" /\ frame.body = h[a].body
      BY <2>0 DEF Frame
    <3> HIDE DEF frame
    <3>3. Placed(a, frame)
      BY <3>1, <3>2, PlacedOn
    <3> QED  BY <3>1, <3>3, AnsweringBefore, CardGoing
  <2>2. CASE Evaluate(a)
    <3> DEFINE sc == IF cache[a] # NoScorecard THEN cache[a]
                     ELSE [ver |-> dep[a].ver, label |-> dep[a].label]
               frame == [h[a] EXCEPT !.pc = "get", !.sc = sc]
    <3>1. Enter(a, frame) /\ UNCHANGED <<dep, card>> /\ h[a].pc # "idle"
      BY <2>2 DEF Evaluate, cluster
    <3> HIDE DEF sc
    <3>2. frame.pc = "get" /\ frame.body = h[a].body
      BY <2>0 DEF Frame
    <3> HIDE DEF frame
    <3>3. Placed(a, frame)
      BY <3>1, <3>2, PlacedOn
    <3>4. Carded(a, frame)
      BY <3>2 DEF Carded, Early
    <3> QED  BY <3>1, <3>3, <3>4, CardGoing
  <2> QED  BY <1>1, <2>1, <2>2 DEF Scoring
<1>2. ASSUME NEW a \in Apps, AutoSLO(a) PROVE CardInv'
  <2>0. h[a] \in Frame
    BY HandlerParts DEF Typed
  <2>1. UNCHANGED <<dep, card>> /\ h[a].pc \notin Early
    BY <1>2 DEF AutoSLO, SkipSLO, FindConfig, FindFails, TouchConfig, ApplyConfig, ConfigFails,
                Proceed, cluster, Early
  <2>2. ASSUME NEW step \in {"touch", "apply", "notify"}, NEW s, Proceed(a, step, s)
        PROVE  CardInv'
    <3> DEFINE frame == [h[a] EXCEPT !.pc = step, !.sc = NoScorecard, !.found = s]
    <3>1. Enter(a, frame)
      BY <2>2 DEF Proceed
    <3>2. frame.pc = step /\ frame.body = h[a].body
      BY <2>0 DEF Frame
    <3> HIDE DEF frame
    <3> QED  BY <2>1, <3>1, <3>2, CardLater
  <2>3. ASSUME ConfigDone(a) \/ Abandon(a) PROVE CardInv'
    <3>0. PICK step \in {"notify", "finish"} : Enter(a, [h[a] EXCEPT !.pc = step, !.found = None])
      BY <2>3 DEF ConfigDone, Abandon
    <3> DEFINE frame == [h[a] EXCEPT !.pc = step, !.found = None]
    <3>1. Enter(a, frame)
      BY <3>0
    <3>2. frame.pc \in {"notify", "finish"} /\ frame.body = h[a].body
      BY <2>0 DEF Frame
    <3> HIDE DEF frame
    <3> QED  BY <2>1, <3>1, <3>2, CardLater
  <2> QED  BY <1>2, <2>2, <2>3
           DEF AutoSLO, SkipSLO, FindConfig, FindFails, TouchConfig, ApplyConfig, ConfigFails
<1>3. ASSUME NEW a \in Apps, Expire(a) PROVE CardInv'
  BY <1>3, CardQuiet DEF Expire, cluster
<1>4. ASSUME NEW s \in Services, RemoveConfig(s) PROVE CardInv'
  BY <1>4, CardQuiet DEF RemoveConfig
<1>5. CASE Crash
  BY <1>5, Blank, CardQuiet DEF Crash, cluster
<1>6. CASE UNCHANGED vars
  BY <1>6, CardQuiet DEF vars
<1> QED  BY <1>1, <1>2, <1>3, <1>4, <1>5, <1>6, CardUser, CardKopf, CardUpsert, CardNotification
         DEF Next, Program

\* With any number of Deployments, users, crashes and handlers that interleave, the first
\* Deployment of a name has its AppScorecard from the time its event is recorded as handled,
\* as long as its calls are answered: what EveryAppGetsACard leaves to be reached is that
\* record.
THEOREM HandledAreCarded == Spec => []HandledMeansCarded
<1>1. Init => CardInv
  <2> SUFFICES ASSUME Init PROVE CardInv
    OBVIOUS
  <2>1. \A a \in Apps : h[a].pc = "idle" /\ dep[a] = NoDeployment /\ card[a] = NoCard
    BY Blank DEF Init
  <2> QED  BY <2>1 DEF CardInv, Owning, Placed, Carded, Recorded, IsFirst, NoDeployment, NoCard
<1>2. Typed /\ CardInv /\ [Next]_vars => CardInv'
  BY CardStep
<1>3. CardInv => HandledMeansCarded
  BY DEF CardInv, HandledMeansCarded, Recorded, IsFirst
<1> QED  BY <1>1, <1>2, <1>3, AlwaysTyped, PTL DEF Spec
=============================================================================
