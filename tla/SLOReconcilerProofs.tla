------------------------ MODULE SLOReconcilerProofs ------------------------
(***************************************************************************)
(* What holds of SLOReconciler for every choice of its constants, with the *)
(* proofs.                                                                 *)
(***************************************************************************)
EXTENDS SLOReconciler, TLAPS

----------------------------------------------------------------------------
(* Records *)

\* The values the initial state is made of are well typed.
LEMMA DefaultsOK ==
    /\ NoSpec \in Spec0
    /\ NoCR \in CR
    /\ Idle \in Frame
    /\ NoSLO \in SLO
<1>1. NoSpec \in Spec0
  BY SpecsAssumption, BoundsAssumption DEF NoSpec, Spec0, Gens
<1>2. NoCR \in CR
  BY <1>1, BoundsAssumption DEF NoCR, CR, Gens, Ids, Phases, States
<1>3. (CHOOSE c \in Configs : TRUE) \in Configs
  BY ConfigsAssumption
<1>4. Idle \in Frame
  BY <1>1, <1>3 DEF Idle, Frame, Ids, Steps, Modes, Tries, DetectCalls, CatalogCalls, MaxAttempts
<1>5. NoSLO \in SLO
  BY <1>1, <1>3, BoundsAssumption DEF NoSLO, SLO, Spec0, Gens
<1> QED  BY <1>1, <1>2, <1>4, <1>5

\* The frame BeginHandler starts with.
LEMMA FirstFrame ==
    ASSUME NEW c \in Configs, NEW sp \in Spec0, NEW i \in Ids,
           NEW s \in Steps, NEW m \in Modes
    PROVE  [Idle EXCEPT !.pc = s, !.mode = m, !.cfg = c, !.spec = sp,
                        !.known = i] \in Frame
BY DefaultsOK DEF Frame

\* The steps, modes and counts the actions write.
LEMMA Values ==
    /\ {"idle", "lookup", "detect", "findUid", "findService", "update",
        "create", "getCR", "putStatus"} \subseteq Steps
    /\ {"result", "error"} \subseteq Modes
    /\ 0 \in Tries
    /\ \A t \in Tries, n \in {StatusAttempts, MaxAttempts, CatalogCalls, DetectCalls} :
          t + 1 < n => t + 1 \in Tries
    /\ {"absent", "live", "terminating", "gone"} \subseteq Phases
    /\ {"none", "ok", "error"} \subseteq States
    /\ NoId \in Ids /\ SloIds \subseteq Ids
BY DEF Steps, Modes, Tries, MaxAttempts, StatusAttempts, CatalogCalls, DetectCalls,
       Phases, States, Ids

----------------------------------------------------------------------------
(* What the building blocks keep well typed *)

\* Writing a well-typed object keeps the API server's side well typed.
LEMMA WriteCRType ==
    ASSUME TypeOK, NEW c \in Configs, NEW object \in CR, WriteCR(c, object)
    PROVE  /\ cr' \in [Configs -> CR]
           /\ news' \in [Ops -> SUBSET Configs]
           /\ current' \subseteq Ops
BY DEF TypeOK, WriteCR

\* Spending a fault leaves a number of faults.
LEMMA SpendType ==
    ASSUME TypeOK, NEW kind \in FaultKinds, Spend(kind)
    PROVE  left' \in [FaultKinds -> Nat]
BY DEF TypeOK, Spend

\* Storing an SLO keeps Datadog's side well typed.
LEMMA StoreType ==
    ASSUME TypeOK, NEW i \in SloIds, NEW s \in SLO, Store(i, s)
    PROVE  /\ live' \subseteq used' /\ used' \subseteq SloIds
           /\ slos' \in [SloIds -> SLO]
           /\ index' \in [live: SUBSET SloIds, slos: [SloIds -> SLO]]
BY DEF TypeOK, Store

\* Entering a well-typed frame keeps the handlers well typed.
LEMMA EnterType ==
    ASSUME TypeOK, NEW p \in Ops, NEW f \in Frame, Enter(p, f)
    PROVE  h' \in [Ops -> Frame]
BY DEF TypeOK, Enter

\* So does moving to another step,
LEMMA GotoType ==
    ASSUME TypeOK, NEW p \in Ops, NEW s \in Steps, Goto(p, s)
    PROVE  h' \in [Ops -> Frame]
<1>1. h[p] \in Frame /\ 0 \in Tries
  BY Values DEF TypeOK
<1>2. [h[p] EXCEPT !.pc = s, !.tries = 0] \in Frame
  BY <1>1 DEF Frame
<1> QED  BY <1>2, EnterType DEF Goto

\* trying the same call again,
LEMMA RetryType ==
    ASSUME TypeOK, NEW p \in Ops, Retry(p),
           NEW n \in {StatusAttempts, MaxAttempts, CatalogCalls, DetectCalls},
           h[p].tries + 1 < n
    PROVE  h' \in [Ops -> Frame]
<1>1. h[p] \in Frame /\ h[p].tries \in Tries
  BY DEF TypeOK, Frame
<1>2. h[p].tries + 1 \in Tries
  BY <1>1, Values
<1>3. [h[p] EXCEPT !.tries = h[p].tries + 1] \in Frame
  BY <1>1, <1>2 DEF Frame
<1> QED  BY <1>3, EnterType DEF Retry

\* returning from reconcile_slo,
LEMMA OutcomeType ==
    ASSUME TypeOK, NEW p \in Ops, NEW b \in BOOLEAN, NEW i \in Ids, Outcome(p, b, i)
    PROVE  h' \in [Ops -> Frame]
<1> DEFINE f == [h[p] EXCEPT !.pc = "getCR", !.ok = b, !.slo = i, !.tries = 0]
<1>1. h[p] \in Frame /\ "getCR" \in Steps /\ 0 \in Tries
  BY Values DEF TypeOK
<1>2. f \in Frame
  BY <1>1 DEF Frame
<1>3. Enter(p, f)
  BY DEF Outcome
<1> QED  BY <1>2, <1>3, EnterType

\* reaching the await,
LEMMA YieldType ==
    ASSUME TypeOK, NEW p \in Ops, Yield(p)
    PROVE  h' \in [Ops -> Frame] /\ finishing' \in [Ops -> [Configs -> Spec0]]
<1>1. Enter(p, Idle) /\ Idle \in Frame
  BY DefaultsOK DEF Yield
<1>2. h[p].cfg \in Configs /\ h[p].spec \in Spec0
  BY DEF TypeOK, Frame
<1>3. finishing' \in [Ops -> [Configs -> Spec0]]
  BY <1>2 DEF TypeOK, Yield
<1> QED  BY <1>1, <1>3, EnterType

\* and falling back to the error status.
LEMMA StatusFailedType ==
    ASSUME TypeOK, NEW p \in Ops, StatusFailed(p)
    PROVE  h' \in [Ops -> Frame] /\ finishing' \in [Ops -> [Configs -> Spec0]]
<1> DEFINE f == [h[p] EXCEPT !.mode = "error", !.pc = "getCR", !.tries = 0]
<1>1. CASE h[p].mode = "result"
  <2>1. h[p] \in Frame /\ "getCR" \in Steps /\ "error" \in Modes /\ 0 \in Tries
    BY Values DEF TypeOK
  <2>2. f \in Frame
    BY <2>1 DEF Frame
  <2>3. Enter(p, f) /\ UNCHANGED finishing
    BY <1>1 DEF StatusFailed
  <2> QED  BY <2>2, <2>3, EnterType DEF TypeOK
<1>2. CASE h[p].mode # "result"
  BY <1>2, YieldType DEF StatusFailed
<1> QED  BY <1>1, <1>2

\* The payload of a well-typed frame is an SLO.
LEMMA DesiredType ==
    ASSUME NEW f \in Frame
    PROVE  Desired(f) \in SLO
BY DEF Desired, Frame, Spec0, SLO

----------------------------------------------------------------------------
(* Type correctness *)

\* The program starts well typed.
LEMMA InitTypeOK == Init => TypeOK
BY DefaultsOK, BoundsAssumption DEF Init, TypeOK

\* What users, other clients, Datadog's console and crashes do is well typed.
LEMMA EnvironmentType ==
    ASSUME TypeOK, Environment \/ Reindex
    PROVE  TypeOK'
<1>1. ASSUME NEW c \in Configs, CreateCR(c)
      PROVE  TypeOK'
  <2>1. PICK s \in Declares[c], k \in Contents :
          WriteCR(c, [NoCR EXCEPT !.phase = "live",
                                  !.spec = [service |-> s, content |-> k, gen |-> 1]])
    BY <1>1 DEF CreateCR
  <2> DEFINE sp == [service |-> s, content |-> k, gen |-> 1]
  <2>2. sp \in Spec0 /\ "live" \in Phases
    BY <1>1, SpecsAssumption, BoundsAssumption, Values DEF Spec0, Gens, CreateCR
  <2>3. [NoCR EXCEPT !.phase = "live", !.spec = sp] \in CR
    BY <2>2, DefaultsOK DEF CR
  <2>4. /\ cr' \in [Configs -> CR] /\ news' \in [Ops -> SUBSET Configs]
        /\ current' \subseteq Ops
    BY <2>1, <2>3, WriteCRType
  <2> QED  BY <1>1, <2>4 DEF CreateCR, TypeOK, datadog
<1>2. ASSUME NEW c \in Configs, EditSpec(c)
      PROVE  TypeOK'
  <2>1. PICK s \in Declares[c], k \in Contents :
          WriteCR(c, [cr[c] EXCEPT !.spec = [service |-> s, content |-> k,
                                             gen |-> cr[c].spec.gen + 1]])
    BY <1>2 DEF EditSpec
  <2> DEFINE sp == [service |-> s, content |-> k, gen |-> cr[c].spec.gen + 1]
  <2>2. cr[c] \in CR /\ cr[c].spec.gen \in Gens
    BY DEF TypeOK, CR, Spec0
  <2>3. sp \in Spec0
    BY <1>2, <2>2, SpecsAssumption, BoundsAssumption DEF Spec0, Gens, EditSpec
  <2>4. [cr[c] EXCEPT !.spec = sp] \in CR
    BY <2>2, <2>3 DEF CR
  <2>5. /\ cr' \in [Configs -> CR] /\ news' \in [Ops -> SUBSET Configs]
        /\ current' \subseteq Ops
    BY <2>1, <2>4, WriteCRType
  <2> QED  BY <1>2, <2>5 DEF EditSpec, TypeOK, datadog
<1>3. ASSUME NEW c \in Configs, DeleteCR(c)
      PROVE  TypeOK'
  <2>0. cr[c] \in CR /\ "terminating" \in Phases
    BY Values DEF TypeOK
  <2>1. [cr[c] EXCEPT !.phase = "terminating"] \in CR
    BY <2>0 DEF CR
  <2>2. /\ cr' \in [Configs -> CR] /\ news' \in [Ops -> SUBSET Configs]
        /\ current' \subseteq Ops
    BY <1>3, <2>1, WriteCRType DEF DeleteCR
  <2>3. left' \in [FaultKinds -> Nat]
    BY <1>3, SpendType DEF DeleteCR, FaultKinds
  <2> QED  BY <1>3, <2>2, <2>3 DEF DeleteCR, TypeOK, datadog
<1>4. ASSUME NEW c \in Configs, ForeignWrite(c)
      PROVE  TypeOK'
  <2>1. cr[c] \in CR
    BY DEF TypeOK
  <2>2. /\ cr' \in [Configs -> CR] /\ news' \in [Ops -> SUBSET Configs]
        /\ current' \subseteq Ops
    BY <1>4, <2>1, WriteCRType DEF ForeignWrite
  <2>3. left' \in [FaultKinds -> Nat]
    BY <1>4, SpendType DEF ForeignWrite, FaultKinds
  <2> QED  BY <1>4, <2>2, <2>3 DEF ForeignWrite, TypeOK, datadog
<1>5. ASSUME NEW i \in SloIds, RemoveSLO(i)
      PROVE  TypeOK'
  <2>1. left' \in [FaultKinds -> Nat]
    BY <1>5, SpendType DEF RemoveSLO, FaultKinds
  <2>2. /\ live' \subseteq used
        /\ index' \in [live: SUBSET SloIds, slos: [SloIds -> SLO]]
    BY <1>5 DEF RemoveSLO, TypeOK
  <2> QED  BY <1>5, <2>1, <2>2 DEF RemoveSLO, TypeOK, cluster
<1>6. ASSUME NEW p \in Ops, Crash(p)
      PROVE  TypeOK'
  <2>1. left' \in [FaultKinds -> Nat]
    BY <1>6, SpendType DEF Crash, FaultKinds
  <2>2. h' \in [Ops -> Frame]
    BY <1>6, DefaultsOK, EnterType DEF Crash
  <2>3. /\ inbox' \in [Ops -> [Configs -> CR]]
        /\ finishing' \in [Ops -> [Configs -> Spec0]]
        /\ news' \in [Ops -> SUBSET Configs]
        /\ current' \subseteq Ops
    BY <1>6, DefaultsOK DEF Crash, TypeOK
  <2> QED  BY <1>6, <2>1, <2>2, <2>3 DEF Crash, TypeOK, datadog
<1>7. CASE Reindex
  BY <1>7 DEF Reindex, TypeOK, cluster
<1> QED  BY <1>1, <1>2, <1>3, <1>4, <1>5, <1>6, <1>7 DEF Environment

\* Delivery and the start and end of handlers are well typed.
LEMMA KopfType ==
    ASSUME TypeOK, NEW p \in Ops, NEW c \in Configs,
           \/ Deliver(p, c) \/ IgnoreExcluded(p, c) \/ BeginHandler(p, c)
           \/ IgnoreEvent(p, c) \/ HandleDelete(p, c) \/ Finish(p, c)
    PROVE  TypeOK'
<1>1. Consume(p, c) => inbox' \in [Ops -> [Configs -> CR]]
  BY DefaultsOK DEF Consume, TypeOK
<1>2. /\ cr[c] \in CR /\ inbox[p][c] \in CR
      /\ inbox[p][c].spec \in Spec0 /\ inbox[p][c].sloId \in Ids
  BY DEF TypeOK, CR
<1>3. CASE Deliver(p, c)
  BY <1>2, <1>3 DEF Deliver, TypeOK, datadog
<1>4. CASE IgnoreExcluded(p, c)
  <2>1. finishing' \in [Ops -> [Configs -> Spec0]]
    BY <1>2, <1>4 DEF IgnoreExcluded, TypeOK
  <2> QED  BY <1>1, <1>4, <2>1 DEF IgnoreExcluded, TypeOK, datadog, cluster
<1>5. CASE BeginHandler(p, c)
  <2> DEFINE rejected == inbox[p][c].spec.content \in Invalid
             s == IF rejected THEN "getCR" ELSE "lookup"
             m == IF rejected THEN "error" ELSE "result"
  <2>1. s \in Steps /\ m \in Modes
    BY Values
  <2>2. h' \in [Ops -> Frame]
    <3> HIDE DEF s, m
    <3> DEFINE f == [Idle EXCEPT !.pc = s, !.mode = m, !.cfg = c,
                             !.spec = inbox[p][c].spec, !.known = inbox[p][c].sloId]
    <3>1. f \in Frame
      BY <1>2, <2>1, FirstFrame
    <3>2. Enter(p, f)
      BY <1>5 DEF BeginHandler, s, m
    <3> QED  BY <3>1, <3>2, EnterType
  <2> QED  BY <1>1, <1>5, <2>2 DEF BeginHandler, TypeOK, datadog, cluster
<1>6. CASE IgnoreEvent(p, c)
  BY <1>1, <1>6 DEF IgnoreEvent, TypeOK, datadog, cluster
<1>7. CASE HandleDelete(p, c)
  <2>1. [cr[c] EXCEPT !.phase = "gone"] \in CR
    BY <1>2, Values DEF CR
  <2>2. /\ cr' \in [Configs -> CR] /\ news' \in [Ops -> SUBSET Configs]
        /\ current' \subseteq Ops
    BY <1>7, <2>1, WriteCRType DEF HandleDelete
  <2> QED  BY <1>1, <1>7, <2>2 DEF HandleDelete, TypeOK, datadog
<1>8. CASE Finish(p, c)
  <2>1. finishing[p][c] \in Spec0 /\ finishing' \in [Ops -> [Configs -> Spec0]]
    BY <1>8, DefaultsOK DEF Finish, TypeOK
  <2>2. ASSUME NEW d \in Configs
        PROVE  [cr[d] EXCEPT !.handled = finishing[p][c]] \in CR
    <3>1. cr[d] \in CR
      BY DEF TypeOK
    <3> QED  BY <2>1, <3>1 DEF CR
  <2>3. /\ cr' \in [Configs -> CR] /\ news' \in [Ops -> SUBSET Configs]
        /\ current' \subseteq Ops
    <3>1. CASE UNCHANGED cluster
      BY <3>1 DEF TypeOK, cluster
    <3>2. CASE \E d \in Bearers(c) : WriteCR(d, [cr[d] EXCEPT !.handled = finishing[p][c]])
      <4>1. PICK d \in Configs : WriteCR(d, [cr[d] EXCEPT !.handled = finishing[p][c]])
        BY <3>2 DEF Bearers
      <4> QED  BY <2>2, <4>1, WriteCRType
    <3> QED  BY <1>8, <3>1, <3>2 DEF Finish
  <2> QED  BY <1>8, <2>1, <2>3 DEF Finish, TypeOK, datadog
<1> QED  BY <1>3, <1>4, <1>5, <1>6, <1>7, <1>8

\* reconcile_slo and the status writer are well typed.
LEMMA ReconcileType ==
    ASSUME TypeOK, NEW p \in Ops, Reconcile(p)
    PROVE  TypeOK'
<1>1. /\ h[p] \in Frame /\ h[p].cfg \in Configs /\ h[p].slo \in Ids
      /\ h[p].known \in Ids /\ h[p].tries \in Tries /\ h[p].spec \in Spec0
      /\ Desired(h[p]) \in SLO
  BY DesiredType DEF TypeOK, Frame
<1>2. ChoosePath(p) => h' \in [Ops -> Frame]
  <2> DEFINE s == IF h[p].known # NoId THEN "update" ELSE "findUid"
             f == [h[p] EXCEPT !.pc = s, !.slo = h[p].known, !.tries = 0]
  <2>1. s \in Steps /\ 0 \in Tries
    BY Values
  <2>2. f \in Frame
    BY <1>1, <2>1 DEF Frame
  <2> QED  BY <2>2, EnterType DEF ChoosePath
<1>3. \A kind \in FaultKinds : Spend(kind) => left' \in [FaultKinds -> Nat]
  BY SpendType
<1>11. ChooseFramework(p) => h' \in [Ops -> Frame]
  BY <1>2, GotoType, Values DEF ChooseFramework
<1>12. ASSUME NEW s \in Steps, SearchFailed(p, s)
       PROVE  h' \in [Ops -> Frame]
  BY <1>12, GotoType, RetryType DEF SearchFailed
<1>4. CASE Lookup(p)
  <2>1. h' \in [Ops -> Frame]
    BY <1>4, <1>11, OutcomeType, RetryType, Values DEF Lookup
  <2>2. left' \in [FaultKinds -> Nat]
    BY <1>3, <1>4 DEF Lookup, FaultKinds, TypeOK
  <2> QED  BY <1>4, <2>1, <2>2 DEF Lookup, TypeOK, cluster, datadog
<1>5. CASE FindByUid(p)
  <2>1. ASSUME NEW i \in index.live, Enter(p, [h[p] EXCEPT !.pc = "update", !.slo = i])
        PROVE  h' \in [Ops -> Frame]
    <3>1. i \in Ids /\ "update" \in Steps
      BY Values DEF TypeOK
    <3>2. [h[p] EXCEPT !.pc = "update", !.slo = i] \in Frame
      BY <1>1, <3>1 DEF Frame
    <3> QED  BY <2>1, <3>2, EnterType
  <2>2. h' \in [Ops -> Frame]
    BY <1>5, <1>12, <2>1, GotoType, Values DEF FindByUid
  <2>3. left' \in [FaultKinds -> Nat]
    BY <1>3, <1>5 DEF FindByUid, SearchFailed, FaultKinds, TypeOK
  <2> QED  BY <1>5, <2>2, <2>3 DEF FindByUid, TypeOK, cluster, datadog
<1>6. CASE FindByService(p)
  <2>1. ASSUME NEW i \in index.live, Enter(p, [h[p] EXCEPT !.pc = "update", !.slo = i])
        PROVE  h' \in [Ops -> Frame]
    <3>1. i \in Ids /\ "update" \in Steps
      BY Values DEF TypeOK
    <3>2. [h[p] EXCEPT !.pc = "update", !.slo = i] \in Frame
      BY <1>1, <3>1 DEF Frame
    <3> QED  BY <2>1, <3>2, EnterType
  <2>2. \A i \in index.live : Outcome(p, TRUE, i) => h' \in [Ops -> Frame]
    BY OutcomeType, Values DEF TypeOK
  <2>3. h' \in [Ops -> Frame]
    BY <1>6, <1>12, <2>1, <2>2, GotoType, Values DEF FindByService
  <2>4. left' \in [FaultKinds -> Nat]
    BY <1>3, <1>6 DEF FindByService, SearchFailed, FaultKinds, TypeOK
  <2> QED  BY <1>6, <2>3, <2>4 DEF FindByService, TypeOK, cluster, datadog
<1>7. CASE Update(p)
  <2>1. h' \in [Ops -> Frame]
    BY <1>1, <1>7, OutcomeType DEF Update
  <2>2. left' \in [FaultKinds -> Nat]
    BY <1>3, <1>7 DEF Update, FaultKinds, TypeOK
  <2>3. /\ live' \subseteq used' /\ used' \subseteq SloIds
        /\ slos' \in [SloIds -> SLO]
        /\ index' \in [live: SUBSET SloIds, slos: [SloIds -> SLO]]
    <3>1. h[p].slo \in live => h[p].slo \in SloIds
      BY DEF TypeOK
    <3> QED  BY <1>1, <1>7, <3>1, StoreType DEF Update, TypeOK, datadog
  <2> QED  BY <1>7, <2>1, <2>2, <2>3 DEF Update, TypeOK, cluster
<1>8. CASE Create(p)
  <2>1. RetryCreate(p) => h' \in [Ops -> Frame]
    BY RetryType, OutcomeType, Values DEF RetryCreate
  <2>2. h' \in [Ops -> Frame]
    BY <1>8, <2>1, OutcomeType, Values DEF Create
  <2>3. left' \in [FaultKinds -> Nat]
    BY <1>3, <1>8 DEF Create, FaultKinds, TypeOK
  <2>4. /\ live' \subseteq used' /\ used' \subseteq SloIds
        /\ slos' \in [SloIds -> SLO]
        /\ index' \in [live: SUBSET SloIds, slos: [SloIds -> SLO]]
    BY <1>1, <1>8, StoreType DEF Create, TypeOK, datadog
  <2> QED  BY <1>8, <2>2, <2>3, <2>4 DEF Create, TypeOK, cluster
<1>9. CASE GetCR(p)
  <2>1. h' \in [Ops -> Frame] /\ finishing' \in [Ops -> [Configs -> Spec0]]
    <3>1. "putStatus" \in Steps
      BY Values
    <3>2. [h[p] EXCEPT !.pc = "putStatus"] \in Frame
      BY <1>1, <3>1 DEF Frame
    <3> QED  BY <1>9, <3>2, EnterType, StatusFailedType DEF GetCR, TypeOK
  <2>2. left' \in [FaultKinds -> Nat]
    BY <1>3, <1>9 DEF GetCR, FaultKinds, TypeOK
  <2> QED  BY <1>9, <2>1, <2>2 DEF GetCR, TypeOK, datadog
<1>10. CASE PutStatus(p)
  <2>1. ASSUME NEW d \in Configs
        PROVE  Reported(h[p], d) \in CR
    <3> DEFINE i == IF h[p].mode = "result" THEN h[p].slo ELSE NoId
               z == IF h[p].mode = "result" /\ h[p].ok THEN "ok" ELSE "error"
    <3>1. /\ i \in Ids /\ z \in States /\ cr[d] \in CR
      BY <1>1, Values DEF TypeOK
    <3> HIDE DEF i, z
    <3>2. [cr[d] EXCEPT !.sloId = i, !.state = z, !.shown = h[p].spec] \in CR
      BY <1>1, <3>1 DEF CR
    <3> QED  BY <3>2 DEF Reported, i, z
  <2>2. /\ cr' \in [Configs -> CR] /\ news' \in [Ops -> SUBSET Configs]
        /\ current' \subseteq Ops
    <3>1. CASE UNCHANGED cluster
      BY <3>1 DEF TypeOK, cluster
    <3>2. CASE \E d \in Bearers(h[p].cfg) : WriteCR(d, Reported(h[p], d))
      <4>1. PICK d \in Configs : WriteCR(d, Reported(h[p], d))
        BY <3>2 DEF Bearers
      <4> QED  BY <2>1, <4>1, WriteCRType
    <3> QED  BY <1>10, <3>1, <3>2 DEF PutStatus
  <2>3. Conflict(p) => /\ h' \in [Ops -> Frame]
                       /\ finishing' \in [Ops -> [Configs -> Spec0]]
    <3>1. CASE h[p].tries + 1 < StatusAttempts
      <4> DEFINE t == h[p].tries + 1
      <4>1. t \in Tries /\ "getCR" \in Steps
        BY <1>1, <3>1, Values
      <4> HIDE DEF t
      <4>2. [h[p] EXCEPT !.pc = "getCR", !.tries = t] \in Frame
        BY <1>1, <4>1 DEF Frame
      <4> QED  BY <3>1, <4>2, EnterType DEF Conflict, TypeOK, t
    <3>2. CASE ~(h[p].tries + 1 < StatusAttempts)
      BY <3>2, YieldType DEF Conflict
    <3> QED  BY <3>1, <3>2
  <2>4. h' \in [Ops -> Frame] /\ finishing' \in [Ops -> [Configs -> Spec0]]
    BY <1>10, <2>3, YieldType, StatusFailedType DEF PutStatus
  <2>5. left' \in [FaultKinds -> Nat]
    BY <1>3, <1>10 DEF PutStatus, FaultKinds, TypeOK
  <2> QED  BY <1>10, <2>2, <2>4, <2>5 DEF PutStatus, TypeOK, datadog
<1>13. CASE Detect(p)
  <2>1. h' \in [Ops -> Frame]
    BY <1>2, <1>13, RetryType DEF Detect
  <2> QED  BY <1>13, <2>1 DEF Detect, TypeOK, cluster, datadog
<1> QED  BY <1>4, <1>5, <1>6, <1>7, <1>8, <1>9, <1>10, <1>13 DEF Reconcile

\* Every step keeps the types.
LEMMA NextType == TypeOK /\ [Next]_vars => TypeOK'
<1> SUFFICES ASSUME TypeOK, [Next]_vars
             PROVE  TypeOK'
  OBVIOUS
<1>1. CASE Environment \/ Reindex
  BY <1>1, EnvironmentType
<1>2. CASE \E p \in Ops : Kopf(p)
  BY <1>2, KopfType DEF Kopf
<1>3. CASE \E p \in Ops : Reconcile(p)
  BY <1>3, ReconcileType
<1>4. CASE UNCHANGED vars
  BY <1>4 DEF vars, TypeOK
<1> QED  BY <1>1, <1>2, <1>3, <1>4 DEF Next

\* The reconciler, kopf, the API server and Datadog hold values of their types
\* in every reachable state.
THEOREM TypeCorrect == Spec => []TypeOK
<1>1. Init => TypeOK
  BY InitTypeOK
<1>2. TypeOK /\ [Next]_vars => TypeOK'
  BY NextType
<1> QED  BY <1>1, <1>2, PTL DEF Spec

----------------------------------------------------------------------------
(* What a step of the handler does to its frame *)

\* Process p goes on with the resource and the snapshot that it has.
Carries(p) ==
    /\ \A q \in Ops \ {p} : h'[q] = h[q]
    /\ h'[p].cfg = h[p].cfg /\ h'[p].spec = h[p].spec

\* Process p is done with its handler.
Leaves(p) ==
    /\ \A q \in Ops \ {p} : h'[q] = h[q]
    /\ h'[p] = Idle

\* The three ways on that most calls share.
LEMMA FrameGoto ==
    ASSUME TypeOK, NEW p \in Ops, NEW s, Goto(p, s)
    PROVE  /\ Carries(p) /\ h'[p].pc = s /\ h'[p].mode = h[p].mode
           /\ h'[p].ok = h[p].ok /\ h'[p].slo = h[p].slo
<1>1. h[p] \in Frame
  BY DEF TypeOK
<1>2. /\ \A q \in Ops \ {p} : h'[q] = h[q]
      /\ h'[p] = [h[p] EXCEPT !.pc = s, !.tries = 0]
  BY DEF Goto, Enter, TypeOK
<1> QED  BY <1>1, <1>2 DEF Carries, Frame

LEMMA FrameOutcome ==
    ASSUME TypeOK, NEW p \in Ops, NEW b, NEW i, Outcome(p, b, i)
    PROVE  Carries(p) /\ h'[p].pc = "getCR" /\ h'[p].ok = b /\ h'[p].slo = i
<1>1. h[p] \in Frame
  BY DEF TypeOK
<1>2. /\ \A q \in Ops \ {p} : h'[q] = h[q]
      /\ h'[p] = [h[p] EXCEPT !.pc = "getCR", !.ok = b, !.slo = i, !.tries = 0]
  BY DEF Outcome, Enter, TypeOK
<1> QED  BY <1>1, <1>2 DEF Carries, Frame

LEMMA FrameSearch ==
    ASSUME TypeOK, NEW p \in Ops, NEW s, SearchFailed(p, s)
    PROVE  Carries(p) /\ h'[p].pc \in {s, h[p].pc}
<1>1. h[p] \in Frame
  BY DEF TypeOK
<1>2. ASSUME Retry(p)
      PROVE  Carries(p) /\ h'[p].pc = h[p].pc
  <2> DEFINE t == h[p].tries + 1
  <2>1. /\ \A q \in Ops \ {p} : h'[q] = h[q]
        /\ h'[p] = [h[p] EXCEPT !.tries = t]
    BY <1>2 DEF Retry, Enter, TypeOK
  <2> HIDE DEF t
  <2> QED  BY <1>1, <2>1 DEF Carries, Frame
<1> QED  BY <1>2, FrameGoto DEF SearchFailed

\* What each building block of reconcile_slo and of the status writer leaves in
\* the frame.
LEMMA FrameNext ==
    ASSUME TypeOK, NEW p \in Ops
    PROVE  /\ \A s : Goto(p, s) =>
                 /\ Carries(p) /\ h'[p].pc = s /\ h'[p].mode = h[p].mode
                 /\ h'[p].ok = h[p].ok /\ h'[p].slo = h[p].slo
           /\ Enter(p, [h[p] EXCEPT !.pc = "putStatus"]) =>
                 /\ Carries(p) /\ h'[p].pc = "putStatus" /\ h'[p].mode = h[p].mode
                 /\ h'[p].ok = h[p].ok /\ h'[p].slo = h[p].slo
           /\ Retry(p) => Carries(p) /\ h'[p].pc = h[p].pc
           /\ \A s : SearchFailed(p, s) => Carries(p) /\ h'[p].pc \in {s, h[p].pc}
           /\ \A i : Enter(p, [h[p] EXCEPT !.pc = "update", !.slo = i]) =>
                 Carries(p) /\ h'[p].pc = "update" /\ h'[p].slo = i
           /\ \A b, i : Outcome(p, b, i) =>
                 Carries(p) /\ h'[p].pc = "getCR" /\ h'[p].ok = b /\ h'[p].slo = i
           /\ ChoosePath(p) => Carries(p) /\ h'[p].pc \in {"update", "findUid"}
           /\ ChooseFramework(p) =>
                 Carries(p) /\ h'[p].pc \in {"update", "findUid", "detect"}
           /\ RetryCreate(p) =>
                 /\ Carries(p)
                 /\ h'[p].pc = h[p].pc \/ (h'[p].pc = "getCR" /\ h'[p].ok = FALSE)
           /\ Yield(p) => Leaves(p)
           /\ StatusFailed(p) =>
                 Leaves(p) \/ (Carries(p) /\ h'[p].pc = "getCR" /\ h'[p].mode = "error")
           /\ Conflict(p) =>
                 \/ Leaves(p)
                 \/ /\ Carries(p) /\ h'[p].pc = "getCR" /\ h'[p].mode = h[p].mode
                    /\ h'[p].ok = h[p].ok /\ h'[p].slo = h[p].slo
<1> DEFINE Others == \A q \in Ops \ {p} : h'[q] = h[q]
<1>1. h[p] \in Frame
  BY DEF TypeOK
<1>2. \A f : Enter(p, f) => h'[p] = f /\ Others
  BY DEF Enter, TypeOK
<1>3. ASSUME NEW s, Goto(p, s)
      PROVE  /\ Carries(p) /\ h'[p].pc = s /\ h'[p].mode = h[p].mode
             /\ h'[p].ok = h[p].ok /\ h'[p].slo = h[p].slo
  BY <1>3, FrameGoto
<1>11. ASSUME Enter(p, [h[p] EXCEPT !.pc = "putStatus"])
       PROVE  /\ Carries(p) /\ h'[p].pc = "putStatus" /\ h'[p].mode = h[p].mode
              /\ h'[p].ok = h[p].ok /\ h'[p].slo = h[p].slo
  <2>1. Others /\ h'[p] = [h[p] EXCEPT !.pc = "putStatus"]
    BY <1>11 DEF Enter, TypeOK
  <2> QED  BY <1>1, <2>1 DEF Carries, Frame
<1>12. ASSUME Retry(p)
       PROVE  Carries(p) /\ h'[p].pc = h[p].pc
  <2> DEFINE t == h[p].tries + 1
  <2>1. Others /\ h'[p] = [h[p] EXCEPT !.tries = t]
    BY <1>12 DEF Retry, Enter, TypeOK
  <2> HIDE DEF t
  <2> QED  BY <1>1, <2>1 DEF Carries, Frame
<1>13. ASSUME NEW s, SearchFailed(p, s)
       PROVE  Carries(p) /\ h'[p].pc \in {s, h[p].pc}
  BY <1>13, FrameSearch
<1>4. ASSUME NEW i, Enter(p, [h[p] EXCEPT !.pc = "update", !.slo = i])
      PROVE  Carries(p) /\ h'[p].pc = "update" /\ h'[p].slo = i
  <2>1. Others /\ h'[p] = [h[p] EXCEPT !.pc = "update", !.slo = i]
    BY <1>4 DEF Enter, TypeOK
  <2> QED  BY <1>1, <2>1 DEF Carries, Frame
<1>5. ASSUME NEW b, NEW i, Outcome(p, b, i)
      PROVE  Carries(p) /\ h'[p].pc = "getCR" /\ h'[p].ok = b /\ h'[p].slo = i
  BY <1>5, FrameOutcome
<1>6. ASSUME ChoosePath(p)
      PROVE  Carries(p) /\ h'[p].pc \in {"update", "findUid"}
  <2> DEFINE s == IF h[p].known # NoId THEN "update" ELSE "findUid"
  <2>1. h'[p] = [h[p] EXCEPT !.pc = s, !.slo = h[p].known, !.tries = 0] /\ s \in {"update", "findUid"}
    BY <1>2, <1>6 DEF ChoosePath
  <2> HIDE DEF s
  <2>2. h'[p].pc = s /\ h'[p].cfg = h[p].cfg /\ h'[p].spec = h[p].spec
    BY <1>1, <2>1 DEF Frame
  <2>3. \A q \in Ops \ {p} : h'[q] = h[q]
    BY <1>2, <1>6 DEF ChoosePath
  <2> QED  BY <2>1, <2>2, <2>3 DEF Carries
<1>7. ASSUME RetryCreate(p)
      PROVE  /\ Carries(p)
             /\ h'[p].pc = h[p].pc \/ (h'[p].pc = "getCR" /\ h'[p].ok = FALSE)
  BY <1>5, <1>7, <1>12 DEF RetryCreate
<1>14. ASSUME ChooseFramework(p)
       PROVE  Carries(p) /\ h'[p].pc \in {"update", "findUid", "detect"}
  BY <1>3, <1>6, <1>14 DEF ChooseFramework
<1>8. ASSUME Yield(p)
      PROVE  Leaves(p)
  BY <1>2, <1>8 DEF Yield, Leaves
<1>9. ASSUME StatusFailed(p)
      PROVE  Leaves(p) \/ (Carries(p) /\ h'[p].pc = "getCR" /\ h'[p].mode = "error")
  <2>1. CASE h[p].mode = "result"
    <3>1. Others /\ h'[p] = [h[p] EXCEPT !.mode = "error", !.pc = "getCR", !.tries = 0]
      BY <1>9, <2>1 DEF StatusFailed, Enter, TypeOK
    <3> QED  BY <1>1, <3>1 DEF Carries, Frame
  <2>2. CASE h[p].mode # "result"
    <3>1. Yield(p)
      BY <1>9, <2>2 DEF StatusFailed
    <3> QED  BY <1>8, <3>1
  <2> QED  BY <2>1, <2>2
<1>10. ASSUME Conflict(p)
       PROVE  \/ Leaves(p)
              \/ /\ Carries(p) /\ h'[p].pc = "getCR" /\ h'[p].mode = h[p].mode
                 /\ h'[p].ok = h[p].ok /\ h'[p].slo = h[p].slo
  <2>1. CASE h[p].tries + 1 < StatusAttempts
    <3> DEFINE t == h[p].tries + 1
    <3>1. Others /\ h'[p] = [h[p] EXCEPT !.pc = "getCR", !.tries = t]
      BY <1>10, <2>1 DEF Conflict, Enter, TypeOK
    <3> HIDE DEF t
    <3> QED  BY <1>1, <3>1 DEF Carries, Frame
  <2>2. CASE ~(h[p].tries + 1 < StatusAttempts)
    BY <1>8, <1>10, <2>2 DEF Conflict
  <2> QED  BY <2>1, <2>2
<1> QED  BY <1>3, <1>4, <1>5, <1>6, <1>7, <1>8, <1>9, <1>10, <1>11, <1>12, <1>13, <1>14

\* No step of the handler changes its mind about resource and snapshot.
LEMMA KeepsSnapshot ==
    ASSUME TypeOK, NEW p \in Ops, Reconcile(p)
    PROVE  h[p].pc # "idle" /\ (Carries(p) \/ Leaves(p))
<1>1. h[p].pc # "idle"
  BY DEF Reconcile, Lookup, Detect, FindByUid, FindByService, Update, Create, GetCR,
     PutStatus
<1>2. CASE Lookup(p)
  BY <1>2, FrameNext DEF Lookup
<1>3. CASE FindByUid(p)
  BY <1>3, FrameNext DEF FindByUid
<1>4. CASE FindByService(p)
  BY <1>4, FrameNext DEF FindByService
<1>5. CASE Update(p)
  BY <1>5, FrameNext DEF Update
<1>6. CASE Create(p)
  BY <1>6, FrameNext DEF Create
<1>7. CASE GetCR(p)
  BY <1>7, FrameNext DEF GetCR
<1>8. CASE PutStatus(p)
  BY <1>8, FrameNext DEF PutStatus
<1>9. CASE Detect(p)
  BY <1>9, FrameNext DEF Detect
<1> QED  BY <1>1, <1>2, <1>3, <1>4, <1>5, <1>6, <1>7, <1>8, <1>9 DEF Reconcile

----------------------------------------------------------------------------
(* Names: the status writer and kopf find a resource by its name *)

\* The operator is a single process.
Alone == \A p, q \in Ops : p = q

\* One process, or no SLOConfig that gets the name of an earlier one.
Unmixed == Alone \/ \A c, d \in Configs : Named[c] = Named[d] => c = d

Present(c) == cr[c].phase \in {"live", "terminating"}

NamesApart ==
    \A c, d \in Configs : Named[c] = Named[d] /\ Present(c) /\ Present(d) => c = d

\* The resources that a process works on, or has an event of, are there.
Occupied ==
    \A p \in Ops :
        /\ h[p].pc # "idle" => Present(h[p].cfg)
        /\ \A c \in Configs :
              /\ finishing[p][c] # NoSpec => Present(c)
              /\ inbox[p][c].phase \in {"live", "terminating"} => Present(c)

\* A single process releases a deleted resource only when it is done with it.
AtHome == NamesApart /\ (Alone => Occupied)

\* Then what it writes by name goes to the resource it has worked on.
LEMMA OwnPlace ==
    ASSUME AtHome, Unmixed, NEW p \in Ops, NEW c \in Configs,
           (h[p].pc # "idle" /\ h[p].cfg = c) \/ finishing[p][c] # NoSpec
    PROVE  Bearers(c) \subseteq {c}
BY DEF AtHome, NamesApart, Occupied, Unmixed, Bearers, Present

\* And the single process finds it there.
LEMMA FoundThere ==
    ASSUME AtHome, Alone, NEW p \in Ops, NEW c \in Configs,
           (h[p].pc # "idle" /\ h[p].cfg = c) \/ finishing[p][c] # NoSpec
    PROVE  Bearers(c) = {c}
<1>1. c \in Bearers(c)
  BY DEF AtHome, Occupied, Bearers, Present
<1> QED  BY <1>1, OwnPlace DEF Unmixed

\* A write that leaves a resource where it is leaves all of them there.
LEMMA StaysPresent ==
    ASSUME TypeOK, NEW c \in Configs, NEW object, WriteCR(c, object),
           object.phase \in {"live", "terminating"} <=> Present(c)
    PROVE  \A d \in Configs : Present(d)' <=> Present(d)
<1>1. \A d \in Configs : cr'[d] = IF d = c THEN object ELSE cr[d]
  BY DEF WriteCR, TypeOK
<1> QED  BY <1>1 DEF Present

\* Nothing moves while the same resources are present and a process takes up no
\* resource but those it had.
LEMMA HomeQuiet ==
    ASSUME AtHome, \A d \in Configs : Present(d)' <=> Present(d),
           Alone => Occupied'
    PROVE  AtHome'
BY DEF AtHome, NamesApart

\* Events, crashes and handlers of one resource keep every resource at home.
LEMMA HomeKopf ==
    ASSUME TypeOK, AtHome, NEW p \in Ops, NEW c \in Configs,
           \/ Deliver(p, c) \/ IgnoreExcluded(p, c) \/ BeginHandler(p, c)
           \/ IgnoreEvent(p, c) \/ HandleDelete(p, c) \/ Finish(p, c)
    PROVE  AtHome'
<1>1. UNCHANGED cr => \A d \in Configs : Present(d)' <=> Present(d)
  BY DEF Present
<1>2. NoCR.phase = "absent"
  BY DEF NoCR
<1>3. Consume(p, c) => \A q \in Ops, d \in Configs :
          inbox'[q][d] = IF q = p /\ d = c THEN NoCR ELSE inbox[q][d]
  BY DEF Consume, TypeOK
<1>4. CASE Deliver(p, c)
  <2>1. \A q \in Ops, d \in Configs :
          inbox'[q][d] = IF q = p /\ d = c THEN cr[c] ELSE inbox[q][d]
    BY <1>4 DEF Deliver, TypeOK
  <2>2. UNCHANGED <<cr, h, finishing>>
    BY <1>4 DEF Deliver
  <2>3. Alone => Occupied'
    BY <2>1, <2>2 DEF AtHome, Occupied, Present
  <2> QED  BY <1>1, <2>2, <2>3, HomeQuiet
<1>5. CASE IgnoreExcluded(p, c)
  <2>1. UNCHANGED <<cr, h>> /\ inbox[p][c].phase = "live" /\ Consume(p, c)
    BY <1>5 DEF IgnoreExcluded, Changed, cluster
  <2>2. \A q \in Ops, d \in Configs :
          finishing'[q][d] = IF q = p /\ d = c THEN inbox[p][c].spec ELSE finishing[q][d]
    BY <1>5 DEF IgnoreExcluded, TypeOK
  <2>3. Alone => Occupied'
    BY <1>2, <1>3, <2>1, <2>2 DEF AtHome, Occupied, Present
  <2> QED  BY <1>1, <2>1, <2>3, HomeQuiet
<1>6. CASE BeginHandler(p, c)
  <2> DEFINE rejected == inbox[p][c].spec.content \in Invalid
             s == IF rejected THEN "getCR" ELSE "lookup"
             m == IF rejected THEN "error" ELSE "result"
             f == [Idle EXCEPT !.pc = s, !.mode = m, !.cfg = c,
                               !.spec = inbox[p][c].spec, !.known = inbox[p][c].sloId]
  <2>1. /\ UNCHANGED <<cr, finishing>> /\ inbox[p][c].phase = "live" /\ Consume(p, c)
        /\ Enter(p, f)
    BY <1>6 DEF BeginHandler, Changed, cluster
  <2>2. f.cfg = c
    BY DEF Idle
  <2> HIDE DEF f
  <2>3. \A q \in Ops : h'[q] = IF q = p THEN f ELSE h[q]
    BY <2>1 DEF Enter, TypeOK
  <2>4. Alone => Occupied'
    BY <1>2, <1>3, <2>1, <2>2, <2>3 DEF AtHome, Occupied, Present
  <2> QED  BY <1>1, <2>1, <2>4, HomeQuiet
<1>7. CASE IgnoreEvent(p, c)
  <2>1. UNCHANGED <<cr, h, finishing>> /\ Consume(p, c)
    BY <1>7 DEF IgnoreEvent, cluster
  <2>2. Alone => Occupied'
    BY <1>2, <1>3, <2>1 DEF AtHome, Occupied, Present
  <2> QED  BY <1>1, <2>1, <2>2, HomeQuiet
<1>8. CASE HandleDelete(p, c)
  <2> DEFINE object == [cr[c] EXCEPT !.phase = "gone"]
  <2>1. object.phase = "gone"
    BY DEF TypeOK, CR
  <2>2. \A d \in Configs : cr'[d] = IF d = c THEN object ELSE cr[d]
    BY <1>8 DEF HandleDelete, WriteCR, TypeOK
  <2> HIDE DEF object
  <2>3. \A d \in Configs : Present(d)' <=> (d # c /\ Present(d))
    BY <2>1, <2>2 DEF Present
  <2>4. NamesApart'
    BY <2>3 DEF AtHome, NamesApart
  <2>5. /\ UNCHANGED <<h, finishing>> /\ Consume(p, c)
        /\ h[p].pc = "idle" /\ finishing[p][c] = NoSpec
    BY <1>8 DEF HandleDelete, Ready
  <2>6. ASSUME Alone
        PROVE  Occupied'
    <3>1. \A q \in Ops : q = p
      BY <2>6 DEF Alone
    <3>2. Occupied
      BY <2>6 DEF AtHome
    <3> QED  BY <1>2, <1>3, <2>3, <2>5, <3>1, <3>2 DEF Occupied
  <2> QED  BY <2>4, <2>6 DEF AtHome
<1>9. CASE Finish(p, c)
  <2>1. \A d \in Configs : Present(d)' <=> Present(d)
    <3>1. CASE UNCHANGED cluster
      BY <1>1, <3>1 DEF cluster
    <3>2. CASE \E d \in Bearers(c) : WriteCR(d, [cr[d] EXCEPT !.handled = finishing[p][c]])
      <4>1. PICK d \in Configs : WriteCR(d, [cr[d] EXCEPT !.handled = finishing[p][c]])
        BY <3>2 DEF Bearers
      <4>2. [cr[d] EXCEPT !.handled = finishing[p][c]].phase = cr[d].phase
        BY DEF TypeOK, CR
      <4> QED  BY <4>1, <4>2, StaysPresent DEF Present
    <3> QED  BY <1>9, <3>1, <3>2 DEF Finish
  <2>2. \A q \in Ops, d \in Configs : finishing'[q][d] \in {NoSpec, finishing[q][d]}
    BY <1>9 DEF Finish, TypeOK
  <2>3. UNCHANGED <<h, inbox>>
    BY <1>9 DEF Finish
  <2>4. \A q \in Ops : h[q].cfg \in Configs
    BY DEF TypeOK, Frame
  <2>5. Alone => Occupied'
    BY <2>1, <2>2, <2>3, <2>4 DEF AtHome, Occupied
  <2> QED  BY <2>1, <2>5, HomeQuiet
<1> QED  BY <1>4, <1>5, <1>6, <1>7, <1>8, <1>9

\* So does everything else.
LEMMA HomeNext == TypeOK /\ AtHome /\ [Next]_vars => AtHome'
<1> SUFFICES ASSUME TypeOK, AtHome, [Next]_vars
             PROVE  AtHome'
  OBVIOUS
<1>1. ASSUME \A d \in Configs : Present(d)' <=> Present(d), UNCHANGED <<inbox, h, finishing>>
      PROVE  AtHome'
  <2>1. \A p \in Ops : h[p].cfg \in Configs
    BY DEF TypeOK, Frame
  <2>2. Alone => Occupied'
    BY <1>1, <2>1 DEF AtHome, Occupied
  <2> QED  BY <1>1, <2>2, HomeQuiet
<1>2. ASSUME NEW c \in Configs, CreateCR(c)
      PROVE  AtHome'
  <2>1. PICK s \in Declares[c], k \in Contents :
          WriteCR(c, [NoCR EXCEPT !.phase = "live",
                                  !.spec = [service |-> s, content |-> k, gen |-> 1]])
    BY <1>2 DEF CreateCR
  <2> DEFINE sp == [service |-> s, content |-> k, gen |-> 1]
             object == [NoCR EXCEPT !.phase = "live", !.spec = sp]
  <2>2. object.phase = "live"
    BY DEF NoCR
  <2>3. \A d \in Configs : cr'[d] = IF d = c THEN object ELSE cr[d]
    BY <2>1 DEF WriteCR, TypeOK
  <2> HIDE DEF object
  <2>4. \A d \in Configs : Present(d)' <=> (d = c \/ Present(d))
    BY <2>2, <2>3 DEF Present
  <2>5. \A d \in Configs : Present(d) => Named[d] # Named[c]
    BY <1>2 DEF CreateCR, Bearers, Present
  <2>6. NamesApart'
    BY <2>4, <2>5 DEF AtHome, NamesApart
  <2>7. UNCHANGED <<inbox, h, finishing>>
    BY <1>2 DEF CreateCR
  <2>8. ASSUME Alone
        PROVE  Occupied'
    <3>1. Occupied
      BY <2>8 DEF AtHome
    <3>2. \A p \in Ops : h[p].cfg \in Configs
      BY DEF TypeOK, Frame
    <3> QED  BY <2>4, <2>7, <3>1, <3>2 DEF Occupied
  <2> QED  BY <2>6, <2>8 DEF AtHome
<1>3. ASSUME NEW c \in Configs, EditSpec(c)
      PROVE  AtHome'
  <2>1. PICK s \in Declares[c], k \in Contents :
          WriteCR(c, [cr[c] EXCEPT !.spec = [service |-> s, content |-> k,
                                             gen |-> cr[c].spec.gen + 1]])
    BY <1>3 DEF EditSpec
  <2> DEFINE sp == [service |-> s, content |-> k, gen |-> cr[c].spec.gen + 1]
  <2>2. [cr[c] EXCEPT !.spec = sp].phase = cr[c].phase
    BY DEF TypeOK, CR
  <2>3. \A d \in Configs : Present(d)' <=> Present(d)
    BY <2>1, <2>2, StaysPresent DEF Present
  <2> QED  BY <1>1, <1>3, <2>3 DEF EditSpec
<1>4. ASSUME NEW c \in Configs, DeleteCR(c)
      PROVE  AtHome'
  <2>1. [cr[c] EXCEPT !.phase = "terminating"].phase = "terminating" /\ cr[c].phase = "live"
    BY <1>4 DEF TypeOK, CR, DeleteCR
  <2>2. \A d \in Configs : Present(d)' <=> Present(d)
    BY <1>4, <2>1, StaysPresent DEF Present, DeleteCR
  <2> QED  BY <1>1, <1>4, <2>2 DEF DeleteCR
<1>5. ASSUME NEW c \in Configs, ForeignWrite(c)
      PROVE  AtHome'
  <2>1. \A d \in Configs : Present(d)' <=> Present(d)
    BY <1>5, StaysPresent DEF Present, ForeignWrite
  <2> QED  BY <1>1, <1>5, <2>1 DEF ForeignWrite
<1>6. CASE UNCHANGED <<cr, inbox, h, finishing>>
  <2>1. \A d \in Configs : Present(d)' <=> Present(d)
    BY <1>6 DEF Present
  <2> QED  BY <1>1, <1>6, <2>1
<1>7. ASSUME NEW p \in Ops, Crash(p)
      PROVE  AtHome'
  <2>1. \A d \in Configs : Present(d)' <=> Present(d)
    BY <1>7 DEF Crash, Present
  <2>2. /\ NoCR.phase = "absent" /\ Idle.pc = "idle"
        /\ \A q \in Ops : h'[q] = IF q = p THEN Idle ELSE h[q]
    BY <1>7 DEF NoCR, Idle, Crash, Enter, TypeOK
  <2>3. \A q \in Ops, d \in Configs :
          /\ inbox'[q][d] = IF q = p THEN NoCR ELSE inbox[q][d]
          /\ finishing'[q][d] = IF q = p THEN NoSpec ELSE finishing[q][d]
    BY <1>7 DEF Crash, TypeOK
  <2>4. ASSUME Alone
        PROVE  Occupied'
    <3>1. Occupied
      BY <2>4 DEF AtHome
    <3>2. \A q \in Ops : h[q].cfg \in Configs
      BY DEF TypeOK, Frame
    <3> QED  BY <2>1, <2>2, <2>3, <3>1, <3>2 DEF Occupied
  <2> QED  BY <2>1, <2>4, HomeQuiet
<1>8. CASE Environment \/ Reindex
  BY <1>2, <1>3, <1>4, <1>5, <1>6, <1>7, <1>8
     DEF Environment, Reindex, RemoveSLO, cluster
<1>9. CASE \E p \in Ops : Kopf(p)
  BY <1>9, HomeKopf DEF Kopf
<1>10. ASSUME NEW p \in Ops, Reconcile(p)
       PROVE  AtHome'
  <2>1. /\ h[p].pc # "idle" /\ h[p].cfg \in Configs
        /\ \A q \in Ops : h'[q].pc # "idle" => h[q].pc # "idle" /\ h'[q].cfg = h[q].cfg
    <3>1. Idle.pc = "idle"
      BY DEF Idle
    <3> QED  BY <1>10, <3>1, KeepsSnapshot DEF Carries, Leaves, TypeOK, Frame
  <2>2. UNCHANGED cr \/ \E d \in Configs : WriteCR(d, Reported(h[p], d))
    BY <1>10 DEF Reconcile, Lookup, Detect, FindByUid, FindByService, Update, Create,
       GetCR, PutStatus, Bearers, cluster
  <2>3. \A d \in Configs : Present(d)' <=> Present(d)
    <3>1. \A d \in Configs : Reported(h[p], d).phase = cr[d].phase
      BY DEF Reported, TypeOK, CR
    <3>2. UNCHANGED cr => \A d \in Configs : Present(d)' <=> Present(d)
      BY DEF Present
    <3>3. ASSUME NEW d \in Configs, WriteCR(d, Reported(h[p], d))
          PROVE  \A e \in Configs : Present(e)' <=> Present(e)
      BY <3>1, <3>3, StaysPresent DEF Present
    <3> QED  BY <2>2, <3>2, <3>3
  <2>4. UNCHANGED inbox
    BY <1>10 DEF Reconcile, Lookup, Detect, FindByUid, FindByService, Update, Create,
       GetCR, PutStatus
  <2>5. UNCHANGED finishing \/ Yield(p)
    BY <1>10 DEF Reconcile, Lookup, Detect, FindByUid, FindByService, Update, Create,
       GetCR, PutStatus, StatusFailed, Conflict
  <2>6. Yield(p) => \A q \in Ops, d \in Configs :
          finishing'[q][d] # finishing[q][d] => q = p /\ d = h[p].cfg
    BY DEF Yield, TypeOK
  <2>7. ASSUME Alone
        PROVE  Occupied'
    <3>1. Occupied
      BY <2>7 DEF AtHome
    <3>2. \A q \in Ops : h[q].cfg \in Configs
      BY DEF TypeOK, Frame
    <3>3. \A q \in Ops, d \in Configs : finishing'[q][d] # NoSpec => Present(d)
      BY <2>1, <2>5, <2>6, <3>1 DEF Occupied
    <3> QED  BY <2>1, <2>3, <2>4, <3>1, <3>2, <3>3 DEF Occupied
  <2> QED  BY <2>3, <2>7, HomeQuiet
<1> QED  BY <1>6, <1>8, <1>9, <1>10 DEF Next, vars

\* A resource has its name for itself while it exists, and a single process never
\* works on one that is gone.
THEOREM NamesKept == Spec => []AtHome
<1>1. Init => AtHome
  BY DEF Init, AtHome, NamesApart, Occupied, Present, NoCR, Idle
<1>2. TypeOK /\ AtHome /\ [Next]_vars => AtHome'
  BY HomeNext
<1> QED  BY <1>1, <1>2, TypeCorrect, PTL DEF Spec

----------------------------------------------------------------------------
(* Ownership: every SLO a resource knows of is its own, or that of a resource *)
(* that shares its service *)

\* c and the resources that may name a service that c may name too.
Sharers(c) == {c} \cup {d \in Configs : Declares[c] \cap Declares[d] # {}}

\* Services are shared within groups of resources, and not across them.
Grouped == \A c, d \in Configs : d \in Sharers(c) => Sharers(d) = Sharers(c)

\* No two SLOConfigs ever name the same service: every group is a single resource.
Exclusively == \A c, d \in Configs : c # d => Declares[c] \cap Declares[d] = {}

\* Every SLOConfig names one service for its whole life, maybe that of another.
Steadily == \A c \in Configs : \A s, t \in Declares[c] : s = t

\* Who names services of its own is a group on its own.
LEMMA ExclusiveGroups ==
    ASSUME Exclusively
    PROVE  Grouped /\ \A c \in Configs : Sharers(c) = {c}
BY DEF Exclusively, Grouped, Sharers

\* With one service each, a group is all those that name it.
LEMMA SteadyGroups ==
    ASSUME Steadily
    PROVE  Grouped
<1> SUFFICES ASSUME NEW c \in Configs, NEW d \in Configs, d \in Sharers(c)
             PROVE  Sharers(d) = Sharers(c)
  BY DEF Grouped
<1>1. CASE d = c
  BY <1>1
<1>2. CASE d # c
  <2>1. PICK s : s \in Declares[c] /\ s \in Declares[d]
    BY <1>2 DEF Sharers
  <2>2. \A t : (t \in Declares[c] <=> t = s) /\ (t \in Declares[d] <=> t = s)
    BY <2>1 DEF Steadily
  <2>3. Declares[c] = {s} /\ Declares[d] = {s}
    BY <2>2
  <2>4. c \in {e \in Configs : Declares[d] \cap Declares[e] # {}}
    BY <2>3
  <2>5. d \in {e \in Configs : Declares[c] \cap Declares[e] # {}}
    BY <2>3
  <2> QED  BY <2>3, <2>4, <2>5 DEF Sharers
<1> QED  BY <1>1, <1>2

\* If i is an id at all, it was handed out and its SLO belongs to the group of c.
Owns(c, i, ids, store) == i # NoId => i \in ids /\ store[i].uid \in Sharers(c)

ObjectOwned(c, object, ids, store) ==
    /\ Owns(c, object.sloId, ids, store)
    /\ object.phase = "live" => object.spec.service \in Declares[c]

FrameOwned(f, ids, store) ==
    /\ Owns(f.cfg, f.known, ids, store)
    /\ Owns(f.cfg, f.slo, ids, store)
    /\ f.pc # "idle" => f.spec.service \in Declares[f.cfg]
    /\ f.pc = "update" => f.slo # NoId

DatadogOwned ==
    /\ IndexLag \/ index = [live |-> live, slos |-> slos]
    /\ index.live \subseteq used
    /\ \A i \in used : slos[i].service \in Declares[slos[i].uid]
    /\ \A i \in index.live :
          /\ slos[i].uid \in Sharers(index.slos[i].uid)
          /\ index.slos[i].service \in Declares[index.slos[i].uid]
ObjectsOwned ==
    \A c \in Configs : /\ ObjectOwned(c, cr[c], used, slos)
                       /\ \A p \in Ops : ObjectOwned(c, inbox[p][c], used, slos)
HandlersOwned == \A p \in Ops : FrameOwned(h[p], used, slos)

\* StatusRefersToOwnSLO is not inductive: a status is copied from a handler's
\* frame, whose ids came from an older copy of the status or from the search
\* index, whose entries came from payloads built from older copies of the spec.
OwnInv == DatadogOwned /\ ObjectsOwned /\ HandlersOwned

\* Ids are never taken back and the uid tag of an SLO stays within its group.
Grows == used \subseteq used' /\ \A i \in used : slos'[i].uid \in Sharers(slos[i].uid)

\* What was owned stays owned while Datadog only grows.
LEMMA StaysOwned ==
    ASSUME Grouped, TypeOK, Grows
    PROVE  /\ \A c \in Configs : \A i :
                 Owns(c, i, used, slos) => Owns(c, i, used', slos')
           /\ \A c \in Configs : \A o :
                 ObjectOwned(c, o, used, slos) => ObjectOwned(c, o, used', slos')
           /\ \A f : f.cfg \in Configs /\ FrameOwned(f, used, slos)
                          => FrameOwned(f, used', slos')
<1>1. ASSUME NEW c \in Configs, NEW i, Owns(c, i, used, slos)
      PROVE  Owns(c, i, used', slos')
  <2>1. CASE i = NoId
    BY <2>1 DEF Owns
  <2>2. CASE i # NoId
    <3>1. i \in used /\ slos[i].uid \in Sharers(c) /\ slos[i].uid \in Configs
      BY <1>1, <2>2 DEF Owns, TypeOK, SLO
    <3>2. slos'[i].uid \in Sharers(c) /\ i \in used'
      BY <3>1 DEF Grows, Grouped
    <3> QED  BY <3>2 DEF Owns
  <2> QED  BY <2>1, <2>2
<1> QED  BY <1>1 DEF ObjectOwned, FrameOwned

\* Storing a payload under a new id, or under an id of the same group, keeps
\* Datadog's side owned.
LEMMA StoreOwned ==
    ASSUME Grouped, TypeOK, DatadogOwned, NEW i \in SloIds, NEW s \in SLO, Store(i, s),
           s.service \in Declares[s.uid],
           i \in used => slos[i].uid \in Sharers(s.uid)
    PROVE  Grows /\ DatadogOwned' /\ Owns(s.uid, i, used', slos')
<1>1. /\ \A j \in used' : slos'[j] = IF j = i THEN s ELSE slos[j]
      /\ used' = used \cup {i} /\ live' = live \cup {i}
  BY DEF Store, TypeOK
<1>2. /\ s.uid \in Configs /\ s.uid \in Sharers(s.uid)
      /\ \A j \in used : slos[j].uid \in Configs /\ slos[j].uid \in Sharers(slos[j].uid)
  BY DEF TypeOK, SLO, Sharers
<1>3. Grows /\ Owns(s.uid, i, used', slos')
  <2>1. i \in used => s.uid \in Sharers(slos[i].uid)
    BY <1>2 DEF Grouped
  <2> QED  BY <1>1, <1>2, <2>1 DEF Grows, Owns
<1>4. \A j \in used' : slos'[j].service \in Declares[slos'[j].uid]
  BY <1>1 DEF DatadogOwned
<1>5. CASE IndexLag
  <2>1. index' = index
    BY <1>5 DEF Store
  <2>2. index'.live \subseteq used'
    BY <1>1, <2>1 DEF DatadogOwned
  <2>3. ASSUME NEW j \in index'.live
        PROVE  /\ slos'[j].uid \in Sharers(index'.slos[j].uid)
               /\ index'.slos[j].service \in Declares[index'.slos[j].uid]
    <3>1. /\ j \in used /\ slos[j].uid \in Sharers(index.slos[j].uid)
          /\ index.slos[j].service \in Declares[index.slos[j].uid]
      BY <2>1, <2>3 DEF DatadogOwned
    <3>2. index.slos[j].uid \in Configs
      BY <3>1 DEF TypeOK, SLO
    <3>3. slos'[j].uid \in Sharers(index.slos[j].uid)
      BY <1>2, <1>3, <3>1, <3>2 DEF Grows, Grouped
    <3> QED  BY <2>1, <3>1, <3>3
  <2> QED  BY <1>3, <1>4, <1>5, <2>2, <2>3 DEF DatadogOwned
<1>6. CASE ~IndexLag
  <2>1. /\ index' = [live |-> live', slos |-> slos']
        /\ index'.live = live' /\ index'.slos = slos'
    BY <1>6 DEF Store
  <2>2. live' \subseteq used'
    BY StoreType, <1>1 DEF TypeOK
  <2>3. \A j \in index'.live : /\ slos'[j].uid \in Sharers(index'.slos[j].uid)
                                /\ index'.slos[j].service \in Declares[index'.slos[j].uid]
    BY <1>1, <1>2, <1>4, <2>1, <2>2
  <2> QED  BY <1>3, <1>4, <2>1, <2>2, <2>3 DEF DatadogOwned
<1> QED  BY <1>3, <1>5, <1>6

\* Writing an owned object keeps the objects owned.
LEMMA WriteOwned ==
    ASSUME Grouped, TypeOK, ObjectsOwned, Grows, NEW c \in Configs, NEW object \in CR,
           WriteCR(c, object), ObjectOwned(c, object, used', slos')
    PROVE  \A d \in Configs : ObjectOwned(d, cr'[d], used', slos')
<1>1. \A d \in Configs : cr'[d] = IF d = c THEN object ELSE cr[d]
  BY DEF WriteCR, TypeOK
<1>2. \A d \in Configs \ {c} : ObjectOwned(d, cr[d], used', slos')
  BY StaysOwned DEF ObjectsOwned
<1> QED  BY <1>1, <1>2

\* Entering an owned frame keeps the handlers owned.
LEMMA EnterOwned ==
    ASSUME Grouped, TypeOK, HandlersOwned, Grows, NEW p \in Ops, NEW f \in Frame,
           Enter(p, f), FrameOwned(f, used', slos')
    PROVE  HandlersOwned'
<1>1. \A q \in Ops : h'[q] = IF q = p THEN f ELSE h[q]
  BY DEF Enter, TypeOK
<1>2. \A q \in Ops \ {p} : FrameOwned(h[q], used', slos')
  BY StaysOwned DEF HandlersOwned, TypeOK, Frame
<1> QED  BY <1>1, <1>2 DEF HandlersOwned

\* Initially nobody knows of any SLO.
LEMMA OwnInit == Init => OwnInv
<1> SUFFICES ASSUME Init
             PROVE  OwnInv
  OBVIOUS
<1>1. DatadogOwned
  BY DEF Init, DatadogOwned
<1>2. ObjectsOwned
  BY DEF Init, ObjectsOwned, ObjectOwned, Owns, NoCR
<1>3. HandlersOwned
  BY DEF Init, HandlersOwned, FrameOwned, Owns, Idle
<1> QED  BY <1>1, <1>2, <1>3 DEF OwnInv

\* Users, other clients, the console and crashes hand nobody a foreign id.
LEMMA OwnEnvironment ==
    ASSUME Grouped, TypeOK, OwnInv, Environment \/ Reindex
    PROVE  OwnInv'
<1>1. /\ DatadogOwned /\ ObjectsOwned /\ HandlersOwned
  BY DEF OwnInv
<1>2. ASSUME NEW c \in Configs, NEW object \in CR, WriteCR(c, object),
             ObjectOwned(c, object, used, slos),
             UNCHANGED <<inbox, h, used, slos>>, DatadogOwned'
      PROVE  OwnInv'
  <2>1. Grows
    BY <1>2 DEF Grows, Sharers
  <2>2. \A d \in Configs : ObjectOwned(d, cr'[d], used', slos')
    BY <1>1, <1>2, <2>1, WriteOwned
  <2>3. ObjectsOwned'
    BY <1>1, <1>2, <2>2 DEF ObjectsOwned
  <2>4. HandlersOwned'
    BY <1>1, <1>2 DEF HandlersOwned
  <2> QED  BY <1>2, <2>3, <2>4 DEF OwnInv
<1>3. UNCHANGED datadog => DatadogOwned'
  BY <1>1 DEF DatadogOwned, datadog
<1>4. ASSUME NEW c \in Configs, CreateCR(c)
      PROVE  OwnInv'
  <2>1. PICK s \in Declares[c], k \in Contents :
          WriteCR(c, [NoCR EXCEPT !.phase = "live",
                                  !.spec = [service |-> s, content |-> k, gen |-> 1]])
    BY <1>4 DEF CreateCR
  <2> DEFINE sp == [service |-> s, content |-> k, gen |-> 1]
             object == [NoCR EXCEPT !.phase = "live", !.spec = sp]
  <2>2. sp \in Spec0 /\ "live" \in Phases
    BY <1>4, SpecsAssumption, BoundsAssumption, Values DEF Spec0, Gens, CreateCR
  <2>3. object \in CR
    BY <2>2, DefaultsOK DEF CR
  <2>4. object.sloId = NoId /\ object.spec.service = s
    BY DEF NoCR
  <2>5. ObjectOwned(c, object, used, slos)
    BY <2>4 DEF ObjectOwned, Owns
  <2> QED  BY <1>2, <1>3, <1>4, <2>1, <2>3, <2>5 DEF CreateCR, datadog
<1>5. ASSUME NEW c \in Configs, EditSpec(c)
      PROVE  OwnInv'
  <2>1. PICK s \in Declares[c], k \in Contents :
          WriteCR(c, [cr[c] EXCEPT !.spec = [service |-> s, content |-> k,
                                             gen |-> cr[c].spec.gen + 1]])
    BY <1>5 DEF EditSpec
  <2> DEFINE sp == [service |-> s, content |-> k, gen |-> cr[c].spec.gen + 1]
             object == [cr[c] EXCEPT !.spec = sp]
  <2>2. cr[c] \in CR /\ cr[c].spec.gen \in Gens
    BY DEF TypeOK, CR, Spec0
  <2>3. sp \in Spec0
    BY <1>5, <2>2, SpecsAssumption, BoundsAssumption DEF Spec0, Gens, EditSpec
  <2>4. object \in CR
    BY <2>2, <2>3 DEF CR
  <2>5. object.sloId = cr[c].sloId /\ object.spec.service = s
    BY <2>2 DEF CR
  <2>6. ObjectOwned(c, object, used, slos)
    BY <1>1, <2>5 DEF ObjectsOwned, ObjectOwned
  <2> QED  BY <1>2, <1>3, <1>5, <2>1, <2>4, <2>6 DEF EditSpec, datadog
<1>6. ASSUME NEW c \in Configs, DeleteCR(c)
      PROVE  OwnInv'
  <2> DEFINE object == [cr[c] EXCEPT !.phase = "terminating"]
  <2>1. cr[c] \in CR /\ "terminating" \in Phases
    BY Values DEF TypeOK
  <2>2. /\ object \in CR
        /\ object.sloId = cr[c].sloId /\ object.spec = cr[c].spec
    BY <2>1 DEF CR
  <2>3. ObjectOwned(c, object, used, slos)
    BY <1>1, <1>6, <2>2 DEF ObjectsOwned, ObjectOwned, DeleteCR
  <2> QED  BY <1>2, <1>3, <1>6, <2>2, <2>3 DEF DeleteCR, datadog
<1>7. ASSUME NEW c \in Configs, ForeignWrite(c)
      PROVE  OwnInv'
  <2>1. cr[c] \in CR /\ ObjectOwned(c, cr[c], used, slos)
    BY <1>1 DEF TypeOK, ObjectsOwned
  <2> QED  BY <1>2, <1>3, <1>7, <2>1 DEF ForeignWrite, datadog
<1>8. ASSUME NEW i \in SloIds, RemoveSLO(i)
      PROVE  OwnInv'
  <2>1. CASE IndexLag
    BY <1>1, <1>8, <2>1
       DEF RemoveSLO, OwnInv, DatadogOwned, ObjectsOwned, HandlersOwned, cluster
  <2>2. CASE ~IndexLag
    <3>1. /\ index = [live |-> live, slos |-> slos]
          /\ index' = [index EXCEPT !.live = live']
          /\ live' \subseteq live
      BY <1>1, <1>8, <2>2 DEF RemoveSLO, DatadogOwned
    <3>2. index' = [live |-> live', slos |-> slos]
      BY <3>1
    <3> QED  BY <1>1, <1>8, <3>1, <3>2
             DEF RemoveSLO, OwnInv, DatadogOwned, ObjectsOwned, HandlersOwned, cluster
  <2> QED  BY <2>1, <2>2
<1>9. ASSUME NEW p \in Ops, Crash(p)
      PROVE  OwnInv'
  <2>1. Grows
    BY <1>9 DEF Crash, datadog, Grows, Sharers
  <2>2. FrameOwned(Idle, used', slos')
    BY DEF FrameOwned, Owns, Idle
  <2>3. HandlersOwned'
    BY <1>1, <1>9, <2>1, <2>2, DefaultsOK, EnterOwned DEF Crash
  <2>4. \A c \in Configs : ObjectOwned(c, NoCR, used, slos)
    BY DEF ObjectOwned, Owns, NoCR
  <2>5. ObjectsOwned'
    BY <1>1, <1>9, <2>4 DEF Crash, ObjectsOwned, TypeOK, datadog
  <2> QED  BY <1>3, <1>9, <2>3, <2>5 DEF Crash, OwnInv
<1>10. CASE Reindex
  <2>1. /\ index' = [live |-> live, slos |-> slos]
        /\ index'.live = live /\ index'.slos = slos
    BY <1>10 DEF Reindex
  <2>2. DatadogOwned'
    BY <1>1, <1>10, <2>1 DEF Reindex, DatadogOwned, TypeOK, Sharers
  <2> QED  BY <1>1, <1>10, <2>2 DEF Reindex, OwnInv, ObjectsOwned, HandlersOwned, cluster
<1> QED  BY <1>4, <1>5, <1>6, <1>7, <1>8, <1>9, <1>10 DEF Environment

\* kopf hands a process copies of the resource, hence ids that were its own.
LEMMA OwnKopf ==
    ASSUME Grouped, Unmixed, TypeOK, AtHome, OwnInv, NEW p \in Ops, NEW c \in Configs,
           \/ Deliver(p, c) \/ IgnoreExcluded(p, c) \/ BeginHandler(p, c)
           \/ IgnoreEvent(p, c) \/ HandleDelete(p, c) \/ Finish(p, c)
    PROVE  OwnInv'
<1>1. /\ DatadogOwned /\ ObjectsOwned /\ HandlersOwned
  BY DEF OwnInv
<1>2. UNCHANGED datadog /\ DatadogOwned' /\ Grows
  <2>1. UNCHANGED datadog
    BY DEF Deliver, IgnoreExcluded, BeginHandler, IgnoreEvent, HandleDelete, Finish
  <2> QED  BY <1>1, <2>1 DEF datadog, DatadogOwned, Grows, Sharers
<1>3. Consume(p, c) => \A d \in Configs, q \in Ops : ObjectOwned(d, inbox'[q][d], used', slos')
  <2>1. ObjectOwned(c, NoCR, used, slos)
    BY DEF ObjectOwned, Owns, NoCR
  <2> QED  BY <1>1, <1>2, <2>1 DEF Consume, ObjectsOwned, TypeOK, datadog
<1>4. UNCHANGED h => HandlersOwned'
  BY <1>1, <1>2 DEF HandlersOwned, datadog
<1>5. UNCHANGED cr => \A d \in Configs : ObjectOwned(d, cr'[d], used', slos')
  BY <1>1, <1>2 DEF ObjectsOwned, datadog
<1>6. CASE Deliver(p, c)
  <2>1. \A d \in Configs, q \in Ops : ObjectOwned(d, inbox'[q][d], used', slos')
    BY <1>1, <1>2, <1>6 DEF Deliver, ObjectsOwned, TypeOK, datadog
  <2> QED  BY <1>2, <1>4, <1>5, <1>6, <2>1 DEF Deliver, OwnInv, ObjectsOwned
<1>7. CASE IgnoreExcluded(p, c)
  BY <1>2, <1>3, <1>4, <1>5, <1>7 DEF IgnoreExcluded, OwnInv, ObjectsOwned, cluster
<1>8. CASE BeginHandler(p, c)
  <2> DEFINE rejected == inbox[p][c].spec.content \in Invalid
             s == IF rejected THEN "getCR" ELSE "lookup"
             m == IF rejected THEN "error" ELSE "result"
             f == [Idle EXCEPT !.pc = s, !.mode = m, !.cfg = c,
                               !.spec = inbox[p][c].spec, !.known = inbox[p][c].sloId]
  <2>1. s \in Steps /\ m \in Modes /\ s # "update"
    BY Values
  <2>2. Enter(p, f)
    BY <1>8 DEF BeginHandler
  <2>3. /\ inbox[p][c].spec \in Spec0 /\ inbox[p][c].sloId \in Ids
    BY DEF TypeOK, CR
  <2>4. /\ ObjectOwned(c, inbox[p][c], used', slos')
        /\ inbox[p][c].phase = "live"
    BY <1>1, <1>2, <1>8 DEF ObjectsOwned, BeginHandler, Changed, datadog
  <2> HIDE DEF s, m
  <2>5. f \in Frame
    BY <2>1, <2>3, FirstFrame
  <2>6. /\ f.cfg = c /\ f.spec = inbox[p][c].spec /\ f.known = inbox[p][c].sloId
        /\ f.slo = NoId /\ f.pc = s
    BY DEF Idle
  <2>7. FrameOwned(f, used', slos')
    BY <2>1, <2>4, <2>6 DEF ObjectOwned, FrameOwned, Owns
  <2>8. HandlersOwned'
    BY <1>1, <1>2, <2>2, <2>5, <2>7, EnterOwned
  <2> QED  BY <1>2, <1>3, <1>5, <1>8, <2>8 DEF BeginHandler, OwnInv, ObjectsOwned, cluster
<1>9. CASE IgnoreEvent(p, c)
  BY <1>2, <1>3, <1>4, <1>5, <1>9 DEF IgnoreEvent, OwnInv, ObjectsOwned, cluster
<1>10. CASE HandleDelete(p, c)
  <2> DEFINE object == [cr[c] EXCEPT !.phase = "gone"]
  <2>1. cr[c] \in CR /\ "gone" \in Phases
    BY Values DEF TypeOK
  <2>2. object \in CR /\ object.sloId = cr[c].sloId /\ object.spec = cr[c].spec
    BY <2>1 DEF CR
  <2>3. ObjectOwned(c, object, used', slos')
    BY <1>1, <1>2, <2>1, <2>2 DEF ObjectsOwned, ObjectOwned, CR, datadog
  <2>4. \A d \in Configs : ObjectOwned(d, cr'[d], used', slos')
    BY <1>1, <1>2, <1>10, <2>2, <2>3, WriteOwned DEF HandleDelete
  <2> QED  BY <1>2, <1>3, <1>4, <1>10, <2>4 DEF HandleDelete, OwnInv, ObjectsOwned
<1>11. CASE Finish(p, c)
  <2> DEFINE object == [cr[c] EXCEPT !.handled = finishing[p][c]]
  <2>1. cr[c] \in CR /\ finishing[p][c] \in Spec0
    BY DEF TypeOK
  <2>5. UNCHANGED cluster \/ WriteCR(c, object)
    BY <1>11, OwnPlace DEF Finish
  <2>2. /\ object \in CR /\ object.sloId = cr[c].sloId
        /\ object.spec = cr[c].spec /\ object.phase = cr[c].phase
    BY <2>1 DEF CR
  <2>3. ObjectOwned(c, object, used', slos')
    BY <1>1, <1>2, <2>2 DEF ObjectsOwned, ObjectOwned, datadog
  <2>4. \A d \in Configs : ObjectOwned(d, cr'[d], used', slos')
    BY <1>1, <1>2, <1>5, <2>2, <2>3, <2>5, WriteOwned DEF cluster
  <2> QED  BY <1>1, <1>2, <1>4, <1>11, <2>4 DEF Finish, OwnInv, ObjectsOwned, datadog
<1> QED  BY <1>6, <1>7, <1>8, <1>9, <1>10, <1>11

\* The frame a handler goes on with knows no id it did not know before, unless
\* the caller shows that id to be the resource's own.
LEMMA NextFrame ==
    ASSUME Grouped, TypeOK, OwnInv, Grows, NEW p \in Ops, h[p].pc # "idle"
    PROVE  /\ \A s \in Steps \ {"update"} : Goto(p, s) => HandlersOwned'
           /\ Enter(p, [h[p] EXCEPT !.pc = "putStatus"]) => HandlersOwned'
           /\ \A n \in {MaxAttempts, CatalogCalls, DetectCalls} :
                 Retry(p) /\ h[p].tries + 1 < n => HandlersOwned'
           /\ \A s \in Steps \ {"update"} : SearchFailed(p, s) => HandlersOwned'
           /\ \A i \in SloIds :
                 /\ Enter(p, [h[p] EXCEPT !.pc = "update", !.slo = i])
                 /\ Owns(h[p].cfg, i, used', slos')
                 => HandlersOwned'
           /\ \A b \in BOOLEAN, i \in Ids :
                 Outcome(p, b, i) /\ Owns(h[p].cfg, i, used', slos') => HandlersOwned'
           /\ ChoosePath(p) => HandlersOwned'
           /\ ChooseFramework(p) => HandlersOwned'
           /\ RetryCreate(p) => HandlersOwned'
           /\ Yield(p) => HandlersOwned'
           /\ StatusFailed(p) => HandlersOwned'
           /\ Conflict(p) => HandlersOwned'
<1>1. h[p] \in Frame /\ FrameOwned(h[p], used', slos') /\ HandlersOwned
  BY StaysOwned DEF TypeOK, OwnInv, HandlersOwned, Frame
<1>2. ASSUME NEW s \in Steps \ {"update"}, Goto(p, s)
      PROVE  HandlersOwned'
  <2> DEFINE f == [h[p] EXCEPT !.pc = s, !.tries = 0]
  <2>1. 0 \in Tries
    BY Values
  <2>2. f \in Frame /\ FrameOwned(f, used', slos')
    BY <1>1, <2>1 DEF Frame, FrameOwned
  <2> QED  BY <1>1, <1>2, <2>2, EnterOwned DEF Goto
<1>10. ASSUME Enter(p, [h[p] EXCEPT !.pc = "putStatus"])
       PROVE  HandlersOwned'
  <2> DEFINE f == [h[p] EXCEPT !.pc = "putStatus"]
  <2>1. "putStatus" \in Steps
    BY Values
  <2>2. f \in Frame /\ FrameOwned(f, used', slos')
    BY <1>1, <2>1 DEF Frame, FrameOwned
  <2> QED  BY <1>1, <1>10, <2>2, EnterOwned
<1>11. ASSUME NEW n \in {MaxAttempts, CatalogCalls, DetectCalls}, Retry(p), h[p].tries + 1 < n
       PROVE  HandlersOwned'
  <2> DEFINE t == h[p].tries + 1
             f == [h[p] EXCEPT !.tries = t]
  <2>1. t \in Tries /\ Enter(p, f)
    BY <1>1, <1>11, Values DEF Frame, Retry
  <2> HIDE DEF t
  <2>2. f \in Frame /\ FrameOwned(f, used', slos')
    BY <1>1, <2>1 DEF Frame, FrameOwned
  <2> QED  BY <1>1, <2>1, <2>2, EnterOwned
<1>12. ASSUME NEW s \in Steps \ {"update"}, SearchFailed(p, s)
       PROVE  HandlersOwned'
  BY <1>2, <1>11, <1>12 DEF SearchFailed
<1>3. ASSUME NEW i \in SloIds, Enter(p, [h[p] EXCEPT !.pc = "update", !.slo = i]),
             Owns(h[p].cfg, i, used', slos')
      PROVE  HandlersOwned'
  <2> DEFINE f == [h[p] EXCEPT !.pc = "update", !.slo = i]
  <2>1. "update" \in Steps /\ i \in Ids /\ i # NoId
    BY Values, IdsAssumption
  <2>2. f \in Frame
    BY <1>1, <2>1 DEF Frame
  <2>3. FrameOwned(f, used', slos')
    BY <1>1, <1>3, <2>1 DEF Frame, FrameOwned
  <2> QED  BY <1>1, <1>3, <2>2, <2>3, EnterOwned
<1>4. ASSUME NEW b \in BOOLEAN, NEW i \in Ids, Outcome(p, b, i),
             Owns(h[p].cfg, i, used', slos')
      PROVE  HandlersOwned'
  <2> DEFINE f == [h[p] EXCEPT !.pc = "getCR", !.ok = b, !.slo = i, !.tries = 0]
  <2>1. "getCR" \in Steps /\ 0 \in Tries
    BY Values
  <2>2. f \in Frame
    BY <1>1, <2>1 DEF Frame
  <2>3. FrameOwned(f, used', slos')
    BY <1>1, <1>4 DEF Frame, FrameOwned
  <2> QED  BY <1>1, <1>4, <2>2, <2>3, EnterOwned DEF Outcome
<1>5. ASSUME ChoosePath(p)
      PROVE  HandlersOwned'
  <2> DEFINE s == IF h[p].known # NoId THEN "update" ELSE "findUid"
             f == [h[p] EXCEPT !.pc = s, !.slo = h[p].known, !.tries = 0]
  <2>1. s \in Steps /\ 0 \in Tries /\ h[p].known \in Ids /\ (s = "update" => h[p].known # NoId)
    BY <1>1, Values DEF Frame
  <2>2. Enter(p, f)
    BY <1>5 DEF ChoosePath
  <2> HIDE DEF s
  <2>3. f \in Frame
    BY <1>1, <2>1 DEF Frame
  <2>4. FrameOwned(f, used', slos')
    BY <1>1, <2>1 DEF Frame, FrameOwned
  <2> QED  BY <1>1, <2>2, <2>3, <2>4, EnterOwned
<1>6. ASSUME RetryCreate(p)
      PROVE  HandlersOwned'
  <2>1. Outcome(p, FALSE, NoId) => HandlersOwned'
    BY <1>4, Values DEF Owns
  <2> QED  BY <1>6, <1>11, <2>1 DEF RetryCreate
<1>13. ASSUME ChooseFramework(p)
       PROVE  HandlersOwned'
  <2>1. "detect" \in Steps \ {"update"}
    BY Values
  <2> QED  BY <1>2, <1>5, <1>13, <2>1 DEF ChooseFramework
<1>7. ASSUME Yield(p)
      PROVE  HandlersOwned'
  <2>1. FrameOwned(Idle, used', slos')
    BY DEF FrameOwned, Owns, Idle
  <2> QED  BY <1>1, <1>7, <2>1, DefaultsOK, EnterOwned DEF Yield
<1>8. ASSUME StatusFailed(p)
      PROVE  HandlersOwned'
  <2>1. CASE h[p].mode = "result"
    <3> DEFINE f == [h[p] EXCEPT !.mode = "error", !.pc = "getCR", !.tries = 0]
    <3>1. /\ "getCR" \in Steps /\ "error" \in Modes /\ 0 \in Tries
          /\ Enter(p, f)
      BY <1>8, <2>1, Values DEF StatusFailed
    <3>2. f \in Frame
      BY <1>1, <3>1 DEF Frame
    <3>3. FrameOwned(f, used', slos')
      BY <1>1 DEF Frame, FrameOwned
    <3> QED  BY <1>1, <3>1, <3>2, <3>3, EnterOwned
  <2>2. CASE h[p].mode # "result"
    BY <1>7, <1>8, <2>2 DEF StatusFailed
  <2> QED  BY <2>1, <2>2
<1>9. ASSUME Conflict(p)
      PROVE  HandlersOwned'
  <2>1. CASE h[p].tries + 1 < StatusAttempts
    <3> DEFINE t == h[p].tries + 1
               f == [h[p] EXCEPT !.pc = "getCR", !.tries = t]
    <3>1. t \in Tries /\ "getCR" \in Steps /\ Enter(p, f)
      BY <1>1, <1>9, <2>1, Values DEF Frame, Conflict
    <3> HIDE DEF t
    <3>2. f \in Frame
      BY <1>1, <3>1 DEF Frame
    <3>3. FrameOwned(f, used', slos')
      BY <1>1 DEF Frame, FrameOwned
    <3> QED  BY <1>1, <3>1, <3>2, <3>3, EnterOwned
  <2>2. CASE ~(h[p].tries + 1 < StatusAttempts)
    BY <1>7, <1>9, <2>2 DEF Conflict
  <2> QED  BY <2>1, <2>2
<1> QED  BY <1>2, <1>3, <1>4, <1>5, <1>6, <1>7, <1>8, <1>9, <1>10, <1>11, <1>12, <1>13

\* reconcile_slo only ever works on SLOs of its own resource's group.
LEMMA OwnReconcile ==
    ASSUME Grouped, Unmixed, TypeOK, AtHome, OwnInv, NEW p \in Ops, Reconcile(p)
    PROVE  OwnInv'
<1>1. /\ DatadogOwned /\ ObjectsOwned /\ HandlersOwned
      /\ FrameOwned(h[p], used, slos) /\ h[p] \in Frame
  BY DEF OwnInv, HandlersOwned, TypeOK
<1>2. h[p].pc # "idle"
  BY KeepsSnapshot
<1>3. /\ h[p].cfg \in Configs /\ h[p].slo \in Ids /\ h[p].known \in Ids
      /\ h[p].spec.service \in Declares[h[p].cfg]
  BY <1>1, <1>2 DEF Frame, FrameOwned
<1>4. UNCHANGED datadog => Grows /\ DatadogOwned'
  BY <1>1 DEF datadog, Grows, DatadogOwned, Sharers
<1>5. UNCHANGED <<cr, inbox>> /\ Grows => ObjectsOwned'
  BY <1>1, StaysOwned DEF ObjectsOwned
<1>6. NoId \in Ids /\ Owns(h[p].cfg, NoId, used', slos')
  BY Values DEF Owns
<1>7. Grows => Owns(h[p].cfg, h[p].slo, used', slos')
  BY <1>1, <1>3, StaysOwned DEF FrameOwned
<1>8. {"findService", "create", "putStatus"} \subseteq Steps \ {"update"}
  BY Values
<1>9. CASE Lookup(p)
  <2>1. Grows /\ DatadogOwned' /\ ObjectsOwned'
    BY <1>4, <1>5, <1>9 DEF Lookup, cluster
  <2>2. HandlersOwned'
    BY <1>2, <1>6, <1>9, <2>1, NextFrame DEF Lookup
  <2> QED  BY <2>1, <2>2 DEF OwnInv
<1>16. CASE Detect(p)
  <2>1. Grows /\ DatadogOwned' /\ ObjectsOwned'
    BY <1>4, <1>5, <1>16 DEF Detect, cluster
  <2>2. HandlersOwned'
    BY <1>2, <1>16, <2>1, NextFrame DEF Detect
  <2> QED  BY <2>1, <2>2 DEF OwnInv
<1>10. CASE FindByUid(p)
  <2>1. Grows /\ DatadogOwned' /\ ObjectsOwned' /\ UNCHANGED datadog
    BY <1>4, <1>5, <1>10 DEF FindByUid, cluster
  <2>2. ASSUME NEW i \in index.live, index.slos[i].uid = h[p].cfg
        PROVE  i \in SloIds /\ Owns(h[p].cfg, i, used', slos')
    <3>1. i \in SloIds /\ i \in used /\ slos[i].uid \in Sharers(h[p].cfg)
      BY <1>1, <2>2 DEF DatadogOwned, TypeOK
    <3> QED  BY <2>1, <3>1 DEF Owns, datadog
  <2>3. HandlersOwned'
    BY <1>2, <1>8, <1>10, <2>1, <2>2, NextFrame DEF FindByUid
  <2> QED  BY <2>1, <2>3 DEF OwnInv
<1>11. CASE FindByService(p)
  <2>1. Grows /\ DatadogOwned' /\ ObjectsOwned' /\ UNCHANGED datadog
    BY <1>4, <1>5, <1>11 DEF FindByService, cluster
  <2>2. ASSUME NEW i \in index.live, index.slos[i].service = h[p].spec.service
        PROVE  i \in SloIds /\ i \in Ids /\ Owns(h[p].cfg, i, used', slos')
    <3>1. /\ i \in used /\ i \in SloIds /\ index.slos[i].uid \in Configs
          /\ h[p].spec.service \in Declares[index.slos[i].uid]
          /\ slos[i].uid \in Sharers(index.slos[i].uid)
      BY <1>1, <2>2 DEF DatadogOwned, TypeOK, SLO
    <3>2. slos[i].uid \in Sharers(h[p].cfg)
      <4>1. index.slos[i].uid \in Sharers(h[p].cfg)
        BY <1>3, <3>1 DEF Sharers
      <4> QED  BY <1>3, <3>1, <4>1 DEF Grouped
    <3> QED  BY <2>1, <3>1, <3>2, Values DEF Owns, datadog
  <2>3. HandlersOwned'
    BY <1>2, <1>8, <1>11, <2>1, <2>2, NextFrame DEF FindByService
  <2> QED  BY <2>1, <2>3 DEF OwnInv
<1>12. CASE Update(p)
  <2>1. Grows /\ DatadogOwned'
    <3>1. CASE UNCHANGED datadog
      BY <1>4, <3>1
    <3>2. CASE h[p].slo \in live /\ Store(h[p].slo, Desired(h[p]))
      <4>1. /\ h[p].slo \in SloIds /\ h[p].slo # NoId
            /\ Desired(h[p]) \in SLO
            /\ Desired(h[p]).uid = h[p].cfg /\ Desired(h[p]).service = h[p].spec.service
        BY <1>1, <3>2, DesiredType, IdsAssumption DEF TypeOK, Desired
      <4>2. slos[h[p].slo].uid \in Sharers(h[p].cfg)
        BY <1>1, <4>1 DEF FrameOwned, Owns
      <4> QED  BY <1>1, <1>3, <3>2, <4>1, <4>2, StoreOwned
    <3> QED  BY <1>12, <3>1, <3>2 DEF Update
  <2>2. ObjectsOwned'
    BY <1>5, <1>12, <2>1 DEF Update, cluster
  <2>3. HandlersOwned'
    BY <1>2, <1>3, <1>7, <1>12, <2>1, NextFrame DEF Update
  <2> QED  BY <2>1, <2>2, <2>3 DEF OwnInv
<1>13. CASE Create(p)
  <2>1. ASSUME NEW i \in SloIds \ used, Store(i, Desired(h[p]))
        PROVE  Grows /\ DatadogOwned' /\ Owns(h[p].cfg, i, used', slos')
    <3>1. /\ Desired(h[p]) \in SLO
          /\ Desired(h[p]).uid = h[p].cfg /\ Desired(h[p]).service = h[p].spec.service
      BY <1>1, DesiredType DEF Desired
    <3> QED  BY <1>1, <1>3, <2>1, <3>1, StoreOwned
  <2>2. Grows /\ DatadogOwned'
    BY <1>4, <1>13, <2>1 DEF Create
  <2>3. ObjectsOwned'
    BY <1>5, <1>13, <2>2 DEF Create, cluster
  <2>4. HandlersOwned'
    BY <1>2, <1>6, <1>13, <2>1, <2>2, NextFrame, Values DEF Create
  <2> QED  BY <2>2, <2>3, <2>4 DEF OwnInv
<1>14. CASE GetCR(p)
  <2>1. Grows /\ DatadogOwned' /\ ObjectsOwned'
    BY <1>4, <1>5, <1>14 DEF GetCR
  <2>2. HandlersOwned'
    BY <1>2, <1>8, <1>14, <2>1, NextFrame DEF GetCR
  <2> QED  BY <2>1, <2>2 DEF OwnInv
<1>15. CASE PutStatus(p)
  <2>1. Grows /\ DatadogOwned'
    BY <1>4, <1>15 DEF PutStatus
  <2>2. HandlersOwned'
    BY <1>2, <1>15, <2>1, NextFrame DEF PutStatus
  <2>3. ASSUME WriteCR(h[p].cfg, Reported(h[p], h[p].cfg))
        PROVE  \A d \in Configs : ObjectOwned(d, cr'[d], used', slos')
    <3> DEFINE i == IF h[p].mode = "result" THEN h[p].slo ELSE NoId
               z == IF h[p].mode = "result" /\ h[p].ok THEN "ok" ELSE "error"
               b == cr[h[p].cfg]
               object == [b EXCEPT !.sloId = i, !.state = z, !.shown = h[p].spec]
    <3>1. /\ i \in Ids /\ z \in States /\ h[p].spec \in Spec0
          /\ Owns(h[p].cfg, i, used', slos')
      BY <1>1, <1>3, <1>6, <1>7, <2>1, Values DEF Frame
    <3>2. b \in CR /\ ObjectOwned(h[p].cfg, b, used', slos')
      BY <1>1, <1>3, <2>1, StaysOwned DEF TypeOK, ObjectsOwned
    <3>3. WriteCR(h[p].cfg, object)
      BY <2>3 DEF Reported
    <3> HIDE DEF i, z, b
    <3>4. /\ object \in CR
          /\ object.sloId = i /\ object.phase = b.phase /\ object.spec = b.spec
      BY <3>1, <3>2 DEF CR
    <3>5. ObjectOwned(h[p].cfg, object, used', slos')
      BY <3>1, <3>2, <3>4 DEF ObjectOwned
    <3> QED  BY <1>1, <1>3, <2>1, <3>3, <3>4, <3>5, WriteOwned
  <2>4. UNCHANGED cr => \A d \in Configs : ObjectOwned(d, cr'[d], used', slos')
    BY <1>1, <2>1, StaysOwned DEF ObjectsOwned
  <2>5. ObjectsOwned'
    <3>1. UNCHANGED cr \/ WriteCR(h[p].cfg, Reported(h[p], h[p].cfg))
      BY <1>2, <1>3, <1>15, OwnPlace DEF PutStatus, cluster
    <3>2. UNCHANGED inbox
      BY <1>15 DEF PutStatus
    <3> QED  BY <1>1, <2>1, <2>3, <2>4, <3>1, <3>2, StaysOwned DEF ObjectsOwned
  <2> QED  BY <2>1, <2>2, <2>5 DEF OwnInv
<1> QED  BY <1>9, <1>10, <1>11, <1>12, <1>13, <1>14, <1>15, <1>16 DEF Reconcile

\* Every step keeps ownership.
LEMMA OwnNext ==
    Grouped /\ Unmixed /\ TypeOK /\ AtHome /\ OwnInv /\ [Next]_vars => OwnInv'
<1> SUFFICES ASSUME Grouped, Unmixed, TypeOK, AtHome, OwnInv, [Next]_vars
             PROVE  OwnInv'
  OBVIOUS
<1>1. CASE Environment \/ Reindex
  BY <1>1, OwnEnvironment
<1>2. CASE \E p \in Ops : Kopf(p)
  BY <1>2, OwnKopf DEF Kopf
<1>3. CASE \E p \in Ops : Reconcile(p)
  BY <1>3, OwnReconcile
<1>4. CASE UNCHANGED vars
  BY <1>4 DEF vars, OwnInv, DatadogOwned, ObjectsOwned, HandlersOwned
<1> QED  BY <1>1, <1>2, <1>3, <1>4 DEF Next

\* While no two SLOConfigs name the same service, status.slo_id only ever holds
\* the id of an SLO created for this very resource, whatever crashes, conflicts, lost
\* replies and lagging searches do: with one operator process, or with any number
\* of them while no SLOConfig gets the name of a deleted one.  The status is written
\* by name: with two processes and a name used again, a handler that is late with the
\* deleted SLOConfig writes its id into the status of the new one.
THEOREM StatusIsOwn ==
    ASSUME Exclusively, Unmixed
    PROVE  Spec => []StatusRefersToOwnSLO
<1>1. Init => OwnInv
  BY OwnInit
<1>2. TypeOK /\ AtHome /\ OwnInv /\ [Next]_vars => OwnInv'
  BY OwnNext, ExclusiveGroups
<1>3. OwnInv => StatusRefersToOwnSLO
  BY ExclusiveGroups DEF OwnInv, ObjectsOwned, ObjectOwned, Owns, StatusRefersToOwnSLO
<1> QED  BY <1>1, <1>2, <1>3, TypeCorrect, NamesKept, PTL DEF Spec

----------------------------------------------------------------------------
(* Uniqueness: no SLO is created twice *)

\* What the code needs for it: one process, a search that answers and does not
\* lag, and no reply lost after Datadog did the work.  Crashes, failed calls
\* that had no effect, conflicts, deletions and foreign edits are all allowed.
Dependable ==
    /\ \A p, q \in Ops : p = q
    /\ ~IndexLag
    /\ Budget["search"] = 0 /\ Budget["lost"] = 0

\* A handler past the search by uid.
Unfound(f) == f.pc \in {"findService", "create"}

\* AtMostOneSLO is not inductive: that create_slo adds no second SLO rests on
\* the search made two calls earlier still being true.
UniqueInv ==
    /\ left["search"] = 0 /\ left["lost"] = 0
    /\ AtMostOneSLO
    /\ \A p \in Ops : Unfound(h[p]) => \A i \in live : slos[i].uid # h[p].cfg

\* A kind of fault that cannot happen any more never does again.
LEMMA StaysSpent ==
    ASSUME TypeOK, NEW kind \in FaultKinds, left[kind] = 0, [Next]_vars
    PROVE  left'[kind] = 0
<1>1. ASSUME NEW k \in FaultKinds, Spend(k)
      PROVE  left'[kind] = 0
  BY <1>1 DEF Spend, TypeOK
<1>2. UNCHANGED left => left'[kind] = 0
  OBVIOUS
<1>3. CASE Environment \/ Reindex
  BY <1>1, <1>2, <1>3 DEF Environment, Reindex, CreateCR, EditSpec, DeleteCR,
     ForeignWrite, RemoveSLO, Crash, FaultKinds
<1>4. ASSUME NEW p \in Ops, Kopf(p)
      PROVE  UNCHANGED left
  BY <1>4 DEF Kopf, Deliver, IgnoreExcluded, BeginHandler, IgnoreEvent,
     HandleDelete, Finish
<1>5. ASSUME NEW p \in Ops, Reconcile(p)
      PROVE  left'[kind] = 0
  <2>1. (\E k \in FaultKinds : Spend(k)) \/ UNCHANGED left
    BY <1>5 DEF Reconcile, Lookup, Detect, FindByUid, FindByService, SearchFailed,
       Update, Create, GetCR, PutStatus, FaultKinds
  <2> QED  BY <1>1, <1>2, <2>1
<1>6. UNCHANGED vars => UNCHANGED left
  BY DEF vars
<1> QED  BY <1>2, <1>3, <1>4, <1>5, <1>6 DEF Next

\* The faults that are excluded stay excluded.
LEMMA NeverSpent ==
    ASSUME TypeOK, left["search"] = 0, left["lost"] = 0, [Next]_vars
    PROVE  left'["search"] = 0 /\ left'["lost"] = 0
BY StaysSpent DEF FaultKinds

\* With one process, the frame entered is the only one.
LEMMA OnlyFrame ==
    ASSUME Dependable, TypeOK, NEW p \in Ops, NEW f, Enter(p, f)
    PROVE  \A q \in Ops : h'[q] = f
BY DEF Dependable, Enter, TypeOK

\* Datadog unchanged, and no handler gets past the search: still unique.
LEMMA UniqueIdle ==
    ASSUME UniqueInv, TypeOK, [Next]_vars, live' \subseteq live, UNCHANGED slos,
           \A p \in Ops : Unfound(h'[p]) => Unfound(h[p]) /\ h'[p].cfg = h[p].cfg
    PROVE  UniqueInv'
<1>1. left'["search"] = 0 /\ left'["lost"] = 0
  BY NeverSpent DEF UniqueInv
<1> QED  BY <1>1 DEF UniqueInv, AtMostOneSLO

\* The world around the reconciler creates no SLO.
LEMMA UniqueEnvironment ==
    ASSUME Dependable, TypeOK, UniqueInv, [Next]_vars, Environment \/ Reindex
    PROVE  UniqueInv'
<1>1. live' \subseteq live /\ UNCHANGED slos
  BY DEF Environment, Reindex, CreateCR, EditSpec, DeleteCR, ForeignWrite,
     RemoveSLO, Crash, datadog
<1>2. UNCHANGED h \/ \E p \in Ops : Enter(p, Idle)
  BY DEF Environment, Reindex, CreateCR, EditSpec, DeleteCR, ForeignWrite,
     RemoveSLO, Crash
<1>3. ASSUME NEW p \in Ops, Enter(p, Idle)
      PROVE  \A q \in Ops : ~Unfound(h'[q])
  <2>1. \A q \in Ops : h'[q] = Idle
    BY <1>3, OnlyFrame
  <2>2. Idle.pc = "idle"
    BY DEF Idle
  <2> QED  BY <2>1, <2>2 DEF Unfound
<1> QED  BY <1>1, <1>2, <1>3, UniqueIdle

\* Neither does kopf.
LEMMA UniqueKopf ==
    ASSUME Dependable, TypeOK, UniqueInv, [Next]_vars, NEW p \in Ops, Kopf(p)
    PROVE  UniqueInv'
<1>1. UNCHANGED datadog
  BY DEF Kopf, Deliver, IgnoreExcluded, BeginHandler, IgnoreEvent, HandleDelete, Finish
<1>2. ASSUME NEW c \in Configs, BeginHandler(p, c)
      PROVE  \A q \in Ops : ~Unfound(h'[q])
  <2> DEFINE rejected == inbox[p][c].spec.content \in Invalid
             s == IF rejected THEN "getCR" ELSE "lookup"
             m == IF rejected THEN "error" ELSE "result"
             f == [Idle EXCEPT !.pc = s, !.mode = m, !.cfg = c,
                               !.spec = inbox[p][c].spec, !.known = inbox[p][c].sloId]
  <2>1. Enter(p, f)
    BY <1>2 DEF BeginHandler
  <2>2. f.pc = s
    BY DEF Idle
  <2> HIDE DEF f
  <2>3. \A q \in Ops : h'[q] = f
    BY <2>1, OnlyFrame
  <2> QED  BY <2>2, <2>3 DEF Unfound
<1>3. UNCHANGED h \/ \A q \in Ops : ~Unfound(h'[q])
  BY <1>2 DEF Kopf, Deliver, IgnoreExcluded, IgnoreEvent, HandleDelete, Finish
<1> QED  BY <1>1, <1>3, UniqueIdle DEF datadog

\* reconcile_slo posts only when no SLO of the resource exists, and puts
\* without changing whose SLO it is.
LEMMA UniqueReconcile ==
    ASSUME Exclusively, Dependable, TypeOK, OwnInv, UniqueInv, [Next]_vars,
           NEW p \in Ops, Reconcile(p)
    PROVE  UniqueInv'
<1>1. /\ index = [live |-> live, slos |-> slos]
      /\ index.live = live /\ index.slos = slos
  BY DEF Dependable, OwnInv, DatadogOwned
<1>2. ~Spend("search") /\ ~Spend("lost") /\ \A s : ~SearchFailed(p, s)
  BY DEF UniqueInv, Spend, SearchFailed
<1>3. h[p] \in Frame /\ live \subseteq SloIds /\ live \subseteq used
  BY DEF TypeOK
<1>4. \A f : Enter(p, f) => \A q \in Ops : h'[q] = f
  BY OnlyFrame
<1>5. ASSUME NEW f, Enter(p, f), ~Unfound(f)
      PROVE  \A q \in Ops : ~Unfound(h'[q])
  BY <1>4, <1>5
<1>6. ASSUME NEW b, NEW i, Outcome(p, b, i)
      PROVE  \A q \in Ops : ~Unfound(h'[q])
  <2> DEFINE f == [h[p] EXCEPT !.pc = "getCR", !.ok = b, !.slo = i, !.tries = 0]
  <2>1. f.pc = "getCR"
    BY <1>3 DEF Frame
  <2>2. Enter(p, f)
    BY <1>6 DEF Outcome
  <2> HIDE DEF f
  <2> QED  BY <1>5, <2>1, <2>2 DEF Unfound
<1>7. ASSUME NEW i, Enter(p, [h[p] EXCEPT !.pc = "update", !.slo = i])
      PROVE  \A q \in Ops : ~Unfound(h'[q])
  <2> DEFINE f == [h[p] EXCEPT !.pc = "update", !.slo = i]
  <2>1. f.pc = "update" /\ Enter(p, f)
    BY <1>3, <1>7 DEF Frame
  <2> HIDE DEF f
  <2> QED  BY <1>5, <2>1 DEF Unfound
<1>8. ASSUME ChooseFramework(p) \/ ChoosePath(p) \/ StatusFailed(p) \/ Conflict(p) \/ Yield(p)
      PROVE  \A q \in Ops : ~Unfound(h'[q])
  <2>1. h'[p].pc \in {"idle", "update", "findUid", "detect", "getCR"}
    <3>1. Idle.pc = "idle"
      BY DEF Idle
    <3> QED  BY <1>8, <3>1, FrameNext DEF Leaves
  <2>2. \A q \in Ops : q = p
    BY DEF Dependable
  <2> QED  BY <2>1, <2>2 DEF Unfound
<1>9. ASSUME NEW s, Goto(p, s)
      PROVE  \A q \in Ops : h'[q].pc = s /\ h'[q].cfg = h[p].cfg
  <2>1. \A q \in Ops : q = p
    BY DEF Dependable
  <2>2. h'[p].pc = s /\ h'[p].cfg = h[p].cfg
    BY <1>9, FrameNext DEF Carries
  <2> QED  BY <2>1, <2>2
<1>16. ASSUME Retry(p)
       PROVE  \A q \in Ops : h'[q].pc = h[q].pc /\ h'[q].cfg = h[q].cfg
  <2>1. \A q \in Ops : q = p
    BY DEF Dependable
  <2> QED  BY <1>16, <2>1, FrameNext DEF Carries
<1>10. CASE Lookup(p) \/ Detect(p)
  <2>1. UNCHANGED datadog /\ ~Unfound(h[p])
    BY <1>10 DEF Lookup, Detect, Unfound
  <2>2. \A q \in Ops : Unfound(h'[q]) => h'[q].cfg = h[q].cfg /\ Unfound(h[q])
    BY <1>6, <1>8, <1>10, <1>16 DEF Lookup, Detect, Unfound
  <2> QED  BY <2>1, <2>2, UniqueIdle DEF datadog
<1>11. CASE FindByUid(p)
  <2>1. CASE \E i \in index.live : Enter(p, [h[p] EXCEPT !.pc = "update", !.slo = i])
    <3>1. \A q \in Ops : ~Unfound(h'[q])
      BY <1>7, <2>1
    <3> QED  BY <1>11, <3>1, UniqueIdle DEF FindByUid, datadog
  <2>2. CASE /\ {i \in index.live : index.slos[i].uid = h[p].cfg} = {}
             /\ Goto(p, "findService")
    <3>1. \A i \in live : slos[i].uid # h[p].cfg
      BY <1>1, <2>2
    <3>2. \A q \in Ops : h'[q].cfg = h[p].cfg
      BY <1>9, <2>2
    <3>3. left'["search"] = 0 /\ left'["lost"] = 0
      BY NeverSpent DEF UniqueInv
    <3> QED  BY <1>11, <3>1, <3>2, <3>3 DEF FindByUid, UniqueInv, AtMostOneSLO, datadog
  <2> QED  BY <1>2, <1>11, <2>1, <2>2 DEF FindByUid
<1>12. CASE FindByService(p)
  <2>1. \A q \in Ops : Unfound(h'[q]) => h'[q].cfg = h[q].cfg /\ Unfound(h[q])
    <3>1. \A q \in Ops : q = p
      BY DEF Dependable
    <3>2. CASE \E i \in index.live : \/ Outcome(p, TRUE, i)
                                     \/ Enter(p, [h[p] EXCEPT !.pc = "update", !.slo = i])
      BY <1>6, <1>7, <3>2
    <3>3. CASE Goto(p, "create")
      BY <1>9, <1>12, <3>1, <3>3 DEF FindByService, Unfound
    <3> QED  BY <1>2, <1>12, <3>2, <3>3 DEF FindByService
  <2> QED  BY <1>12, <2>1, UniqueIdle DEF FindByService, datadog
<1>13. CASE Update(p)
  <2>1. \A q \in Ops : ~Unfound(h'[q])
    BY <1>6, <1>13 DEF Update
  <2>2. CASE UNCHANGED datadog
    BY <2>1, <2>2, UniqueIdle DEF datadog
  <2>3. CASE h[p].slo \in live /\ Store(h[p].slo, Desired(h[p]))
    <3>1. live' = live
      BY <2>3 DEF Store
    <3>2. \A i \in live : slos'[i].uid = slos[i].uid
      <4>1. FrameOwned(h[p], used, slos)
        BY DEF OwnInv, HandlersOwned
      <4>2. slos[h[p].slo].uid = h[p].cfg
        BY <1>3, <2>3, <4>1, IdsAssumption, ExclusiveGroups DEF FrameOwned, Owns, Frame
      <4> QED  BY <1>3, <2>3, <4>2 DEF Store, Desired, TypeOK
    <3>3. AtMostOneSLO'
      BY <3>1, <3>2 DEF UniqueInv, AtMostOneSLO
    <3>4. left'["search"] = 0 /\ left'["lost"] = 0
      BY NeverSpent DEF UniqueInv
    <3> QED  BY <2>1, <3>3, <3>4 DEF UniqueInv
  <2> QED  BY <1>13, <2>2, <2>3 DEF Update
<1>14. CASE Create(p)
  <2>1. \A i \in live : slos[i].uid # h[p].cfg
    BY <1>14 DEF Create, UniqueInv, Unfound
  <2>2. CASE \E i \in SloIds \ used : Store(i, Desired(h[p])) /\ Outcome(p, TRUE, i)
    <3>1. PICK i \in SloIds \ used : Store(i, Desired(h[p])) /\ Outcome(p, TRUE, i)
      BY <2>2
    <3>2. /\ live' = live \cup {i}
          /\ slos'[i].uid = h[p].cfg
          /\ \A j \in live : slos'[j] = slos[j]
      BY <1>3, <3>1 DEF Store, Desired, TypeOK
    <3>3. AtMostOneSLO'
      BY <2>1, <3>2 DEF UniqueInv, AtMostOneSLO
    <3>4. \A q \in Ops : ~Unfound(h'[q])
      BY <1>6, <3>1
    <3>5. left'["search"] = 0 /\ left'["lost"] = 0
      BY NeverSpent DEF UniqueInv
    <3> QED  BY <3>3, <3>4, <3>5 DEF UniqueInv
  <2>3. CASE UNCHANGED datadog /\ RetryCreate(p)
    <3>1. CASE Outcome(p, FALSE, NoId)
      BY <1>6, <2>3, <3>1, UniqueIdle DEF datadog
    <3>2. CASE Retry(p)
      BY <1>16, <2>3, <3>2, UniqueIdle DEF datadog, Unfound
    <3> QED  BY <2>3, <3>1, <3>2 DEF RetryCreate
  <2>4. CASE UNCHANGED datadog /\ Outcome(p, FALSE, NoId)
    BY <1>6, <2>4, UniqueIdle DEF datadog
  <2> QED  BY <1>2, <1>14, <2>2, <2>3, <2>4 DEF Create
<1>15. CASE GetCR(p) \/ PutStatus(p)
  <2>1. \A q \in Ops : ~Unfound(h'[q])
    <3>1. Enter(p, [h[p] EXCEPT !.pc = "putStatus"]) => \A q \in Ops : ~Unfound(h'[q])
      <4>1. \A q \in Ops : q = p
        BY DEF Dependable
      <4> QED  BY <4>1, FrameNext DEF Unfound
    <3> QED  BY <1>8, <1>15, <3>1 DEF GetCR, PutStatus
  <2> QED  BY <1>15, <2>1, UniqueIdle DEF GetCR, PutStatus, datadog
<1> QED  BY <1>10, <1>11, <1>12, <1>13, <1>14, <1>15 DEF Reconcile

\* Every step keeps uniqueness.
LEMMA UniqueNext ==
    Exclusively /\ Dependable /\ TypeOK /\ OwnInv /\ UniqueInv /\ [Next]_vars => UniqueInv'
<1> SUFFICES ASSUME Exclusively, Dependable, TypeOK, OwnInv, UniqueInv, [Next]_vars
             PROVE  UniqueInv'
  OBVIOUS
<1>1. CASE Environment \/ Reindex
  BY <1>1, UniqueEnvironment
<1>2. CASE \E p \in Ops : Kopf(p)
  BY <1>2, UniqueKopf
<1>3. CASE \E p \in Ops : Reconcile(p)
  BY <1>3, UniqueReconcile
<1>4. CASE UNCHANGED vars
  BY <1>4 DEF vars, UniqueInv, AtMostOneSLO
<1> QED  BY <1>1, <1>2, <1>3, <1>4 DEF Next

\* One operator process, services that are not shared, a search that answers
\* truthfully and replies that arrive: then, whatever crashes, restarts, failed
\* calls and status conflicts happen, no SLOConfig ever has two SLOs.  Each of the
\* conditions on processes, search and replies is needed: the run SLORollout
\* shows it for the first.
THEOREM NoDuplicates ==
    ASSUME Exclusively, Dependable
    PROVE  Spec => []AtMostOneSLO
<1>1. Init => OwnInv
  BY OwnInit
<1>2. TypeOK /\ AtHome /\ OwnInv /\ [Next]_vars => OwnInv'
  <2>1. Unmixed
    BY DEF Unmixed, Alone, Dependable
  <2> QED  BY <2>1, OwnNext, ExclusiveGroups
<1>3. Init => UniqueInv
  BY DEF Init, UniqueInv, AtMostOneSLO, Dependable, Unfound, Idle
<1>4. TypeOK /\ OwnInv /\ UniqueInv /\ [Next]_vars => UniqueInv'
  BY UniqueNext
<1>5. UniqueInv => AtMostOneSLO
  BY DEF UniqueInv
<1> QED  BY <1>1, <1>2, <1>3, <1>4, <1>5, TypeCorrect, NamesKept, PTL DEF Spec

----------------------------------------------------------------------------
(* Age: what is written about a resource never moves back *)

\* A version of a spec that is newer than another, or is that very version.
Follows(a, b) == a.gen > b.gen \/ a = b

\* The version of the spec that an SLO was built from.
BuiltFrom(s) == [service |-> s.service, content |-> s.content, gen |-> s.gen]

\* The versions of the spec of c that its status and the SLOs with its uid show.
Recorded(c) ==
    {cr[c].shown} \cup {BuiltFrom(slos[i]) : i \in {j \in used : slos[j].uid = c}}

UpToDate(spec, recorded) == \A r \in recorded : Follows(spec, r)

ObjectsAge ==
    \A c \in Configs :
        /\ cr[c].phase = "absent" <=> cr[c].spec.gen = 0
        /\ UpToDate(cr[c].spec, Recorded(c))

EventAge(c, body) ==
    body.phase # "absent" =>
        /\ body.spec.gen > 0
        /\ Follows(cr[c].spec, body.spec)
        /\ UpToDate(body.spec, Recorded(c))

FrameAge(f, body) ==
    f.pc # "idle" =>
        /\ f.spec.gen > 0
        /\ Follows(cr[f.cfg].spec, f.spec)
        /\ body.phase # "absent" => Follows(body.spec, f.spec)
        /\ UpToDate(f.spec, Recorded(f.cfg))

\* The resource, then the event that waits, then the snapshot of the handler, then
\* all that was ever written about the resource: each is as old as the one before,
\* or older.  One process is enough for that, whatever fails.
AgeInv ==
    /\ ObjectsAge
    /\ \A p \in Ops, c \in Configs : EventAge(c, inbox[p][c])
    /\ \A p \in Ops : FrameAge(h[p], inbox[p][h[p].cfg])

\* Versions have types and an order.
LEMMA Versions ==
    /\ \A a \in Spec0 : a.gen \in Nat /\ Follows(a, a)
    /\ \A a, b, c \in Spec0 : Follows(a, b) /\ Follows(b, c) => Follows(a, c)
    /\ \A a, b \in Spec0 : Follows(a, b) => a.gen >= b.gen
    /\ TypeOK => \A c \in Configs : /\ cr[c].spec \in Spec0
                                    /\ Recorded(c) \subseteq Spec0
                                    /\ \A p \in Ops : inbox[p][c].spec \in Spec0
    /\ TypeOK => \A p \in Ops : h[p].spec \in Spec0 /\ h[p].cfg \in Configs
<1>1. \A a \in Spec0 : a.gen \in Nat
  BY BoundsAssumption DEF Spec0, Gens
<1>2. /\ \A a, b, c \in Spec0 : Follows(a, b) /\ Follows(b, c) => Follows(a, c)
      /\ \A a, b \in Spec0 : Follows(a, b) => a.gen >= b.gen
  BY <1>1 DEF Follows
<1>3. ASSUME TypeOK, NEW c \in Configs
      PROVE  Recorded(c) \subseteq Spec0
  <2>1. \A i \in used : BuiltFrom(slos[i]) \in Spec0
    BY <1>3 DEF TypeOK, SLO, Spec0, BuiltFrom
  <2>2. cr[c].shown \in Spec0
    BY <1>3 DEF TypeOK, CR
  <2> QED  BY <2>1, <2>2 DEF Recorded
<1>4. TypeOK => \A c \in Configs : /\ cr[c].spec \in Spec0
                                   /\ \A p \in Ops : inbox[p][c].spec \in Spec0
  BY DEF TypeOK, CR
<1>5. TypeOK => \A p \in Ops : h[p].spec \in Spec0 /\ h[p].cfg \in Configs
  BY DEF TypeOK, Frame
<1> QED  BY <1>1, <1>2, <1>3, <1>4, <1>5 DEF Follows

\* Nothing was written yet.
LEMMA AgeInit == Init => AgeInv
<1> SUFFICES ASSUME Init
             PROVE  AgeInv
  OBVIOUS
<1>1. \A c \in Configs : cr[c] = NoCR /\ Recorded(c) = {NoSpec}
  BY DEF Init, Recorded, NoCR
<1>2. NoCR.phase = "absent" /\ NoCR.spec = NoSpec /\ NoSpec.gen = 0 /\ Idle.pc = "idle"
  BY DEF NoCR, NoSpec, Idle
<1>3. ObjectsAge
  BY <1>1, <1>2 DEF ObjectsAge, UpToDate, Follows
<1> QED  BY <1>2, <1>3 DEF Init, AgeInv, EventAge, FrameAge

\* Steps that record nothing and leave the specs alone: events are forgotten or
\* come from the resource as it is, handlers are left alone or ended.
LEMMA AgeQuiet ==
    ASSUME TypeOK, AgeInv,
           \A c \in Configs : /\ cr'[c].spec = cr[c].spec
                              /\ cr'[c].phase = "absent" <=> cr[c].phase = "absent"
                              /\ Recorded(c)' \subseteq Recorded(c),
           \A p \in Ops, c \in Configs : \/ inbox'[p][c] \in {inbox[p][c], cr[c]}
                                         \/ inbox'[p][c].phase = "absent",
           \A p \in Ops : h'[p] = h[p] \/ h'[p].pc = "idle"
    PROVE  AgeInv'
<1>1. ObjectsAge'
  BY DEF AgeInv, ObjectsAge, UpToDate
<1>2. ASSUME NEW p \in Ops, NEW c \in Configs
      PROVE  EventAge(c, inbox[p][c])'
  <2>1. CASE inbox'[p][c] = inbox[p][c]
    BY <2>1 DEF AgeInv, EventAge, UpToDate
  <2>2. CASE inbox'[p][c] = cr[c]
    <3>1. cr[c].phase # "absent" => cr[c].spec.gen > 0
      BY Versions DEF AgeInv, ObjectsAge
    <3> QED  BY <2>2, <3>1, Versions DEF AgeInv, ObjectsAge, EventAge, UpToDate
  <2>3. CASE inbox'[p][c].phase = "absent"
    BY <2>3 DEF EventAge
  <2> QED  BY <2>1, <2>2, <2>3
<1>3. ASSUME NEW p \in Ops
      PROVE  FrameAge(h[p], inbox[p][h[p].cfg])'
  <2>1. CASE h'[p].pc = "idle"
    BY <2>1 DEF FrameAge
  <2>2. CASE h'[p] = h[p] /\ h[p].pc # "idle"
    <3>1. PICK c \in Configs : c = h[p].cfg
      BY Versions
    <3>2. /\ h[p].spec.gen > 0 /\ Follows(cr[c].spec, h[p].spec)
          /\ inbox[p][c].phase # "absent" => Follows(inbox[p][c].spec, h[p].spec)
          /\ UpToDate(h[p].spec, Recorded(c))
      BY <2>2, <3>1 DEF AgeInv, FrameAge
    <3>3. /\ Follows(cr'[c].spec, h[p].spec)
          /\ inbox'[p][c].phase # "absent" => Follows(inbox'[p][c].spec, h[p].spec)
      BY <3>1, <3>2
    <3>4. UpToDate(h[p].spec, Recorded(c)')
      BY <3>1, <3>2 DEF UpToDate
    <3> QED  BY <2>2, <3>1, <3>2, <3>3, <3>4 DEF FrameAge, UpToDate
  <2> QED  BY <2>1, <2>2
<1> QED  BY <1>1, <1>2, <1>3 DEF AgeInv

\* A new version of a spec is newer than all there was.
LEMMA AgeRaise ==
    ASSUME TypeOK, TypeOK', AgeInv, NEW c \in Configs,
           cr'[c].spec.gen > cr[c].spec.gen, cr'[c].phase # "absent",
           cr'[c].shown \in {cr[c].shown, NoSpec},
           \A d \in Configs \ {c} : cr'[d] = cr[d],
           UNCHANGED <<inbox, h, used, slos>>
    PROVE  AgeInv'
<1>1. NoSpec \in Spec0 /\ NoSpec.gen = 0
  BY DefaultsOK DEF NoSpec
<1>2. \A d \in Configs : Recorded(d)' \subseteq Recorded(d) \cup {NoSpec}
  BY DEF Recorded
<1>3. \A d \in Configs \ {c} : Recorded(d)' = Recorded(d)
  BY DEF Recorded
<1>4. \A d \in Configs : cr'[d].spec \in Spec0 /\ Recorded(d) \subseteq Spec0
  <2>1. \A d \in Configs : cr'[d].spec \in Spec0
    BY DEF TypeOK, CR
  <2> QED  BY <2>1, Versions
<1>5. \A a \in Spec0 : Follows(cr[c].spec, a) => Follows(cr'[c].spec, a)
  BY <1>4, Versions DEF Follows
<1>6. \A a \in Spec0 : a.gen > 0 => Follows(a, NoSpec)
  BY <1>1 DEF Follows
<1>7. cr'[c].spec.gen > 0
  BY <1>4, Versions
<1>8. ObjectsAge'
  <2>1. UpToDate(cr'[c].spec, Recorded(c)')
    BY <1>2, <1>4, <1>5, <1>6, <1>7 DEF AgeInv, ObjectsAge, UpToDate
  <2>2. \A d \in Configs \ {c} : UpToDate(cr'[d].spec, Recorded(d)')
    BY <1>3 DEF AgeInv, ObjectsAge, UpToDate
  <2> QED  BY <1>4, <1>7, <2>1, <2>2, Versions DEF AgeInv, ObjectsAge, UpToDate
<1>9. ASSUME NEW p \in Ops, NEW d \in Configs
      PROVE  EventAge(d, inbox[p][d])'
  <2>1. inbox[p][d].spec \in Spec0 /\ inbox'[p][d] = inbox[p][d]
    BY Versions
  <2>2. EventAge(d, inbox[p][d])
    BY DEF AgeInv
  <2>3. Follows(cr[d].spec, inbox[p][d].spec) => Follows(cr'[d].spec, inbox[p][d].spec)
    BY <1>5, <2>1
  <2> QED  BY <1>2, <1>6, <2>1, <2>2, <2>3 DEF EventAge, UpToDate
<1>10. ASSUME NEW p \in Ops
       PROVE  FrameAge(h[p], inbox[p][h[p].cfg])'
  <2>1. PICK d \in Configs : d = h[p].cfg /\ h[p].spec \in Spec0 /\ h'[p] = h[p]
    BY Versions
  <2>2. FrameAge(h[p], inbox[p][d])
    BY <2>1 DEF AgeInv
  <2>3. Follows(cr[d].spec, h[p].spec) => Follows(cr'[d].spec, h[p].spec)
    BY <1>5, <2>1
  <2> QED  BY <1>2, <1>6, <2>1, <2>2, <2>3 DEF FrameAge, UpToDate
<1> QED  BY <1>8, <1>9, <1>10 DEF AgeInv

\* Users add versions; nobody else in the world does.
LEMMA AgeEnvironment ==
    ASSUME TypeOK, TypeOK', AgeInv, Environment \/ Reindex
    PROVE  AgeInv'
<1>1. \A c \in Configs : cr[c] \in CR /\ cr[c].spec.gen \in Nat
  BY Versions DEF TypeOK
<1>2. ASSUME NEW c \in Configs, CreateCR(c)
      PROVE  AgeInv'
  <2>1. PICK s \in Declares[c], k \in Contents :
          cr' = [cr EXCEPT ![c] = [NoCR EXCEPT !.phase = "live",
                                     !.spec = [service |-> s, content |-> k, gen |-> 1]]]
    BY <1>2 DEF CreateCR, WriteCR
  <2>2. /\ cr'[c].spec.gen = 1 /\ cr'[c].phase = "live" /\ cr'[c].shown = NoSpec
        /\ \A d \in Configs \ {c} : cr'[d] = cr[d]
    BY <2>1 DEF TypeOK, NoCR
  <2>3. cr[c].spec.gen = 0
    BY <1>2 DEF CreateCR, AgeInv, ObjectsAge
  <2> QED  BY <1>2, <2>2, <2>3, AgeRaise DEF CreateCR, datadog
<1>3. ASSUME NEW c \in Configs, EditSpec(c)
      PROVE  AgeInv'
  <2>1. PICK s \in Declares[c], k \in Contents :
          cr' = [cr EXCEPT ![c] = [cr[c] EXCEPT
                    !.spec = [service |-> s, content |-> k, gen |-> cr[c].spec.gen + 1]]]
    BY <1>3 DEF EditSpec, WriteCR
  <2>2. /\ cr'[c].spec.gen = cr[c].spec.gen + 1
        /\ cr'[c].phase = "live" /\ cr'[c].shown = cr[c].shown
        /\ \A d \in Configs \ {c} : cr'[d] = cr[d]
    BY <1>1, <1>3, <2>1 DEF TypeOK, CR, EditSpec
  <2> QED  BY <1>1, <1>3, <2>2, AgeRaise DEF EditSpec, datadog
<1>4. ASSUME NEW c \in Configs, DeleteCR(c) \/ ForeignWrite(c)
      PROVE  AgeInv'
  <2>1. /\ cr'[c].spec = cr[c].spec /\ cr'[c].shown = cr[c].shown
        /\ cr[c].phase = "live" /\ cr'[c].phase \in {"live", "terminating"}
        /\ \A d \in Configs \ {c} : cr'[d] = cr[d]
    BY <1>1, <1>4 DEF DeleteCR, ForeignWrite, WriteCR, TypeOK, CR
  <2>2. UNCHANGED <<inbox, h, used, slos>>
    BY <1>4 DEF DeleteCR, ForeignWrite, datadog
  <2>3. \A d \in Configs : Recorded(d)' = Recorded(d)
    BY <2>1, <2>2 DEF Recorded
  <2> QED  BY <2>1, <2>2, <2>3, AgeQuiet
<1>5. ASSUME Reindex \/ \E i \in SloIds : RemoveSLO(i)
      PROVE  AgeInv'
  <2>1. UNCHANGED <<cr, inbox, h, used, slos>>
    BY <1>5 DEF Reindex, RemoveSLO, cluster
  <2>2. \A d \in Configs : Recorded(d)' = Recorded(d)
    BY <2>1 DEF Recorded
  <2> QED  BY <2>1, <2>2, AgeQuiet
<1>6. ASSUME NEW p \in Ops, Crash(p)
      PROVE  AgeInv'
  <2>1. /\ UNCHANGED <<cr, used, slos>>
        /\ h' = [h EXCEPT ![p] = Idle]
        /\ inbox' = [inbox EXCEPT ![p] = [c \in Configs |-> NoCR]]
    BY <1>6 DEF Crash, Enter, datadog
  <2>2. \A q \in Ops : h'[q] = h[q] \/ h'[q].pc = "idle"
    BY <2>1 DEF TypeOK, Idle
  <2>3. \A q \in Ops, c \in Configs : inbox'[q][c] = inbox[q][c] \/ inbox'[q][c].phase = "absent"
    BY <2>1 DEF TypeOK, NoCR
  <2>4. \A d \in Configs : Recorded(d)' = Recorded(d)
    BY <2>1 DEF Recorded
  <2> QED  BY <2>1, <2>2, <2>3, <2>4, AgeQuiet
<1> QED  BY <1>2, <1>3, <1>4, <1>5, <1>6 DEF Environment

\* kopf writes the record of what was handled and nothing else.
LEMMA FinishRecords ==
    ASSUME TypeOK, NEW p \in Ops, NEW c \in Configs, Finish(p, c)
    PROVE  \A d \in Configs :
              /\ cr'[d].phase = cr[d].phase /\ cr'[d].spec = cr[d].spec
              /\ cr'[d].sloId = cr[d].sloId /\ cr'[d].state = cr[d].state
              /\ cr'[d].shown = cr[d].shown
<1>1. ASSUME NEW b \in Bearers(c), WriteCR(b, [cr[b] EXCEPT !.handled = finishing[p][c]]),
             NEW d \in Configs
      PROVE  /\ cr'[d].phase = cr[d].phase /\ cr'[d].spec = cr[d].spec
             /\ cr'[d].sloId = cr[d].sloId /\ cr'[d].state = cr[d].state
             /\ cr'[d].shown = cr[d].shown
  <2>1. b \in Configs /\ cr[b] \in CR
    BY DEF Bearers, TypeOK
  <2>2. cr' = [cr EXCEPT ![b] = [cr[b] EXCEPT !.handled = finishing[p][c]]]
    BY <1>1 DEF WriteCR
  <2> QED  BY <2>1, <2>2 DEF TypeOK, CR
<1> QED  BY <1>1 DEF Finish, cluster

\* kopf passes on what the resource is, and the handler begins with what was passed.
LEMMA AgeKopf ==
    ASSUME TypeOK, TypeOK', AgeInv, NEW p \in Ops, NEW c \in Configs,
           \/ Deliver(p, c) \/ IgnoreExcluded(p, c) \/ BeginHandler(p, c)
           \/ IgnoreEvent(p, c) \/ HandleDelete(p, c) \/ Finish(p, c)
    PROVE  AgeInv'
<1>1. UNCHANGED <<used, slos>>
  BY DEF Deliver, IgnoreExcluded, BeginHandler, IgnoreEvent, HandleDelete, Finish, datadog
<1>2. Consume(p, c) => \A q \in Ops, d \in Configs :
          inbox'[q][d] = IF q = p /\ d = c THEN NoCR ELSE inbox[q][d]
  BY DEF Consume, TypeOK
<1>3. cr[c] \in CR /\ NoCR.phase = "absent"
  BY DEF TypeOK, NoCR
<1>4. CASE Deliver(p, c)
  <2>1. /\ UNCHANGED <<cr, h>>
        /\ \A q \in Ops, d \in Configs : inbox'[q][d] \in {inbox[q][d], cr[d]}
    BY <1>4 DEF Deliver, TypeOK
  <2>2. \A d \in Configs : Recorded(d)' = Recorded(d)
    BY <1>1, <2>1 DEF Recorded
  <2> QED  BY <2>1, <2>2, AgeQuiet
<1>5. CASE IgnoreExcluded(p, c) \/ IgnoreEvent(p, c)
  <2>1. UNCHANGED <<cr, h>> /\ Consume(p, c)
    BY <1>5 DEF IgnoreExcluded, IgnoreEvent, cluster
  <2>2. \A d \in Configs : Recorded(d)' = Recorded(d)
    BY <1>1, <2>1 DEF Recorded
  <2> QED  BY <1>2, <1>3, <2>1, <2>2, AgeQuiet
<1>6. CASE HandleDelete(p, c)
  <2>1. /\ cr'[c].spec = cr[c].spec /\ cr'[c].shown = cr[c].shown
        /\ cr'[c].phase = "gone" /\ \A d \in Configs \ {c} : cr'[d] = cr[d]
    BY <1>3, <1>6 DEF HandleDelete, WriteCR, TypeOK, CR
  <2>2. UNCHANGED h /\ Consume(p, c)
    BY <1>6 DEF HandleDelete
  <2>3. cr[c].phase # "absent"
    <3>1. inbox[p][c].spec.gen > 0 /\ Follows(cr[c].spec, inbox[p][c].spec)
      BY <1>6 DEF HandleDelete, AgeInv, EventAge
    <3>2. cr[c].spec.gen > 0
      BY <3>1, Versions
    <3> QED  BY <3>2, Versions DEF AgeInv, ObjectsAge
  <2>4. \A d \in Configs : Recorded(d)' = Recorded(d)
    BY <1>1, <2>1 DEF Recorded
  <2> QED  BY <1>2, <1>3, <2>1, <2>2, <2>3, <2>4, AgeQuiet
<1>7. CASE Finish(p, c)
  <2>1. \A d \in Configs : /\ cr'[d].spec = cr[d].spec /\ cr'[d].shown = cr[d].shown
                           /\ cr'[d].phase = cr[d].phase
    BY <1>7, FinishRecords
  <2>2. UNCHANGED <<h, inbox>>
    BY <1>7 DEF Finish
  <2>3. \A d \in Configs : Recorded(d)' = Recorded(d)
    BY <1>1, <2>1 DEF Recorded
  <2> QED  BY <2>1, <2>2, <2>3, AgeQuiet
<1>8. CASE BeginHandler(p, c)
  <2>1. UNCHANGED cr /\ Consume(p, c) /\ inbox[p][c].phase = "live"
    BY <1>8 DEF BeginHandler, Changed, cluster
  <2>2. /\ \A q \in Ops \ {p} : h'[q] = h[q]
        /\ h'[p].cfg = c /\ h'[p].spec = inbox[p][c].spec
    BY <1>8 DEF BeginHandler, Enter, TypeOK, Idle
  <2>3. \A d \in Configs : Recorded(d)' = Recorded(d)
    BY <1>1, <2>1 DEF Recorded
  <2>4. ObjectsAge'
    BY <2>1, <2>3 DEF AgeInv, ObjectsAge
  <2>5. \A q \in Ops, d \in Configs : EventAge(d, inbox[q][d])'
    BY <1>2, <1>3, <2>1, <2>3 DEF AgeInv, EventAge
  <2>6. FrameAge(h[p], inbox[p][h[p].cfg])'
    <3>1. /\ h'[p].spec.gen > 0 /\ Follows(cr'[c].spec, h'[p].spec)
          /\ UpToDate(h'[p].spec, Recorded(c)')
      BY <2>1, <2>2, <2>3 DEF AgeInv, EventAge
    <3>2. inbox'[p][c].phase = "absent"
      BY <1>2, <1>3, <2>1
    <3> QED  BY <2>2, <3>1, <3>2 DEF FrameAge
  <2>7. ASSUME NEW q \in Ops \ {p}
        PROVE  FrameAge(h[q], inbox[q][h[q].cfg])'
    <3>1. PICK d \in Configs : d = h[q].cfg /\ h'[q] = h[q]
      BY <2>2, Versions
    <3>2. inbox'[q][d] = inbox[q][d]
      BY <1>2, <2>1
    <3>3. FrameAge(h[q], inbox[q][d])
      BY <3>1 DEF AgeInv
    <3> QED  BY <2>1, <2>3, <3>1, <3>2, <3>3 DEF FrameAge
  <2> QED  BY <2>4, <2>5, <2>6, <2>7 DEF AgeInv
<1> QED  BY <1>4, <1>5, <1>6, <1>7, <1>8

\* The handler records its own snapshot and nothing else.
LEMMA RecordsSnapshot ==
    ASSUME Unmixed, TypeOK, AtHome, NEW p \in Ops, Reconcile(p)
    PROVE  /\ \A c \in Configs : cr'[c].spec = cr[c].spec /\ cr'[c].phase = cr[c].phase
           /\ UNCHANGED inbox
           /\ \A c \in Configs : Recorded(c)' \subseteq
                 Recorded(c) \cup (IF c = h[p].cfg THEN {h[p].spec} ELSE {})
<1>1. h[p] \in Frame /\ h[p].cfg \in Configs /\ cr[h[p].cfg] \in CR
  BY DEF TypeOK, Frame
<1>2. UNCHANGED inbox
  BY DEF Reconcile, Lookup, Detect, FindByUid, FindByService, Update, Create, GetCR,
     PutStatus
<1>3. CASE UNCHANGED <<cr, used, slos>>
  <2>1. \A c \in Configs : Recorded(c)' = Recorded(c)
    BY <1>3 DEF Recorded
  <2> QED  BY <1>2, <1>3, <2>1
<1>4. ASSUME NEW i \in SloIds, Store(i, Desired(h[p])), UNCHANGED cr
      PROVE  \A c \in Configs : Recorded(c)' \subseteq
                 Recorded(c) \cup (IF c = h[p].cfg THEN {h[p].spec} ELSE {})
  <2>1. /\ used' = used \cup {i}
        /\ \A j \in used' : slos'[j] = IF j = i THEN Desired(h[p]) ELSE slos[j]
    BY <1>4 DEF Store, TypeOK
  <2>2. Desired(h[p]).uid = h[p].cfg /\ BuiltFrom(Desired(h[p])) = h[p].spec
    BY <1>1 DEF Desired, BuiltFrom, Frame, Spec0
  <2> QED  BY <1>4, <2>1, <2>2 DEF Recorded
<1>5. CASE Update(p) \/ Create(p)
  <2>1. UNCHANGED cr
    BY <1>5 DEF Update, Create, cluster
  <2>2. UNCHANGED datadog \/ \E i \in SloIds : Store(i, Desired(h[p]))
    BY <1>5 DEF Update, Create, TypeOK
  <2> QED  BY <1>2, <1>3, <1>4, <2>1, <2>2 DEF datadog
<1>6. CASE PutStatus(p)
  <2>1. UNCHANGED <<used, slos>>
    BY <1>6 DEF PutStatus, datadog
  <2>2. UNCHANGED cr \/ cr' = [cr EXCEPT ![h[p].cfg] = Reported(h[p], h[p].cfg)]
    BY <1>1, <1>6, OwnPlace DEF PutStatus, WriteCR, cluster
  <2>3. CASE cr' = [cr EXCEPT ![h[p].cfg] = Reported(h[p], h[p].cfg)]
    <3> DEFINE i == IF h[p].mode = "result" THEN h[p].slo ELSE NoId
               z == IF h[p].mode = "result" /\ h[p].ok THEN "ok" ELSE "error"
    <3>1. Reported(h[p], h[p].cfg)
            = [cr[h[p].cfg] EXCEPT !.sloId = i, !.state = z, !.shown = h[p].spec]
      BY DEF Reported
    <3> HIDE DEF i, z
    <3>2. /\ Reported(h[p], h[p].cfg).spec = cr[h[p].cfg].spec
          /\ Reported(h[p], h[p].cfg).phase = cr[h[p].cfg].phase
          /\ Reported(h[p], h[p].cfg).shown = h[p].spec
      BY <1>1, <3>1 DEF CR
    <3>3. \A c \in Configs : cr'[c] = IF c = h[p].cfg THEN Reported(h[p], h[p].cfg) ELSE cr[c]
      BY <2>3 DEF TypeOK
    <3> QED  BY <1>2, <2>1, <3>2, <3>3 DEF Recorded
  <2> QED  BY <1>3, <2>1, <2>2, <2>3
<1>7. CASE Lookup(p) \/ Detect(p) \/ FindByUid(p) \/ FindByService(p) \/ GetCR(p)
  BY <1>3, <1>7 DEF Lookup, Detect, FindByUid, FindByService, GetCR, cluster, datadog
<1> QED  BY <1>5, <1>6, <1>7 DEF Reconcile

\* With a single process, nothing is older than the snapshot its handler records.
LEMMA AgeReconcile ==
    ASSUME Alone, TypeOK, AtHome, AgeInv, NEW p \in Ops, Reconcile(p)
    PROVE  AgeInv'
<1>1. PICK c \in Configs : c = h[p].cfg /\ h[p].spec \in Spec0
  BY Versions
<1>2. /\ h[p].pc # "idle" /\ h[p].spec.gen > 0
      /\ Follows(cr[c].spec, h[p].spec)
      /\ inbox[p][c].phase # "absent" => Follows(inbox[p][c].spec, h[p].spec)
      /\ UpToDate(h[p].spec, Recorded(c))
  BY <1>1, KeepsSnapshot DEF AgeInv, FrameAge
<1>3. \A q \in Ops : q = p
  BY DEF Alone
<1>4. /\ \A d \in Configs : cr'[d].spec = cr[d].spec /\ cr'[d].phase = cr[d].phase
      /\ UNCHANGED inbox
      /\ \A d \in Configs \ {c} : Recorded(d)' \subseteq Recorded(d)
      /\ Recorded(c)' \subseteq Recorded(c) \cup {h[p].spec}
  BY <1>1, RecordsSnapshot DEF Unmixed
<1>5. UpToDate(h[p].spec, Recorded(c)')
  BY <1>1, <1>2, <1>4, Versions DEF UpToDate
<1>6. ObjectsAge'
  BY <1>2, <1>4 DEF AgeInv, ObjectsAge, UpToDate
<1>7. \A d \in Configs : EventAge(d, inbox[p][d])'
  BY <1>2, <1>4 DEF AgeInv, EventAge, UpToDate
<1>8. FrameAge(h[p], inbox[p][h[p].cfg])'
  <2>1. CASE Leaves(p)
    BY <2>1 DEF Leaves, FrameAge, Idle
  <2>2. CASE Carries(p)
    <3>1. h'[p].cfg = c /\ h'[p].spec = h[p].spec
      BY <1>1, <2>2 DEF Carries
    <3> QED  BY <1>2, <1>4, <1>5, <3>1 DEF FrameAge
  <2> QED  BY <2>1, <2>2, KeepsSnapshot
<1> QED  BY <1>3, <1>6, <1>7, <1>8 DEF AgeInv

\* Every step keeps the order of ages.
LEMMA AgeNext ==
    Alone /\ TypeOK /\ TypeOK' /\ AtHome /\ AgeInv /\ [Next]_vars => AgeInv'
<1> SUFFICES ASSUME Alone, TypeOK, TypeOK', AtHome, AgeInv, [Next]_vars
             PROVE  AgeInv'
  OBVIOUS
<1>1. CASE Environment \/ Reindex
  BY <1>1, AgeEnvironment
<1>2. CASE \E p \in Ops : Kopf(p)
  BY <1>2, AgeKopf DEF Kopf
<1>3. CASE \E p \in Ops : Reconcile(p)
  BY <1>3, AgeReconcile
<1>4. CASE UNCHANGED vars
  <2>1. \A c \in Configs : Recorded(c)' = Recorded(c)
    BY <1>4 DEF vars, Recorded
  <2> QED  BY <1>4, <2>1, AgeQuiet DEF vars
<1> QED  BY <1>1, <1>2, <1>3, <1>4 DEF Next

----------------------------------------------------------------------------
(* Truth: a status of "ok" is no older than the SLO it names *)

\* _compare_slo_parameters tells any two contents apart.
Faithful == \A k, l \in Contents : Compared[k] = Compared[l] => k = l

\* SLO s says what the version sp of the spec says, or what a later one does.
Backs(s, sp) ==
    \/ s.gen > sp.gen
    \/ s.service = sp.service /\ s.content = sp.content

StatusTrue(c) == cr[c].state = "ok" =>
    cr[c].sloId # NoId /\ Backs(slos[cr[c].sloId], cr[c].shown)

\* A handler about to report success has the SLO that its report will name.
FrameTrue(f) == f.pc \in {"getCR", "putStatus"} /\ f.mode = "result" /\ f.ok =>
    f.slo # NoId /\ Backs(slos[f.slo], f.spec)

\* OkMeansInSync is not inductive: between reconcile_slo and the status write the
\* SLO could be deleted in the console, and a handler with an older snapshot could
\* store it again after the status was written.
TruthInv ==
    /\ left["wipe"] = 0
    /\ live = used
    /\ \A c \in Configs : StatusTrue(c)
    /\ \A p \in Ops : FrameTrue(h[p])

\* Statuses stay as true as they were when no SLO and no status is written.
LEMMA TruthQuiet ==
    ASSUME TruthInv, left'["wipe"] = 0, UNCHANGED <<live, used, slos>>,
           \A c \in Configs : \/ cr'[c].state # "ok"
                              \/ /\ cr'[c].state = cr[c].state
                                 /\ cr'[c].sloId = cr[c].sloId
                                 /\ cr'[c].shown = cr[c].shown,
           \A p \in Ops : FrameTrue(h'[p])
    PROVE  TruthInv'
<1>1. \A c \in Configs : StatusTrue(c)'
  BY DEF TruthInv, StatusTrue
<1>2. \A p \in Ops : FrameTrue(h[p])'
  BY DEF FrameTrue
<1> QED  BY <1>1, <1>2 DEF TruthInv

\* Nothing outside the handler makes a status untrue.
LEMMA TruthEnvironment ==
    ASSUME TypeOK, TruthInv, left'["wipe"] = 0, Environment \/ Reindex
    PROVE  TruthInv'
<1>1. \A c \in Configs : cr[c] \in CR
  BY DEF TypeOK
<1>2. FrameTrue(Idle) /\ \A p \in Ops : FrameTrue(h[p])
  BY DEF FrameTrue, Idle, TruthInv
<1>3. ASSUME NEW c \in Configs, CreateCR(c)
      PROVE  TruthInv'
  <2>1. PICK s \in Declares[c], k \in Contents :
          cr' = [cr EXCEPT ![c] = [NoCR EXCEPT !.phase = "live",
                                     !.spec = [service |-> s, content |-> k, gen |-> 1]]]
    BY <1>3 DEF CreateCR, WriteCR
  <2>2. cr'[c].state = "none" /\ \A d \in Configs \ {c} : cr'[d] = cr[d]
    BY <2>1 DEF TypeOK, NoCR
  <2> QED  BY <1>2, <1>3, <2>2, TruthQuiet DEF CreateCR, datadog
<1>4. ASSUME NEW c \in Configs, EditSpec(c) \/ DeleteCR(c) \/ ForeignWrite(c)
      PROVE  TruthInv'
  <2>1. /\ cr'[c].state = cr[c].state /\ cr'[c].sloId = cr[c].sloId
        /\ cr'[c].shown = cr[c].shown
        /\ \A d \in Configs \ {c} : cr'[d] = cr[d]
    <3>1. CASE EditSpec(c)
      <4>1. PICK s \in Declares[c], k \in Contents :
              cr' = [cr EXCEPT ![c] = [cr[c] EXCEPT
                    !.spec = [service |-> s, content |-> k, gen |-> cr[c].spec.gen + 1]]]
        BY <3>1 DEF EditSpec, WriteCR
      <4> QED  BY <1>1, <4>1 DEF TypeOK, CR
    <3>2. CASE DeleteCR(c) \/ ForeignWrite(c)
      BY <1>1, <3>2 DEF DeleteCR, ForeignWrite, WriteCR, TypeOK, CR
    <3> QED  BY <1>4, <3>1, <3>2
  <2>2. UNCHANGED <<h, live, used, slos>>
    BY <1>4 DEF EditSpec, DeleteCR, ForeignWrite, datadog
  <2> QED  BY <1>2, <2>1, <2>2, TruthQuiet
<1>5. CASE \E i \in SloIds : RemoveSLO(i)
  BY <1>5 DEF RemoveSLO, Spend, TruthInv
<1>6. ASSUME NEW p \in Ops, Crash(p)
      PROVE  TruthInv'
  <2>1. UNCHANGED <<cr, live, used, slos>> /\ \A q \in Ops : h'[q] \in {h[q], Idle}
    BY <1>6 DEF Crash, Enter, TypeOK, datadog
  <2> QED  BY <1>2, <2>1, TruthQuiet
<1>7. CASE Reindex
  BY <1>2, <1>7, TruthQuiet DEF Reindex, cluster
<1> QED  BY <1>3, <1>4, <1>5, <1>6, <1>7 DEF Environment

\* A handler begins with nothing to report, or with an error.
LEMMA TruthKopf ==
    ASSUME TypeOK, TruthInv, left'["wipe"] = 0, NEW p \in Ops, NEW c \in Configs,
           \/ Deliver(p, c) \/ IgnoreExcluded(p, c) \/ BeginHandler(p, c)
           \/ IgnoreEvent(p, c) \/ HandleDelete(p, c) \/ Finish(p, c)
    PROVE  TruthInv'
<1>1. UNCHANGED <<live, used, slos>>
  BY DEF Deliver, IgnoreExcluded, BeginHandler, IgnoreEvent, HandleDelete, Finish, datadog
<1>2. \A d \in Configs : /\ cr'[d].state = cr[d].state /\ cr'[d].sloId = cr[d].sloId
                         /\ cr'[d].shown = cr[d].shown
  <2>1. cr[c] \in CR
    BY DEF TypeOK
  <2>2. CASE HandleDelete(p, c)
    BY <2>1, <2>2 DEF HandleDelete, WriteCR, TypeOK, CR
  <2>3. CASE Finish(p, c)
    BY <2>3, FinishRecords
  <2>4. CASE ~HandleDelete(p, c) /\ ~Finish(p, c)
    BY <2>4 DEF Deliver, IgnoreExcluded, BeginHandler, IgnoreEvent, cluster
  <2> QED  BY <2>2, <2>3, <2>4
<1>3. \A q \in Ops : FrameTrue(h[q])
  BY DEF TruthInv
<1>4. CASE BeginHandler(p, c)
  <2> DEFINE rejected == inbox[p][c].spec.content \in Invalid
             s == IF rejected THEN "getCR" ELSE "lookup"
             m == IF rejected THEN "error" ELSE "result"
  <2>1. /\ \A q \in Ops \ {p} : h'[q] = h[q]
        /\ h'[p] = [Idle EXCEPT !.pc = s, !.mode = m, !.cfg = c,
                                !.spec = inbox[p][c].spec, !.known = inbox[p][c].sloId]
    BY <1>4 DEF BeginHandler, Enter, TypeOK
  <2>2. s = "lookup" \/ m = "error"
    OBVIOUS
  <2> HIDE DEF s, m
  <2>3. h'[p].pc = s /\ h'[p].mode = m
    BY <2>1 DEF Idle
  <2>4. FrameTrue(h'[p])
    BY <2>2, <2>3 DEF FrameTrue
  <2> QED  BY <1>1, <1>2, <1>3, <2>1, <2>4, TruthQuiet
<1>5. CASE ~BeginHandler(p, c)
  <2>1. UNCHANGED h
    BY <1>5 DEF Deliver, IgnoreExcluded, IgnoreEvent, HandleDelete, Finish
  <2> QED  BY <1>1, <1>2, <1>3, <2>1, TruthQuiet
<1> QED  BY <1>4, <1>5

\* The handler stores its snapshot under an id of its own resource: that is what
\* the status will say, and no older than what the status says now.
LEMMA TruthStore ==
    ASSUME Exclusively, Alone, TypeOK, OwnInv, AgeInv, TruthInv, left'["wipe"] = 0,
           NEW p \in Ops, h[p].pc # "idle", NEW i \in SloIds, Store(i, Desired(h[p])),
           i \in used => i = h[p].slo, UNCHANGED cr,
           FrameTrue(h[p])'
    PROVE  TruthInv'
<1>1. PICK c \in Configs : c = h[p].cfg /\ h[p].spec \in Spec0
  BY Versions
<1>2. /\ live' = live \cup {i} /\ used' = used \cup {i}
      /\ \A j \in used' : slos'[j] = IF j = i THEN Desired(h[p]) ELSE slos[j]
  BY DEF Store, TypeOK
<1>3. i \in used => slos[i].uid = c
  BY <1>1, ExclusiveGroups, IdsAssumption DEF OwnInv, HandlersOwned, FrameOwned, Owns
<1>4. Backs(Desired(h[p]), cr[c].shown)
  <2>1. Follows(h[p].spec, cr[c].shown)
    BY <1>1 DEF AgeInv, FrameAge, UpToDate, Recorded
  <2> QED  BY <2>1 DEF Follows, Backs, Desired
<1>5. ASSUME NEW d \in Configs
      PROVE  StatusTrue(d)'
  <2>1. SUFFICES ASSUME cr[d].state = "ok"
                 PROVE  cr[d].sloId # NoId /\ Backs(slos'[cr[d].sloId], cr[d].shown)
    BY DEF StatusTrue
  <2>2. /\ cr[d].sloId # NoId /\ Backs(slos[cr[d].sloId], cr[d].shown)
        /\ cr[d].sloId \in used /\ slos[cr[d].sloId].uid = d
    BY <2>1, ExclusiveGroups
       DEF TruthInv, StatusTrue, OwnInv, ObjectsOwned, ObjectOwned, Owns
  <2>3. CASE cr[d].sloId = i
    BY <1>2, <1>3, <1>4, <2>2, <2>3
  <2>4. CASE cr[d].sloId # i
    BY <1>2, <2>2, <2>4
  <2> QED  BY <2>3, <2>4
<1>6. \A q \in Ops : FrameTrue(h[q])'
  BY DEF Alone
<1> QED  BY <1>2, <1>5, <1>6 DEF TruthInv

\* Success is reported only of an SLO that was just stored, or found to say what
\* the spec says.
LEMMA TruthReconcile ==
    ASSUME Exclusively, Alone, ~IndexLag, Faithful, TypeOK, AtHome, OwnInv, AgeInv,
           TruthInv, left'["wipe"] = 0, NEW p \in Ops, Reconcile(p)
    PROVE  TruthInv'
<1>1. /\ h[p] \in Frame /\ h[p].cfg \in Configs /\ cr[h[p].cfg] \in CR
      /\ h[p].spec.content \in Contents
      /\ h[p].pc # "idle" /\ FrameTrue(h[p]) /\ \A q \in Ops : q = p
  BY KeepsSnapshot DEF TypeOK, Frame, Spec0, TruthInv, Alone
<1>2. Leaves(p) => FrameTrue(h'[p])
  BY DEF Leaves, FrameTrue, Idle
<1>3. ASSUME UNCHANGED <<cr, live, used, slos>>, FrameTrue(h'[p])
      PROVE  TruthInv'
  BY <1>1, <1>3, TruthQuiet
<1>4. ASSUME NEW b, NEW i, Outcome(p, b, i),
             b = TRUE => i # NoId /\ Backs(slos[i], h[p].spec)
      PROVE  FrameTrue(h'[p])
  <2>1. Carries(p) /\ h'[p].ok = b /\ h'[p].slo = i
    BY <1>4, FrameOutcome
  <2> QED  BY <1>4, <2>1 DEF FrameTrue, Carries
<1>5. \A s \in {"findService", "create"} : Goto(p, s) => FrameTrue(h'[p])
  BY FrameNext DEF FrameTrue
<1>6. CASE Lookup(p)
  <2>1. UNCHANGED <<cr, live, used, slos>>
    BY <1>6 DEF Lookup, cluster, datadog
  <2>2. ChooseFramework(p) \/ Retry(p) => FrameTrue(h'[p])
    BY <1>6, FrameNext DEF FrameTrue, Lookup
  <2> QED  BY <1>3, <1>4, <1>6, <2>1, <2>2 DEF Lookup
<1>15. CASE Detect(p)
  <2>1. UNCHANGED <<cr, live, used, slos>>
    BY <1>15 DEF Detect, cluster, datadog
  <2>2. FrameTrue(h'[p])
    BY <1>15, FrameNext DEF FrameTrue, Detect
  <2> QED  BY <1>3, <2>1, <2>2
<1>7. ASSUME NEW i, Enter(p, [h[p] EXCEPT !.pc = "update", !.slo = i])
      PROVE  FrameTrue(h'[p])
  BY <1>7, FrameNext DEF FrameTrue
<1>8. CASE FindByUid(p)
  <2>1. UNCHANGED <<cr, live, used, slos>>
    BY <1>8 DEF FindByUid, cluster, datadog
  <2>2. ASSUME SearchFailed(p, "findService")
        PROVE  FrameTrue(h'[p])
    <3>1. h[p].pc = "findUid"
      BY <1>8 DEF FindByUid
    <3>2. h'[p].pc \in {"findService", h[p].pc}
      BY <2>2, FrameSearch
    <3> QED  BY <3>1, <3>2 DEF FrameTrue
  <2> QED  BY <1>3, <1>5, <1>7, <1>8, <2>1, <2>2 DEF FindByUid
<1>9. CASE FindByService(p)
  <2>1. UNCHANGED <<cr, live, used, slos>>
    BY <1>9 DEF FindByService, cluster, datadog
  <2>2. index.live = live /\ index.slos = slos
    BY DEF OwnInv, DatadogOwned
  <2>3. ASSUME NEW i \in live, slos[i].service = h[p].spec.service,
               Compared[slos[i].content] = Compared[h[p].spec.content]
        PROVE  i # NoId /\ Backs(slos[i], h[p].spec)
    <3>1. i \in SloIds /\ i # NoId /\ slos[i].content \in Contents
      BY IdsAssumption DEF TypeOK, SLO
    <3> QED  BY <1>1, <2>3, <3>1 DEF Faithful, Backs
  <2>4. ASSUME SearchFailed(p, "create")
        PROVE  FrameTrue(h'[p])
    <3>1. h[p].pc = "findService"
      BY <1>9 DEF FindByService
    <3>2. h'[p].pc \in {"create", h[p].pc}
      BY <2>4, FrameSearch
    <3> QED  BY <3>1, <3>2 DEF FrameTrue
  <2> QED  BY <1>3, <1>4, <1>5, <1>7, <1>9, <2>1, <2>2, <2>3, <2>4 DEF FindByService
<1>10. ASSUME NEW i \in SloIds, Store(i, Desired(h[p])), i \in used => i = h[p].slo,
              UNCHANGED cr,
              \/ \E b : Outcome(p, b, i)
              \/ Outcome(p, FALSE, NoId)
              \/ h[p].pc = "create" /\ RetryCreate(p)
       PROVE  TruthInv'
  <2>1. slos'[i] = Desired(h[p])
    BY <1>10 DEF Store, TypeOK
  <2>2. i # NoId /\ Backs(slos'[i], h[p].spec)
    BY <2>1, IdsAssumption DEF Desired, Backs
  <2>3. FrameTrue(h[p])'
    BY <1>10, <2>2, FrameNext DEF FrameTrue, Carries
  <2> QED  BY <1>1, <1>10, <2>3, TruthStore
<1>11. CASE Update(p)
  <2>1. UNCHANGED cr
    BY <1>11 DEF Update, cluster
  <2>2. CASE UNCHANGED datadog /\ Outcome(p, FALSE, h[p].slo)
    BY <1>3, <1>4, <2>1, <2>2 DEF datadog
  <2>3. CASE /\ h[p].slo \in live /\ Store(h[p].slo, Desired(h[p]))
             /\ \E b : Outcome(p, b, h[p].slo)
    <3>1. h[p].slo \in SloIds
      BY <2>3 DEF TypeOK
    <3> QED  BY <1>10, <2>1, <2>3, <3>1
  <2> QED  BY <1>11, <2>2, <2>3 DEF Update
<1>12. CASE Create(p)
  <2>1. UNCHANGED cr /\ h[p].pc = "create"
    BY <1>12 DEF Create, cluster
  <2>2. CASE UNCHANGED datadog /\ (RetryCreate(p) \/ Outcome(p, FALSE, NoId))
    <3>1. RetryCreate(p) => FrameTrue(h'[p])
      BY <2>1, FrameNext DEF FrameTrue
    <3> QED  BY <1>3, <1>4, <2>1, <2>2, <3>1 DEF datadog
  <2> QED  BY <1>10, <1>12, <2>1, <2>2 DEF Create
<1>13. CASE GetCR(p)
  <2>1. UNCHANGED <<cr, live, used, slos>>
    BY <1>13 DEF GetCR, datadog
  <2>2. Enter(p, [h[p] EXCEPT !.pc = "putStatus"]) => FrameTrue(h'[p])
    BY <1>1, <1>13, FrameNext DEF FrameTrue, Carries, GetCR
  <2>3. StatusFailed(p) => FrameTrue(h'[p])
    BY <1>2, FrameNext DEF FrameTrue
  <2> QED  BY <1>3, <1>13, <2>1, <2>2, <2>3 DEF GetCR
<1>14. CASE PutStatus(p)
  <2>1. UNCHANGED <<live, used, slos>>
    BY <1>14 DEF PutStatus, datadog
  <2>2. StatusFailed(p) \/ Conflict(p) \/ Yield(p)
    BY <1>14 DEF PutStatus
  <2>3. FrameTrue(h'[p])
    BY <1>1, <1>2, <1>14, <2>2, FrameNext DEF FrameTrue, Carries, PutStatus
  <2>4. CASE UNCHANGED cr
    BY <1>3, <2>1, <2>3, <2>4
  <2>5. CASE WriteCR(h[p].cfg, Reported(h[p], h[p].cfg))
    <3> DEFINE i == IF h[p].mode = "result" THEN h[p].slo ELSE NoId
               z == IF h[p].mode = "result" /\ h[p].ok THEN "ok" ELSE "error"
               object == [cr[h[p].cfg] EXCEPT !.sloId = i, !.state = z, !.shown = h[p].spec]
    <3>1. z = "ok" => i # NoId /\ Backs(slos[i], h[p].spec)
      BY <1>1, <1>14 DEF FrameTrue, PutStatus
    <3>2. cr' = [cr EXCEPT ![h[p].cfg] = object]
      BY <2>5 DEF WriteCR, Reported
    <3> HIDE DEF i, z
    <3>3. /\ cr'[h[p].cfg].state = z /\ cr'[h[p].cfg].sloId = i
          /\ cr'[h[p].cfg].shown = h[p].spec
          /\ \A d \in Configs \ {h[p].cfg} : cr'[d] = cr[d]
      BY <1>1, <3>2 DEF CR, TypeOK
    <3>4. \A d \in Configs : StatusTrue(d)'
      <4>1. PICK c \in Configs : c = h[p].cfg
        BY <1>1
      <4>2. cr'[c].state = "ok" => cr'[c].sloId # NoId /\ Backs(slos'[cr'[c].sloId], cr'[c].shown)
        BY <2>1, <3>1, <3>3, <4>1
      <4>3. \A d \in Configs \ {c} : StatusTrue(d)'
        BY <2>1, <3>3, <4>1 DEF TruthInv, StatusTrue
      <4> QED  BY <4>2, <4>3 DEF StatusTrue
    <3>5. \A q \in Ops : FrameTrue(h[q])'
      BY <1>1, <2>1, <2>3 DEF FrameTrue
    <3> QED  BY <2>1, <3>4, <3>5 DEF TruthInv
  <2> QED  BY <1>1, <1>14, <2>4, <2>5, OwnPlace DEF PutStatus, cluster, Unmixed
<1> QED  BY <1>6, <1>8, <1>9, <1>11, <1>12, <1>13, <1>14, <1>15 DEF Reconcile

\* Every step keeps the statuses true.
LEMMA TruthNext ==
    /\ Exclusively /\ Alone /\ ~IndexLag /\ Faithful
    /\ TypeOK /\ AtHome /\ OwnInv /\ AgeInv /\ TruthInv /\ [Next]_vars
    => TruthInv'
<1> SUFFICES ASSUME Exclusively, Alone, ~IndexLag, Faithful,
                    TypeOK, AtHome, OwnInv, AgeInv, TruthInv, [Next]_vars
             PROVE  TruthInv'
  OBVIOUS
<1>1. left'["wipe"] = 0
  BY StaysSpent DEF TruthInv, FaultKinds
<1>2. CASE Environment \/ Reindex
  BY <1>1, <1>2, TruthEnvironment
<1>3. CASE \E p \in Ops : Kopf(p)
  BY <1>1, <1>3, TruthKopf DEF Kopf
<1>4. CASE \E p \in Ops : Reconcile(p)
  BY <1>1, <1>4, TruthReconcile
<1>5. CASE UNCHANGED vars
  BY <1>1, <1>5, TruthQuiet DEF vars, TruthInv
<1> QED  BY <1>2, <1>3, <1>4, <1>5 DEF Next

\* A single process, services that are not shared, an index that does not lag, a
\* comparison that misses nothing, and SLOs that nobody deletes in the console: then
\* a status of "ok" is true and stays true, whatever crashes, failed searches, lost
\* replies, conflicts and deletions happen.
THEOREM OkIsTrue ==
    ASSUME Exclusively, Alone, ~IndexLag, Faithful, Budget["wipe"] = 0
    PROVE  Spec => []OkMeansInSync
<1>1. Init => OwnInv /\ AgeInv
  BY OwnInit, AgeInit
<1>2. TypeOK /\ AtHome /\ OwnInv /\ [Next]_vars => OwnInv'
  BY OwnNext, ExclusiveGroups DEF Unmixed
<1>3. TypeOK /\ TypeOK' /\ AtHome /\ AgeInv /\ [Next]_vars => AgeInv'
  BY AgeNext
<1>4. Init => TruthInv
  BY DEF Init, TruthInv, StatusTrue, FrameTrue, NoCR, Idle
<1>5. TypeOK /\ AtHome /\ OwnInv /\ AgeInv /\ TruthInv /\ [Next]_vars => TruthInv'
  BY TruthNext
<1>6. OwnInv /\ TruthInv => OkMeansInSync
  BY DEF OwnInv, ObjectsOwned, ObjectOwned, Owns, TruthInv, StatusTrue, Backs, OkMeansInSync
<1> QED  BY <1>1, <1>2, <1>3, <1>4, <1>5, <1>6, TypeCorrect, NamesKept, PTL DEF Spec

----------------------------------------------------------------------------
(* The contract with the owner of a SLOConfig *)

\* What the contract speaks of, as a function of the reconciler's state.
Declared == [c \in Configs |-> cr[c].spec.gen]
PublishedFor(c) == {[id |-> i, gen |-> slos[i].gen] : i \in {j \in live : slos[j].uid = c}}
Published == [c \in Configs |-> PublishedFor(c)]

\* Nobody deletes an SLO in the console any more.
Unwiped == left["wipe"] = 0

\* A step that touches neither specs nor SLOs is one the owner does not see.
LEMMA ContractStutter ==
    ASSUME \A c \in Configs : cr'[c].spec.gen = cr[c].spec.gen,
           UNCHANGED <<live, slos>>
    PROVE  UNCHANGED <<Declared, Published>>
BY DEF Declared, Published, PublishedFor

\* A user's new version is declared.
LEMMA ContractDeclare ==
    ASSUME TypeOK, NEW c \in Configs, cr[c].spec.gen < MaxGen,
           cr'[c].spec.gen = cr[c].spec.gen + 1,
           \A d \in Configs \ {c} : cr'[d] = cr[d],
           UNCHANGED <<live, slos>>
    PROVE  Contract!Declare(c)
<1>1. Declared' = [Declared EXCEPT ![c] = @ + 1]
  BY DEF Declared
<1>2. Published' = Published
  BY DEF Published, PublishedFor
<1> QED  BY <1>1, <1>2 DEF Contract!Declare, Declared, Published, PublishedFor

\* Storing the snapshot of the handler shows its version under that id, for its
\* resource only.
LEMMA PublishedAfter ==
    ASSUME TypeOK, NEW p \in Ops, NEW c \in Configs, c = h[p].cfg,
           NEW i \in SloIds, Store(i, Desired(h[p])),
           \A j \in live : slos[j].uid = c => j = i,
           i \in live => slos[i].uid = c
    PROVE  Published' = [Published EXCEPT ![c] = {[id |-> i, gen |-> h[p].spec.gen]}]
<1>1. /\ live' = live \cup {i}
      /\ \A j \in live' : slos'[j] = IF j = i THEN Desired(h[p]) ELSE slos[j]
      /\ Desired(h[p]).uid = c /\ Desired(h[p]).gen = h[p].spec.gen
  BY DEF Store, TypeOK, Desired
<1>2. {j \in live' : slos'[j].uid = c} = {i}
  BY <1>1
<1>3. PublishedFor(c)' = {[id |-> i, gen |-> h[p].spec.gen]}
  <2>1. PublishedFor(c)' = {[id |-> j, gen |-> slos'[j].gen] : j \in {i}}
    BY <1>2 DEF PublishedFor
  <2> QED  BY <1>1, <2>1
<1>4. ASSUME NEW d \in Configs \ {c}
      PROVE  PublishedFor(d)' = PublishedFor(d)
  <2>1. {j \in live' : slos'[j].uid = d} = {j \in live : slos[j].uid = d}
    BY <1>1
  <2>2. \A j \in {k \in live : slos[k].uid = d} : slos'[j] = slos[j]
    BY <1>1
  <2> QED  BY <2>1, <2>2 DEF PublishedFor
<1> QED  BY <1>3, <1>4 DEF Published

\* A PUT advances the one SLO of the resource, a POST publishes the first.
LEMMA ContractReconcile ==
    ASSUME Exclusively, Dependable, TypeOK, AtHome, OwnInv, UniqueInv, AgeInv,
           NEW p \in Ops, Reconcile(p)
    PROVE  Contract!Next \/ UNCHANGED <<Declared, Published>>
<1>1. PICK c \in Configs : c = h[p].cfg /\ h[p].spec \in Spec0 /\ cr[c].spec \in Spec0
  BY Versions
<1>2. /\ h[p].spec.gen > 0 /\ h[p].spec.gen \in Nat /\ cr[c].spec.gen \in Nat
      /\ h[p].spec.gen <= cr[c].spec.gen
      /\ UpToDate(h[p].spec, Recorded(c))
  BY <1>1, KeepsSnapshot, Versions DEF AgeInv, FrameAge
<1>3. \A d \in Configs : cr'[d].spec = cr[d].spec
  BY RecordsSnapshot DEF Unmixed, Alone, Dependable
<1>4. CASE UNCHANGED datadog
  BY <1>3, <1>4, ContractStutter DEF datadog
<1>5. Declared' = Declared
  BY <1>3 DEF Declared
<1>6. CASE h[p].slo \in live /\ Store(h[p].slo, Desired(h[p])) /\ h[p].pc = "update"
  <2>1. PICK i \in SloIds : i = h[p].slo /\ i \in live /\ i \in used
    BY <1>6 DEF TypeOK
  <2>2. slos[i].uid = c
    BY <1>1, <2>1, ExclusiveGroups, IdsAssumption DEF OwnInv, HandlersOwned, FrameOwned, Owns
  <2>3. \A j \in live : slos[j].uid = c => j = i
    BY <2>1, <2>2 DEF UniqueInv, AtMostOneSLO
  <2>4. Published' = [Published EXCEPT ![c] = {[id |-> i, gen |-> h[p].spec.gen]}]
    BY <1>1, <1>6, <2>1, <2>2, <2>3, PublishedAfter
  <2>5. PublishedFor(c) = {[id |-> i, gen |-> slos[i].gen]}
    <3>1. {j \in live : slos[j].uid = c} = {i}
      BY <2>1, <2>2, <2>3
    <3> QED  BY <3>1 DEF PublishedFor
  <2>6. /\ slos[i].gen \in Nat /\ slos[i].gen <= h[p].spec.gen
    <3>1. BuiltFrom(slos[i]) \in Recorded(c) /\ BuiltFrom(slos[i]).gen = slos[i].gen
      BY <2>1, <2>2 DEF Recorded, BuiltFrom
    <3>2. /\ BuiltFrom(slos[i]) \in Spec0
          /\ Follows(h[p].spec, BuiltFrom(slos[i]))
      BY <1>2, <3>1, Versions DEF UpToDate
    <3> QED  BY <1>1, <3>1, <3>2, Versions
  <2>7. h[p].spec.gen \in slos[i].gen..Declared[c]
    BY <1>2, <2>6 DEF Declared
  <2>8. Contract!Advance(c)
    <3> DEFINE s == [id |-> i, gen |-> slos[i].gen]
    <3>1. s \in Published[c] /\ Published[c] = {s} /\ s.id = i /\ s.gen = slos[i].gen
      BY <2>5 DEF Published
    <3> HIDE DEF s
    <3> QED  BY <1>5, <2>4, <2>7, <3>1
             DEF Contract!Advance, Declared, Published, PublishedFor
  <2> QED  BY <2>8 DEF Contract!Next
<1>7. CASE h[p].pc = "create" /\ \E i \in SloIds \ used : Store(i, Desired(h[p]))
  <2>1. PICK i \in SloIds \ used : Store(i, Desired(h[p]))
    BY <1>7
  <2>2. \A j \in live : slos[j].uid # c
    BY <1>1, <1>7 DEF UniqueInv, Unfound
  <2>3. i \notin live
    BY DEF TypeOK
  <2>4. Published' = [Published EXCEPT ![c] = {[id |-> i, gen |-> h[p].spec.gen]}]
    BY <1>1, <2>1, <2>2, <2>3, PublishedAfter
  <2>5. Published[c] = {}
    BY <2>2 DEF Published, PublishedFor
  <2>6. h[p].spec.gen \in 1..Declared[c]
    BY <1>2 DEF Declared
  <2>7. Contract!Publish(c)
    BY <1>5, <2>4, <2>5, <2>6 DEF Contract!Publish, Declared, Published, PublishedFor
  <2> QED  BY <2>7 DEF Contract!Next
<1>8. CASE Update(p) \/ Create(p)
  BY <1>4, <1>6, <1>7, <1>8 DEF Update, Create
<1>9. CASE ~(Update(p) \/ Create(p))
  <2>1. UNCHANGED datadog
    BY <1>9 DEF Reconcile, Lookup, Detect, FindByUid, FindByService, GetCR, PutStatus
  <2> QED  BY <1>4, <2>1
<1> QED  BY <1>8, <1>9

\* Every step of the reconciler is a step of the contract, or one the owner does
\* not see.
LEMMA ContractNext ==
    ASSUME Exclusively, Dependable, TypeOK, AtHome, OwnInv, UniqueInv, AgeInv,
           Unwiped, [Next]_vars
    PROVE  Contract!Next \/ UNCHANGED <<Declared, Published>>
<1>1. \A c \in Configs : cr[c] \in CR /\ cr[c].spec.gen \in Nat
  BY Versions DEF TypeOK
<1>2. ASSUME NEW c \in Configs, CreateCR(c)
      PROVE  Contract!Next
  <2>1. PICK s \in Declares[c], k \in Contents :
          cr' = [cr EXCEPT ![c] = [NoCR EXCEPT !.phase = "live",
                                     !.spec = [service |-> s, content |-> k, gen |-> 1]]]
    BY <1>2 DEF CreateCR, WriteCR
  <2>2. cr'[c].spec.gen = 1 /\ \A d \in Configs \ {c} : cr'[d] = cr[d]
    BY <2>1 DEF TypeOK, NoCR
  <2>3. cr[c].spec.gen = 0 /\ 0 < MaxGen
    BY <1>2, BoundsAssumption DEF CreateCR, AgeInv, ObjectsAge
  <2>4. Contract!Declare(c)
    BY <1>2, <2>2, <2>3, ContractDeclare DEF CreateCR, datadog
  <2> QED  BY <2>4 DEF Contract!Next
<1>3. ASSUME NEW c \in Configs, EditSpec(c)
      PROVE  Contract!Next
  <2>1. PICK s \in Declares[c], k \in Contents :
          cr' = [cr EXCEPT ![c] = [cr[c] EXCEPT
                    !.spec = [service |-> s, content |-> k, gen |-> cr[c].spec.gen + 1]]]
    BY <1>3 DEF EditSpec, WriteCR
  <2>2. /\ cr'[c].spec.gen = cr[c].spec.gen + 1
        /\ \A d \in Configs \ {c} : cr'[d] = cr[d]
    BY <1>1, <2>1 DEF TypeOK, CR
  <2>3. Contract!Declare(c)
    BY <1>3, <2>2, ContractDeclare DEF EditSpec, datadog
  <2> QED  BY <2>3 DEF Contract!Next
<1>4. ASSUME NEW c \in Configs, DeleteCR(c) \/ ForeignWrite(c)
      PROVE  UNCHANGED <<Declared, Published>>
  <2>1. cr'[c].spec = cr[c].spec /\ \A d \in Configs \ {c} : cr'[d] = cr[d]
    BY <1>1, <1>4 DEF DeleteCR, ForeignWrite, WriteCR, TypeOK, CR
  <2> QED  BY <1>4, <2>1, ContractStutter DEF DeleteCR, ForeignWrite, datadog
<1>5. ~\E i \in SloIds : RemoveSLO(i)
  BY DEF RemoveSLO, Spend, Unwiped
<1>6. CASE Reindex \/ \E p \in Ops : Crash(p)
  BY <1>6, ContractStutter DEF Reindex, Crash, cluster, datadog
<1>7. ASSUME NEW p \in Ops, Kopf(p)
      PROVE  UNCHANGED <<Declared, Published>>
  <2>1. UNCHANGED datadog
    BY <1>7 DEF Kopf, Deliver, IgnoreExcluded, BeginHandler, IgnoreEvent, HandleDelete, Finish
  <2>2. UNCHANGED cr \/ \E c \in Configs : HandleDelete(p, c) \/ Finish(p, c)
    BY <1>7 DEF Kopf, Deliver, IgnoreExcluded, BeginHandler, IgnoreEvent, cluster
  <2>3. ASSUME NEW c \in Configs, HandleDelete(p, c) \/ Finish(p, c)
        PROVE  \A d \in Configs : cr'[d].spec = cr[d].spec
    <3>1. CASE HandleDelete(p, c)
      BY <1>1, <3>1 DEF HandleDelete, WriteCR, TypeOK, CR
    <3> QED  BY <2>3, <3>1, FinishRecords
  <2>4. \A d \in Configs : cr'[d].spec = cr[d].spec
    BY <2>2, <2>3
  <2> QED  BY <2>1, <2>4, ContractStutter DEF datadog
<1>8. CASE UNCHANGED vars
  BY <1>8, ContractStutter DEF vars
<1> QED  BY <1>2, <1>3, <1>4, <1>5, <1>6, <1>7, <1>8, ContractReconcile DEF Next, Environment

\* One operator process, services that are not shared, a search that answers
\* truthfully, replies that arrive and SLOs that nobody deletes in the console: the
\* reconciler implements SLOContract.  Every SLOConfig gets one SLO, which keeps its
\* id and never goes back to an older version of the spec, whatever crashes, failed
\* calls, conflicts and deletions of SLOConfigs happen.
THEOREM ContractKept ==
    ASSUME Exclusively, Dependable, Budget["wipe"] = 0
    PROVE  Spec => KeepsContract
<1>1. Init => Contract!Init
  BY DEF Init, Contract!Init, NoCR, NoSpec
<1>2. Init => OwnInv /\ AgeInv /\ UniqueInv /\ Unwiped
  BY OwnInit, AgeInit DEF Init, Unwiped, UniqueInv, AtMostOneSLO, Dependable, Unfound, Idle
<1>3. TypeOK /\ AtHome /\ OwnInv /\ [Next]_vars => OwnInv'
  <2>1. Unmixed
    BY DEF Unmixed, Alone, Dependable
  <2> QED  BY <2>1, OwnNext, ExclusiveGroups
<1>4. TypeOK /\ TypeOK' /\ AtHome /\ AgeInv /\ [Next]_vars => AgeInv'
  BY AgeNext DEF Dependable, Alone
<1>5. TypeOK /\ OwnInv /\ UniqueInv /\ [Next]_vars => UniqueInv'
  BY UniqueNext
<1>6. TypeOK /\ Unwiped /\ [Next]_vars => Unwiped'
  BY StaysSpent DEF Unwiped, FaultKinds
<1>7. /\ TypeOK /\ AtHome /\ OwnInv /\ UniqueInv /\ AgeInv /\ Unwiped /\ [Next]_vars
      => [Contract!Next]_(Contract!vars)
  BY ContractNext DEF Contract!vars, Declared, Published, PublishedFor
<1> QED  BY <1>1, <1>2, <1>3, <1>4, <1>5, <1>6, <1>7, TypeCorrect, NamesKept, PTL
         DEF Spec, KeepsContract, Contract!Spec

----------------------------------------------------------------------------
(* Sharing: one SLO per service, whoever names the service *)

\* AtMostOnePerService is not inductive either: that create_slo adds no second SLO
\* rests on the search by service made just before.
ServiceInv ==
    /\ left["search"] = 0 /\ left["lost"] = 0
    /\ AtMostOnePerService
    /\ \A p \in Ops : h[p].pc = "create" =>
          \A i \in live : slos[i].service # h[p].spec.service

\* Resources of one group that name one service each name the same.
LEMMA GroupService ==
    ASSUME Steadily, NEW c \in Configs, NEW d \in Sharers(c),
           NEW s \in Declares[c], NEW t \in Declares[d]
    PROVE  s = t
<1>1. CASE d = c
  BY <1>1 DEF Steadily
<1>2. CASE d # c
  <2>1. PICK r : r \in Declares[c] /\ r \in Declares[d]
    BY <1>2 DEF Sharers
  <2>2. d \in Configs
    BY <1>2 DEF Sharers
  <2> QED  BY <2>1, <2>2 DEF Steadily
<1> QED  BY <1>1, <1>2

\* Datadog unchanged, and no handler gets to the post: still one per service.
LEMMA ServiceIdle ==
    ASSUME ServiceInv, TypeOK, [Next]_vars, live' \subseteq live, UNCHANGED slos,
           \A p \in Ops : h'[p].pc = "create" =>
              h[p].pc = "create" /\ h'[p].spec = h[p].spec
    PROVE  ServiceInv'
<1>1. left'["search"] = 0 /\ left'["lost"] = 0
  BY NeverSpent DEF ServiceInv
<1> QED  BY <1>1 DEF ServiceInv, AtMostOnePerService

\* The world around the reconciler and kopf create no SLO.
LEMMA ServiceAround ==
    ASSUME TypeOK, ServiceInv, [Next]_vars,
           Environment \/ Reindex \/ \E p \in Ops : Kopf(p)
    PROVE  ServiceInv'
<1>1. live' \subseteq live /\ UNCHANGED slos
  BY DEF Environment, Reindex, CreateCR, EditSpec, DeleteCR, ForeignWrite,
     RemoveSLO, Crash, Kopf, Deliver, IgnoreExcluded, BeginHandler, IgnoreEvent,
     HandleDelete, Finish, datadog
<1>2. \A p \in Ops : h'[p] = h[p] \/ h'[p].pc # "create"
  <2>1. ASSUME NEW p \in Ops, Crash(p)
        PROVE  \A q \in Ops : h'[q] = h[q] \/ h'[q].pc # "create"
    BY <2>1 DEF Crash, Enter, Idle, TypeOK
  <2>2. ASSUME NEW p \in Ops, NEW c \in Configs, BeginHandler(p, c)
        PROVE  \A q \in Ops : h'[q] = h[q] \/ h'[q].pc # "create"
    <3> DEFINE rejected == inbox[p][c].spec.content \in Invalid
               s == IF rejected THEN "getCR" ELSE "lookup"
               m == IF rejected THEN "error" ELSE "result"
    <3>1. /\ \A q \in Ops \ {p} : h'[q] = h[q]
          /\ h'[p] = [Idle EXCEPT !.pc = s, !.mode = m, !.cfg = c,
                                  !.spec = inbox[p][c].spec, !.known = inbox[p][c].sloId]
      BY <2>2 DEF BeginHandler, Enter, TypeOK
    <3>2. s # "create"
      OBVIOUS
    <3> HIDE DEF s, m
    <3>3. h'[p].pc = s
      BY <3>1 DEF Idle
    <3> QED  BY <3>1, <3>2, <3>3
  <2>3. UNCHANGED h \/ (\E p \in Ops : Crash(p))
                    \/ \E p \in Ops, c \in Configs : BeginHandler(p, c)
    BY DEF Environment, Reindex, CreateCR, EditSpec, DeleteCR, ForeignWrite,
       RemoveSLO, Kopf, Deliver, IgnoreExcluded, IgnoreEvent, HandleDelete, Finish
  <2> QED  BY <2>1, <2>2, <2>3
<1> QED  BY <1>1, <1>2, ServiceIdle

\* reconcile_slo puts without changing the service of an SLO, and posts only when
\* the service has none.
LEMMA ServiceReconcile ==
    ASSUME Steadily, Dependable, TypeOK, OwnInv, ServiceInv, [Next]_vars,
           NEW p \in Ops, Reconcile(p)
    PROVE  ServiceInv'
<1>1. index.live = live /\ index.slos = slos
  BY DEF Dependable, OwnInv, DatadogOwned
<1>2. ~Spend("lost") /\ \A s : ~SearchFailed(p, s)
  BY DEF ServiceInv, Spend, SearchFailed
<1>3. /\ \A q \in Ops : q = p
      /\ live \subseteq SloIds /\ live \subseteq used
      /\ left'["search"] = 0 /\ left'["lost"] = 0
  BY NeverSpent DEF Dependable, TypeOK, ServiceInv
<1>4. h[p].pc # "idle" /\ (Carries(p) \/ Leaves(p)) /\ Idle.pc = "idle"
  BY KeepsSnapshot DEF Idle
<1>5. ASSUME UNCHANGED <<live, slos>>, h'[p].pc = "create" => h[p].pc = "create"
      PROVE  ServiceInv'
  <2>1. h'[p].pc = "create" => h'[p].spec = h[p].spec
    BY <1>4 DEF Carries, Leaves
  <2> QED  BY <1>3, <1>5, <2>1, ServiceIdle
<1>6. ASSUME NEW s, Goto(p, s)
      PROVE  h'[p].pc = s
  BY <1>6, FrameGoto
<1>7. \A i : Enter(p, [h[p] EXCEPT !.pc = "update", !.slo = i]) => h'[p].pc = "update"
  BY FrameNext
<1>8. StatusFailed(p) \/ Conflict(p) \/ Yield(p) => h'[p].pc # "create"
  BY <1>4, FrameNext DEF Leaves
<1>9. CASE Lookup(p) \/ Detect(p)
  <2>1. h[p].pc # "create" /\ UNCHANGED datadog
    BY <1>9 DEF Lookup, Detect
  <2>2. \/ ChooseFramework(p) \/ ChoosePath(p) \/ Retry(p)
        \/ \E b, i : Outcome(p, b, i)
    BY <1>9 DEF Lookup, Detect
  <2>3. h'[p].pc # "create"
    BY <2>1, <2>2, FrameNext
  <2> QED  BY <1>5, <2>1, <2>3 DEF datadog
<1>10. CASE FindByUid(p)
  <2>1. \/ \E i : Enter(p, [h[p] EXCEPT !.pc = "update", !.slo = i])
        \/ Goto(p, "findService")
    BY <1>2, <1>10 DEF FindByUid
  <2>2. h'[p].pc # "create"
    BY <1>6, <1>7, <2>1
  <2> QED  BY <1>5, <1>10, <2>2 DEF FindByUid, datadog
<1>11. CASE FindByService(p)
  <2>1. UNCHANGED <<live, slos>>
    BY <1>11 DEF FindByService, datadog
  <2>2. CASE \E i \in index.live : \/ Outcome(p, TRUE, i)
                                   \/ Enter(p, [h[p] EXCEPT !.pc = "update", !.slo = i])
    BY <1>5, <2>1, <2>2, FrameNext
  <2>3. CASE /\ {i \in index.live : index.slos[i].service = h[p].spec.service} = {}
             /\ Goto(p, "create")
    <3>1. \A i \in live : slos[i].service # h[p].spec.service
      BY <1>1, <2>3
    <3>2. h'[p].spec = h[p].spec
      BY <2>3, FrameNext DEF Carries
    <3> QED  BY <1>3, <2>1, <3>1, <3>2 DEF ServiceInv, AtMostOnePerService
  <2> QED  BY <1>2, <1>11, <2>2, <2>3 DEF FindByService
<1>12. CASE Update(p)
  <2>1. h'[p].pc = "getCR"
    BY <1>12, FrameNext DEF Update
  <2>2. CASE UNCHANGED datadog
    BY <1>5, <2>1, <2>2 DEF datadog
  <2>3. CASE h[p].slo \in live /\ Store(h[p].slo, Desired(h[p]))
    <3>1. PICK i \in live : i = h[p].slo /\ i \in SloIds /\ i \in used /\ i # NoId
      BY <1>3, <2>3, IdsAssumption
    <3>2. slos[i].service = h[p].spec.service
      <4>1. /\ h[p].cfg \in Configs /\ h[p].spec.service \in Declares[h[p].cfg]
            /\ slos[i].uid \in Sharers(h[p].cfg)
            /\ slos[i].service \in Declares[slos[i].uid]
        BY <1>4, <3>1, Versions
           DEF OwnInv, HandlersOwned, FrameOwned, Owns, DatadogOwned
      <4> QED  BY <4>1, GroupService
    <3>3. /\ live' = live
          /\ \A j \in live : slos'[j].service = slos[j].service
      BY <1>3, <2>3, <3>1, <3>2 DEF Store, Desired, TypeOK
    <3>4. AtMostOnePerService'
      BY <3>3 DEF ServiceInv, AtMostOnePerService
    <3> QED  BY <1>3, <2>1, <3>4 DEF ServiceInv
  <2> QED  BY <1>12, <2>2, <2>3 DEF Update
<1>13. CASE Create(p)
  <2>1. /\ h[p].pc = "create"
        /\ \A i \in live : slos[i].service # h[p].spec.service
    BY <1>13 DEF Create, ServiceInv
  <2>2. CASE UNCHANGED datadog
    BY <1>5, <2>1, <2>2 DEF datadog
  <2>3. CASE \E i \in SloIds \ used : Store(i, Desired(h[p])) /\ Outcome(p, TRUE, i)
    <3>1. PICK i \in SloIds \ used : Store(i, Desired(h[p])) /\ Outcome(p, TRUE, i)
      BY <2>3
    <3>2. /\ live' = live \cup {i}
          /\ slos'[i].service = h[p].spec.service
          /\ \A j \in live : slos'[j] = slos[j]
      BY <1>3, <3>1 DEF Store, Desired, TypeOK
    <3>3. AtMostOnePerService'
      BY <2>1, <3>2 DEF ServiceInv, AtMostOnePerService
    <3>4. h'[p].pc = "getCR"
      BY <3>1, FrameNext
    <3> QED  BY <1>3, <3>3, <3>4 DEF ServiceInv
  <2> QED  BY <1>2, <1>13, <2>2, <2>3 DEF Create
<1>14. CASE GetCR(p)
  <2>1. Enter(p, [h[p] EXCEPT !.pc = "putStatus"]) \/ StatusFailed(p)
    BY <1>14 DEF GetCR
  <2>2. h'[p].pc # "create"
    BY <1>8, <2>1, FrameNext
  <2> QED  BY <1>5, <1>14, <2>2 DEF GetCR, datadog
<1>15. CASE PutStatus(p)
  <2>1. Yield(p) \/ Conflict(p) \/ StatusFailed(p)
    BY <1>15 DEF PutStatus
  <2>2. h'[p].pc # "create"
    BY <1>8, <2>1
  <2> QED  BY <1>5, <1>15, <2>2 DEF PutStatus, datadog
<1> QED  BY <1>9, <1>10, <1>11, <1>12, <1>13, <1>14, <1>15 DEF Reconcile

\* With one process, a search that answers truthfully and replies that arrive, a
\* service has one SLO however many SLOConfigs name it: a second one, or the successor
\* of a deleted one, adopts it through path C.  Each SLOConfig has to stay with the
\* service that it names.
THEOREM NoSecondForService ==
    ASSUME Steadily, Dependable
    PROVE  Spec => []AtMostOnePerService
<1>1. Init => OwnInv
  BY OwnInit
<1>2. TypeOK /\ AtHome /\ OwnInv /\ [Next]_vars => OwnInv'
  <2>1. Unmixed
    BY DEF Unmixed, Alone, Dependable
  <2> QED  BY <2>1, OwnNext, SteadyGroups
<1>3. Init => ServiceInv
  BY DEF Init, ServiceInv, AtMostOnePerService, Dependable, Idle
<1>4. TypeOK /\ OwnInv /\ ServiceInv /\ [Next]_vars => ServiceInv'
  <2> SUFFICES ASSUME TypeOK, OwnInv, ServiceInv, [Next]_vars
               PROVE  ServiceInv'
    OBVIOUS
  <2>1. CASE Environment \/ Reindex \/ \E p \in Ops : Kopf(p)
    BY <2>1, ServiceAround
  <2>2. CASE \E p \in Ops : Reconcile(p)
    BY <2>2, ServiceReconcile
  <2>3. CASE UNCHANGED vars
    BY <2>3, ServiceIdle DEF vars
  <2> QED  BY <2>1, <2>2, <2>3 DEF Next
<1>5. ServiceInv => AtMostOnePerService
  BY DEF ServiceInv
<1> QED  BY <1>1, <1>2, <1>3, <1>4, <1>5, TypeCorrect, NamesKept, PTL DEF Spec
=============================================================================
