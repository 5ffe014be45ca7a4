-------------------------- MODULE SLOProgressProofs --------------------------
(***************************************************************************)
(* That SLOReconciler gets on: no edit is forgotten, every handler ends,   *)
(* and what is recorded as handled is in Datadog.  With fairness, which is *)
(* left to TLC, these are what EveryEditHandled and Converges rest on.     *)
(***************************************************************************)
EXTENDS SLOReconcilerProofs

----------------------------------------------------------------------------
(* No edit is lost *)

\* The handler of p has the latest version of c, or is through with it.
Handles(p, c) ==
    \/ h[p].pc # "idle" /\ h[p].cfg = c /\ h[p].spec = cr[c].spec
    \/ finishing[p][c] = cr[c].spec

\* c waits for a handler.
Owed(c) ==
    \/ cr[c].phase = "live" /\ ~OnRecord(cr[c])
    \/ cr[c].phase = "terminating"

\* NoEditLost is not inductive: that a handler begins with the latest version
\* rests on what the event holds.  What p has of c is c as it is, unless the
\* watch stream has something newer.
EditKnown(p, c) ==
    /\ c \notin news[p] => inbox[p][c] \in {NoCR, cr[c]}
    /\ Owed(c) => StillToCome(p, c)

EditInv == \A p \in Ops, c \in Configs : EditKnown(p, c)

\* A process that hears of c again, or keeps what it has of an unchanged c, still
\* has its latest version to come.
LEMMA EditKept ==
    ASSUME NEW p \in Ops, NEW c \in Configs, EditKnown(p, c),
           \/ c \in news'[p]
           \/ /\ cr'[c] = cr[c] /\ inbox'[p][c] = inbox[p][c]
              /\ c \in news[p] => c \in news'[p]
              /\ cr[c].phase = "live" /\ Handles(p, c) => Handles(p, c)'
    PROVE  EditKnown(p, c)'
<1>1. CASE c \in news'[p]
  BY <1>1 DEF EditKnown, StillToCome
<1>2. CASE /\ cr'[c] = cr[c] /\ inbox'[p][c] = inbox[p][c]
           /\ c \in news[p] => c \in news'[p]
           /\ cr[c].phase = "live" /\ Handles(p, c) => Handles(p, c)'
  BY <1>2 DEF EditKnown, StillToCome, Handles, Owed
<1> QED  BY <1>1, <1>2

\* A write of c is news of c to every process, and no news of the others.
LEMMA WriteIsNews ==
    ASSUME TypeOK, NEW c \in Configs, NEW o, WriteCR(c, o)
    PROVE  /\ \A p \in Ops : c \in news'[p]
           /\ \A p \in Ops : news[p] \subseteq news'[p]
           /\ \A d \in Configs \ {c} : cr'[d] = cr[d]
           /\ cr'[c] = o
BY DEF TypeOK, WriteCR

\* A step of a handler either goes on with it or ends it at its await.
LEMMA HandlerStep ==
    ASSUME TypeOK, NEW p \in Ops, Reconcile(p)
    PROVE  /\ h[p].pc # "idle"
           /\ \/ Carries(p) /\ h'[p].pc # "idle" /\ UNCHANGED finishing
              \/ Leaves(p) /\ Yield(p)
<1>1. h[p].pc # "idle" /\ h[p] \in Frame
  BY KeepsSnapshot DEF TypeOK
<1>2. \A f : Enter(p, f) => h'[p] = f /\ \A q \in Ops \ {p} : h'[q] = h[q]
  BY DEF Enter, TypeOK
<1> DEFINE GoesOn == Carries(p) /\ h'[p].pc # "idle"
<1>9. /\ ChoosePath(p) \/ ChooseFramework(p) => GoesOn
      /\ Retry(p) => GoesOn
      /\ Enter(p, [h[p] EXCEPT !.pc = "putStatus"]) => GoesOn
      /\ \A i : Enter(p, [h[p] EXCEPT !.pc = "update", !.slo = i]) => GoesOn
      /\ \A b, i : Outcome(p, b, i) => GoesOn
  BY <1>1, FrameNext
<1>10. ASSUME NEW s \in Steps \ {"idle"}, Goto(p, s) \/ SearchFailed(p, s)
       PROVE  GoesOn
  BY <1>1, <1>10, FrameGoto, FrameSearch
<1>11. "findService" \in Steps \ {"idle"} /\ "create" \in Steps \ {"idle"}
  BY DEF Steps
<1>3. ASSUME StatusFailed(p)
      PROVE  \/ Carries(p) /\ h'[p].pc # "idle" /\ UNCHANGED finishing
             \/ Leaves(p) /\ Yield(p)
  <2>1. CASE h[p].mode = "result"
    <3> DEFINE f == [h[p] EXCEPT !.mode = "error", !.pc = "getCR", !.tries = 0]
    <3>1. Enter(p, f) /\ UNCHANGED finishing
      BY <1>3, <2>1 DEF StatusFailed
    <3>2. f.cfg = h[p].cfg /\ f.spec = h[p].spec /\ f.pc = "getCR"
      BY <1>1 DEF Frame
    <3> QED  BY <1>2, <3>1, <3>2 DEF Carries
  <2>2. CASE h[p].mode # "result"
    BY <1>3, <2>2, FrameNext DEF StatusFailed
  <2> QED  BY <2>1, <2>2
<1>4. ASSUME Conflict(p)
      PROVE  \/ Carries(p) /\ h'[p].pc # "idle" /\ UNCHANGED finishing
             \/ Leaves(p) /\ Yield(p)
  <2>1. CASE h[p].tries + 1 < StatusAttempts
    <3> DEFINE t == h[p].tries + 1
               f == [h[p] EXCEPT !.pc = "getCR", !.tries = t]
    <3>1. Enter(p, f) /\ UNCHANGED finishing
      BY <1>4, <2>1 DEF Conflict
    <3> HIDE DEF t
    <3>2. f.cfg = h[p].cfg /\ f.spec = h[p].spec /\ f.pc = "getCR"
      BY <1>1 DEF Frame
    <3> QED  BY <1>2, <3>1, <3>2 DEF Carries
  <2>2. CASE ~(h[p].tries + 1 < StatusAttempts)
    BY <1>4, <2>2, FrameNext DEF Conflict
  <2> QED  BY <2>1, <2>2
<1>5. CASE Lookup(p) \/ Detect(p) \/ FindByUid(p) \/ FindByService(p) \/ Update(p)
  <2>1. UNCHANGED finishing
    BY <1>5 DEF Lookup, Detect, FindByUid, FindByService, Update
  <2>2. CASE Lookup(p) \/ Detect(p)
    <3>1. \/ ChooseFramework(p) \/ ChoosePath(p) \/ Retry(p)
          \/ \E b, i : Outcome(p, b, i)
      BY <2>2 DEF Lookup, Detect
    <3> QED  BY <1>1, <1>9, <2>1, <3>1
  <2>3. CASE FindByUid(p)
    <3>1. \/ \E i : Enter(p, [h[p] EXCEPT !.pc = "update", !.slo = i])
          \/ Goto(p, "findService") \/ SearchFailed(p, "findService")
      BY <2>3 DEF FindByUid
    <3> QED  BY <1>1, <1>9, <1>10, <1>11, <2>1, <3>1
  <2>4. CASE FindByService(p)
    <3>1. \/ \E i : Enter(p, [h[p] EXCEPT !.pc = "update", !.slo = i])
          \/ \E b, i : Outcome(p, b, i)
          \/ Goto(p, "create") \/ SearchFailed(p, "create")
      BY <2>4 DEF FindByService
    <3> QED  BY <1>1, <1>9, <1>10, <1>11, <2>1, <3>1
  <2>5. CASE Update(p)
    <3>1. \E b, i : Outcome(p, b, i)
      BY <2>5 DEF Update
    <3> QED  BY <1>1, <1>9, <2>1, <3>1
  <2> QED  BY <1>5, <2>2, <2>3, <2>4, <2>5
<1>6. CASE Create(p)
  BY <1>1, <1>6, FrameNext DEF Create
<1>7. CASE GetCR(p)
  <2>1. \/ StatusFailed(p)
        \/ Enter(p, [h[p] EXCEPT !.pc = "putStatus"]) /\ UNCHANGED finishing
    BY <1>7 DEF GetCR
  <2> QED  BY <1>1, <1>3, <1>9, <2>1
<1>8. CASE PutStatus(p)
  BY <1>1, <1>3, <1>4, <1>8, FrameNext DEF PutStatus
<1> QED  BY <1>5, <1>6, <1>7, <1>8 DEF Reconcile

\* What a handler writes to the cluster is a status, of whatever has the name.
LEMMA HandlerWrites ==
    ASSUME NEW p \in Ops, Reconcile(p)
    PROVE  /\ UNCHANGED inbox
           /\ \/ UNCHANGED <<cr, news>>
              \/ \E d \in Bearers(h[p].cfg) : WriteCR(d, Reported(h[p], d))
BY DEF Reconcile, Lookup, Detect, FindByUid, FindByService, Update, Create, GetCR,
   PutStatus, cluster

\* Users, other clients and crashes lose nothing.
LEMMA EditEnvironment ==
    ASSUME TypeOK, EditInv, Environment \/ Reindex
    PROVE  EditInv'
<1> SUFFICES ASSUME NEW p \in Ops, NEW d \in Configs
             PROVE  EditKnown(p, d)'
  BY DEF EditInv
<1>1. EditKnown(p, d)
  BY DEF EditInv
<1>2. ASSUME NEW c \in Configs, NEW o, WriteCR(c, o), UNCHANGED <<inbox, h, finishing>>
      PROVE  EditKnown(p, d)'
  <2>1. CASE d = c
    BY <1>1, <1>2, <2>1, WriteIsNews, EditKept
  <2>2. CASE d # c
    <3>1. cr'[d] = cr[d] /\ news[p] \subseteq news'[p]
      BY <1>2, <2>2, WriteIsNews
    <3>2. Handles(p, d) => Handles(p, d)'
      BY <1>2, <3>1 DEF Handles
    <3> QED  BY <1>1, <1>2, <3>1, <3>2, EditKept
  <2> QED  BY <2>1, <2>2
<1>3. ASSUME UNCHANGED <<cluster, inbox, h, finishing>>
      PROVE  EditKnown(p, d)'
  <2>1. Handles(p, d) => Handles(p, d)'
    BY <1>3 DEF Handles, cluster
  <2> QED  BY <1>1, <1>3, <2>1, EditKept DEF cluster
<1>4. ASSUME NEW q \in Ops, Crash(q)
      PROVE  EditKnown(p, d)'
  <2>1. CASE p = q
    <3>1. cr' = cr /\ inbox'[p][d] = NoCR
      BY <1>4, <2>1 DEF Crash, TypeOK
    <3>2. cr[d].phase \in {"live", "terminating"} => d \in news'[p]
      BY <1>4, <2>1 DEF Crash, TypeOK
    <3> QED  BY <3>1, <3>2 DEF EditKnown, Owed, StillToCome
  <2>2. CASE p # q
    <3>1. /\ cr' = cr /\ inbox'[p] = inbox[p] /\ news'[p] = news[p]
          /\ h'[p] = h[p] /\ finishing'[p] = finishing[p]
      BY <1>4, <2>2 DEF Crash, Enter, TypeOK
    <3>2. Handles(p, d) => Handles(p, d)'
      BY <3>1 DEF Handles
    <3> QED  BY <1>1, <3>1, <3>2, EditKept
  <2> QED  BY <2>1, <2>2
<1>5. CASE \E c \in Configs : CreateCR(c) \/ EditSpec(c) \/ DeleteCR(c) \/ ForeignWrite(c)
  BY <1>2, <1>5 DEF CreateCR, EditSpec, DeleteCR, ForeignWrite
<1>6. CASE Reindex \/ \E i \in SloIds : RemoveSLO(i)
  BY <1>3, <1>6 DEF Reindex, RemoveSLO
<1> QED  BY <1>4, <1>5, <1>6 DEF Environment

\* kopf drops an event only when its handler begins, when it holds nothing new,
\* or when the object is released.
LEMMA EditKopf ==
    ASSUME TypeOK, NamesApart, EditInv, NEW q \in Ops, Kopf(q)
    PROVE  EditInv'
<1> SUFFICES ASSUME NEW p \in Ops, NEW d \in Configs
             PROVE  EditKnown(p, d)'
  BY DEF EditInv
<1>1. EditKnown(p, d)
  BY DEF EditInv
<1>2. PICK c \in Configs : \/ Deliver(q, c) \/ IgnoreExcluded(q, c)
                           \/ BeginHandler(q, c) \/ IgnoreEvent(q, c)
                           \/ HandleDelete(q, c) \/ Finish(q, c)
  BY DEF Kopf
<1>3. CASE ~(p = q /\ d = c)
  <2>1. h' = h \/ (h[q].pc = "idle" /\ \A r \in Ops \ {q} : h'[r] = h[r])
    BY <1>2 DEF Deliver, IgnoreExcluded, BeginHandler, IgnoreEvent, HandleDelete,
       Finish, Ready, Enter, TypeOK
  <2>2. inbox'[p][d] = inbox[p][d] /\ finishing'[p][d] = finishing[p][d]
    BY <1>2, <1>3 DEF Deliver, IgnoreExcluded, BeginHandler, IgnoreEvent, HandleDelete,
       Finish, Consume, TypeOK
  <2>3. \/ d \in news'[p]
        \/ cr'[d] = cr[d] /\ (d \in news[p] => d \in news'[p])
    <3>1. CASE Deliver(q, c)
      BY <1>3, <3>1 DEF Deliver, TypeOK
    <3>2. ASSUME NEW b \in Configs, NEW o, WriteCR(b, o)
          PROVE  d \in news'[p] \/ (cr'[d] = cr[d] /\ (d \in news[p] => d \in news'[p]))
      BY <3>2, WriteIsNews
    <3>3. CASE UNCHANGED cluster
      BY <3>3 DEF cluster
    <3>4. CASE HandleDelete(q, c) \/ Finish(q, c)
      BY <3>2, <3>3, <3>4 DEF HandleDelete, Finish, Bearers
    <3> QED  BY <1>2, <3>1, <3>3, <3>4 DEF IgnoreExcluded, BeginHandler, IgnoreEvent
  <2>4. cr'[d] = cr[d] => (Handles(p, d) => Handles(p, d)')
    <3>1. CASE h'[p] = h[p]
      BY <2>2, <3>1 DEF Handles
    <3>2. CASE h[p].pc = "idle"
      BY <2>2, <3>2 DEF Handles
    <3> QED  BY <2>1, <3>1, <3>2
  <2> QED  BY <1>1, <2>2, <2>3, <2>4, EditKept
<1>4. CASE p = q /\ d = c
  <2>1. CASE Deliver(q, c)
    <3>1. inbox'[p][d] = cr'[d]
      BY <1>4, <2>1 DEF Deliver, TypeOK
    <3> QED  BY <3>1 DEF EditKnown, StillToCome
  <2>2. CASE \E o : WriteCR(c, o)
    BY <1>1, <1>4, <2>2, WriteIsNews, EditKept
  <2>3. CASE Finish(q, c) /\ ~(\E o : WriteCR(c, o))
    <3>1. inbox' = inbox
      BY <2>3 DEF Finish
    <3>2. CASE Bearers(c) = {} /\ UNCHANGED cluster
      <4>1. cr[d].phase # "live"
        BY <1>4, <3>2 DEF Bearers
      <4> QED  BY <1>1, <3>1, <3>2, <4>1, EditKept DEF cluster
    <3>3. CASE \E b \in Bearers(c) : WriteCR(b, [cr[b] EXCEPT !.handled = finishing[q][c]])
      <4>1. PICK b \in Bearers(c) : WriteCR(b, [cr[b] EXCEPT !.handled = finishing[q][c]])
        BY <3>3
      <4>2. b \in Configs /\ b # c /\ Present(b) /\ Named[b] = Named[c]
        BY <2>3, <4>1 DEF Bearers, Present
      <4>3. cr[d].phase # "live"
        BY <1>4, <4>2 DEF NamesApart, Present
      <4>4. cr'[d] = cr[d] /\ (d \in news[p] => d \in news'[p])
        BY <1>4, <4>1, <4>2, WriteIsNews
      <4> QED  BY <1>1, <3>1, <4>3, <4>4, EditKept
    <3> QED  BY <2>3, <3>2, <3>3 DEF Finish
  <2>4. CASE IgnoreExcluded(q, c) \/ BeginHandler(q, c) \/ IgnoreEvent(q, c)
    <3>1. cr' = cr /\ news' = news /\ inbox'[p][d] = NoCR
      BY <1>4, <2>4 DEF IgnoreExcluded, BeginHandler, IgnoreEvent, Consume, TypeOK, cluster
    <3>2. CASE d \in news[p]
      BY <1>1, <3>1, <3>2, EditKept
    <3>3. CASE d \notin news[p]
      <4>1. inbox[p][d] = cr[d]
        BY <1>1, <1>4, <2>4, <3>3 DEF EditKnown, IgnoreExcluded, BeginHandler, IgnoreEvent,
           Ready, NoCR
      <4>2. CASE IgnoreExcluded(q, c)
        <5>1. cr[d].phase = "live" /\ finishing'[p][d] = cr[d].spec
          BY <1>4, <4>1, <4>2 DEF IgnoreExcluded, Changed, TypeOK
        <5> QED  BY <3>1, <5>1 DEF EditKnown, StillToCome
      <4>3. CASE BeginHandler(q, c)
        <5> DEFINE rejected == cr[d].spec.content \in Invalid
                   s == IF rejected THEN "getCR" ELSE "lookup"
                   m == IF rejected THEN "error" ELSE "result"
                   f == [Idle EXCEPT !.pc = s, !.mode = m, !.cfg = c,
                                     !.spec = cr[d].spec, !.known = cr[d].sloId]
        <5>1. h'[p] = f /\ cr[d].phase = "live"
          BY <1>4, <4>1, <4>3 DEF BeginHandler, Enter, TypeOK, Changed
        <5>2. f.pc # "idle" /\ f.cfg = d /\ f.spec = cr[d].spec
          BY <1>4 DEF Idle
        <5> HIDE DEF f
        <5> QED  BY <3>1, <5>1, <5>2 DEF EditKnown, StillToCome
      <4>4. CASE IgnoreEvent(q, c)
        <5>1. ~Owed(d)
          BY <1>4, <4>1, <4>4 DEF IgnoreEvent, Changed, Owed
        <5> QED  BY <3>1, <5>1 DEF EditKnown, Owed
      <4> QED  BY <2>4, <4>2, <4>3, <4>4
    <3> QED  BY <3>2, <3>3
  <2>5. HandleDelete(q, c) => \E o : WriteCR(c, o)
    BY DEF HandleDelete
  <2> QED  BY <1>2, <2>1, <2>2, <2>3, <2>4, <2>5
<1> QED  BY <1>3, <1>4

\* No resource has a handler while kopf has still to record what the one before it
\* was given, and what is there has a version.
Serial ==
    /\ \A p \in Ops : h[p].pc # "idle" => finishing[p][h[p].cfg] = NoSpec
    /\ \A c \in Configs : cr[c].phase = "live" => cr[c].spec.gen # 0

\* What is written of a resource carries a version on.
LEMMA VersionKept ==
    ASSUME TypeOK, Serial, [Next]_vars, NEW c \in Configs, cr'[c].phase = "live"
    PROVE  cr'[c].spec.gen # 0
<1>1. cr[c] \in CR /\ cr[c].spec.gen \in Nat
  BY BoundsAssumption DEF TypeOK, CR, Spec0, Gens
<1>2. ASSUME cr'[c].phase = cr[c].phase, cr'[c].spec = cr[c].spec
      PROVE  cr'[c].spec.gen # 0
  BY <1>2 DEF Serial
<1>3. ASSUME NEW d \in Configs, NEW o, WriteCR(d, o),
             \/ o.phase = cr[d].phase /\ o.spec = cr[d].spec
             \/ o.phase # "live"
             \/ o.spec.gen # 0
      PROVE  cr'[c].spec.gen # 0
  BY <1>2, <1>3, WriteIsNews
<1>4. CASE UNCHANGED cr
  BY <1>2, <1>4
<1>5. CASE Environment \/ Reindex
  <2>1. ASSUME NEW d \in Configs, CreateCR(d)
        PROVE  cr'[c].spec.gen # 0
    <3>1. PICK s \in Declares[d], k \in Contents :
             WriteCR(d, [NoCR EXCEPT !.phase = "live",
                                     !.spec = [service |-> s, content |-> k, gen |-> 1]])
      BY <2>1 DEF CreateCR
    <3>2. [NoCR EXCEPT !.phase = "live",
                       !.spec = [service |-> s, content |-> k, gen |-> 1]].spec.gen # 0
      BY DEF NoCR
    <3> QED  BY <1>3, <3>1, <3>2
  <2>2. ASSUME NEW d \in Configs, EditSpec(d)
        PROVE  cr'[c].spec.gen # 0
    <3>1. cr[d] \in CR /\ cr[d].spec.gen + 1 # 0
      BY BoundsAssumption DEF TypeOK, CR, Spec0, Gens
    <3> QED  BY <1>3, <2>2, <3>1 DEF EditSpec, CR
  <2>3. ASSUME NEW d \in Configs, DeleteCR(d) \/ ForeignWrite(d)
        PROVE  cr'[c].spec.gen # 0
    <3>1. cr[d] \in CR
      BY DEF TypeOK
    <3> QED  BY <1>3, <2>3, <3>1 DEF DeleteCR, ForeignWrite, CR
  <2> QED  BY <1>4, <1>5, <2>1, <2>2, <2>3 DEF Environment, Reindex, RemoveSLO, Crash, cluster
<1>6. ASSUME NEW p \in Ops, Kopf(p)
      PROVE  cr'[c].spec.gen # 0
  <2>1. PICK d \in Configs : \/ Deliver(p, d) \/ IgnoreExcluded(p, d)
                             \/ BeginHandler(p, d) \/ IgnoreEvent(p, d)
                             \/ HandleDelete(p, d) \/ Finish(p, d)
    BY <1>6 DEF Kopf
  <2>2. cr[d] \in CR
    BY DEF TypeOK
  <2>3. CASE HandleDelete(p, d)
    BY <1>3, <2>2, <2>3 DEF HandleDelete, CR
  <2>4. CASE Finish(p, d)
    BY <1>2, <2>4, FinishRecords
  <2> QED  BY <1>4, <2>1, <2>3, <2>4 DEF Deliver, IgnoreExcluded, BeginHandler, IgnoreEvent, cluster
<1>7. ASSUME NEW p \in Ops, Reconcile(p)
      PROVE  cr'[c].spec.gen # 0
  <2>1. ASSUME NEW d \in Configs, WriteCR(d, Reported(h[p], d))
        PROVE  cr'[c].spec.gen # 0
    <3>1. cr[d] \in CR
      BY DEF TypeOK
    <3>2. Reported(h[p], d).phase = cr[d].phase /\ Reported(h[p], d).spec = cr[d].spec
      BY <3>1 DEF Reported, CR
    <3> QED  BY <1>3, <2>1, <3>2
  <2> QED  BY <1>4, <1>7, <2>1, HandlerWrites DEF Bearers
<1> QED  BY <1>4, <1>5, <1>6, <1>7 DEF Next, vars

\* With any number of processes, a handler begins for a resource only after the one
\* before it is recorded.
LEMMA HandlersAreSerial == Spec => []Serial
<1>1. Init => Serial
  BY DEF Init, Serial, Idle, NoCR
<1>2. TypeOK /\ Serial /\ [Next]_vars => Serial'
  <2> SUFFICES ASSUME TypeOK, Serial, [Next]_vars, NEW p \in Ops, h'[p].pc # "idle"
               PROVE  finishing'[p][h'[p].cfg] = NoSpec
    BY VersionKept DEF Serial
  <2>1. CASE h'[p] = h[p] /\ finishing'[p] = finishing[p]
    BY <2>1 DEF Serial
  <2>2. CASE Environment \/ Reindex
    <3>1. ASSUME NEW q \in Ops, Crash(q)
          PROVE  finishing'[p][h'[p].cfg] = NoSpec
      <4>1. CASE p = q
        BY <3>1, <4>1 DEF Crash, Enter, Idle, TypeOK
      <4>2. CASE p # q
        BY <2>1, <3>1, <4>2 DEF Crash, Enter, TypeOK
      <4> QED  BY <4>1, <4>2
    <3> QED  BY <2>1, <2>2, <3>1 DEF Environment, Reindex, CreateCR, EditSpec, DeleteCR,
                ForeignWrite, RemoveSLO
  <2>3. ASSUME NEW q \in Ops, Kopf(q)
        PROVE  finishing'[p][h'[p].cfg] = NoSpec
    <3>1. PICK c \in Configs : \/ Deliver(q, c) \/ IgnoreExcluded(q, c)
                               \/ BeginHandler(q, c) \/ IgnoreEvent(q, c)
                               \/ HandleDelete(q, c) \/ Finish(q, c)
      BY <2>3 DEF Kopf
    <3>2. CASE BeginHandler(q, c) /\ p = q
      <4>1. finishing'[p] = finishing[p] /\ finishing[p][c] = NoSpec
        BY <3>2 DEF BeginHandler, Ready
      <4>2. h'[p].cfg = c
        BY <3>2 DEF BeginHandler, Enter, Idle, TypeOK
      <4> QED  BY <4>1, <4>2
    <3>3. CASE BeginHandler(q, c) /\ p # q
      BY <2>1, <3>3 DEF BeginHandler, Enter, TypeOK
    <3>4. CASE IgnoreExcluded(q, c) \/ Finish(q, c)
      <4>1. h' = h /\ h[q].pc = "idle"
        BY <3>4 DEF IgnoreExcluded, Finish, Ready
      <4>2. p # q /\ finishing'[p] = finishing[p]
        BY <3>4, <4>1 DEF IgnoreExcluded, Finish, TypeOK
      <4> QED  BY <2>1, <4>1, <4>2
    <3> QED  BY <2>1, <3>1, <3>2, <3>3, <3>4 DEF Deliver, IgnoreEvent, HandleDelete
  <2>4. ASSUME NEW q \in Ops, Reconcile(q)
        PROVE  finishing'[p][h'[p].cfg] = NoSpec
    <3>1. CASE Carries(q) /\ UNCHANGED finishing
      <4>1. h'[p].cfg = h[p].cfg /\ h[p].pc # "idle"
        BY <2>4, <3>1, HandlerStep DEF Carries
      <4> QED  BY <3>1, <4>1 DEF Serial
    <3>2. CASE Leaves(q) /\ Yield(q)
      <4>1. p # q /\ h'[p] = h[p]
        BY <3>2 DEF Leaves, Idle
      <4>2. finishing'[p] = finishing[p]
        BY <3>2, <4>1 DEF Yield, TypeOK
      <4> QED  BY <2>1, <4>1, <4>2
    <3> QED  BY <2>4, <3>1, <3>2, HandlerStep
  <2> QED  BY <2>1, <2>2, <2>3, <2>4 DEF Next, vars
<1> QED  BY <1>1, <1>2, TypeCorrect, PTL DEF Spec

\* A handler that reaches its await has its snapshot recorded next.
LEMMA EditReconcile ==
    ASSUME TypeOK, Serial, EditInv, NEW q \in Ops, Reconcile(q)
    PROVE  EditInv'
<1> SUFFICES ASSUME NEW p \in Ops, NEW d \in Configs
             PROVE  EditKnown(p, d)'
  BY DEF EditInv
<1>1. EditKnown(p, d) /\ h[q].cfg \in Configs
  BY DEF EditInv, TypeOK, Frame
<1>2. \/ d \in news'[p]
      \/ cr'[d] = cr[d] /\ (d \in news[p] => d \in news'[p])
  <2>1. ASSUME NEW b \in Configs, NEW o, WriteCR(b, o)
        PROVE  d \in news'[p] \/ (cr'[d] = cr[d] /\ (d \in news[p] => d \in news'[p]))
    BY <2>1, WriteIsNews
  <2> QED  BY <2>1, HandlerWrites DEF Bearers
<1>3. inbox' = inbox
  BY HandlerWrites
<1>4. cr'[d] = cr[d] => (cr[d].phase = "live" /\ Handles(p, d) => Handles(p, d)')
  <2>1. CASE Carries(q) /\ h'[q].pc # "idle" /\ UNCHANGED finishing
    BY <2>1 DEF Handles, Carries
  <2>2. CASE Leaves(q) /\ Yield(q)
    <3>1. CASE p = q
      <4>1. finishing'[p][d] = IF d = h[p].cfg THEN h[p].spec ELSE finishing[p][d]
        BY <1>1, <2>2, <3>1 DEF Yield, TypeOK
      <4>2. cr[d].phase = "live" /\ d = h[p].cfg => finishing[p][d] # cr[d].spec
        <5>1. NoSpec.gen = 0
          BY DEF NoSpec
        <5> QED  BY <3>1, <5>1, HandlerStep DEF Serial
      <4> QED  BY <4>1, <4>2 DEF Handles
    <3>2. CASE p # q
      <4>1. h'[p] = h[p] /\ finishing'[p] = finishing[p]
        BY <2>2, <3>2 DEF Leaves, Yield, TypeOK
      <4> QED  BY <4>1 DEF Handles
    <3> QED  BY <3>1, <3>2
  <2> QED  BY <2>1, <2>2, HandlerStep
<1> QED  BY <1>1, <1>2, <1>3, <1>4, EditKept

\* Every step keeps EditInv.
LEMMA EditNext == TypeOK /\ NamesApart /\ Serial /\ EditInv /\ [Next]_vars => EditInv'
<1> SUFFICES ASSUME TypeOK, NamesApart, Serial, EditInv, [Next]_vars
             PROVE  EditInv'
  OBVIOUS
<1>1. CASE UNCHANGED vars
  BY <1>1 DEF vars, EditInv, EditKnown, Owed, StillToCome
<1> QED  BY <1>1, EditEnvironment, EditKopf, EditReconcile DEF Next

\* With any number of processes, and whatever crashes, fails or conflicts: until the
\* text of an SLOConfig is the one on record, and until a deleted one is released, every
\* process has its latest version to come.  This is the safety half of EveryEditHandled.
THEOREM EditsAreKept == Spec => []NoEditLost
<1>1. Init => EditInv
  BY DEF Init, EditInv, EditKnown, Owed, NoCR
<1>2. TypeOK /\ AtHome /\ Serial /\ EditInv /\ [Next]_vars => EditInv'
  BY EditNext DEF AtHome
<1>3. EditInv => NoEditLost
  BY DEF EditInv, EditKnown, Owed, NoEditLost
<1> QED  BY <1>1, <1>2, <1>3, TypeCorrect, NamesKept, HandlersAreSerial,
            PTL DEF Spec

----------------------------------------------------------------------------
(* Every handler ends *)

\* No call is tried more often than its bound allows.
Tried(f) ==
    /\ f.pc = "lookup" => f.tries < CatalogCalls
    /\ f.pc \in {"findUid", "findService", "create"} => f.tries < MaxAttempts
    /\ f.pc \in {"getCR", "putStatus"} => f.tries < StatusAttempts

\* The bounds, and the attempts that a frame can count.
LEMMA Counts ==
    /\ MaxAttempts = 4 /\ StatusAttempts = 3 /\ CatalogCalls = 2 /\ DetectCalls = 18
    /\ StatusCalls = 6 /\ Tries = 0..17
    /\ \A f \in Frame : f.tries \in 0..17 /\ f.tries \in Nat /\ f.pc \in Steps
<1>1. MaxAttempts = 4 /\ StatusAttempts = 3 /\ CatalogCalls = 2 /\ DetectCalls = 18
  BY DEF MaxAttempts, StatusAttempts, CatalogCalls, DetectCalls
<1>2. StatusCalls = 6 /\ Tries = 0..17
  BY <1>1 DEF StatusCalls, Tries
<1> QED  BY <1>1, <1>2 DEF Frame

\* The calls a frame has left, by the step it is at.
LEMMA CallsOf ==
    ASSUME NEW f \in Frame
    PROVE  /\ f.pc = "idle" => CallsLeft(f) = 0
           /\ f.pc = "lookup" => CallsLeft(f) = 44 - f.tries
           /\ f.pc = "detect" => CallsLeft(f) = 42 - f.tries
           /\ f.pc = "findUid" => CallsLeft(f) = 24 - f.tries
           /\ f.pc = "findService" => CallsLeft(f) = 20 - f.tries
           /\ f.pc = "create" => CallsLeft(f) = 16 - f.tries
           /\ f.pc = "update" => CallsLeft(f) = 13
           /\ f.pc = "getCR" => CallsLeft(f) =
                 (IF f.mode = "result" THEN 12 ELSE 6) - 2 * f.tries
           /\ f.pc = "putStatus" => CallsLeft(f) =
                 (IF f.mode = "result" THEN 11 ELSE 5) - 2 * f.tries
<1>1. f.tries \in Nat /\ f.pc \in Steps
  BY Counts
<1>2. CASE f.pc = "idle"
  BY <1>2 DEF CallsLeft
<1>3. CASE f.pc = "lookup"
  BY <1>1, <1>3, Counts DEF CallsLeft
<1>4. CASE f.pc = "detect"
  BY <1>1, <1>4, Counts DEF CallsLeft
<1>5. CASE f.pc = "findUid"
  BY <1>1, <1>5, Counts DEF CallsLeft
<1>6. CASE f.pc = "findService"
  BY <1>1, <1>6, Counts DEF CallsLeft
<1>7. CASE f.pc = "create"
  BY <1>1, <1>7, Counts DEF CallsLeft
<1>8. CASE f.pc = "update"
  BY <1>1, <1>8, Counts DEF CallsLeft
<1>9. CASE f.pc = "getCR"
  BY <1>1, <1>9, Counts DEF CallsLeft
<1>10. CASE f.pc = "putStatus"
  BY <1>1, <1>10, Counts DEF CallsLeft
<1> QED  BY <1>1, <1>2, <1>3, <1>4, <1>5, <1>6, <1>7, <1>8, <1>9, <1>10 DEF Steps

\* Before the status, each step has more calls left than any of the steps after it.
LEMMA CallsBefore ==
    ASSUME NEW f \in Frame, Tried(f)
    PROVE  /\ f.pc = "lookup" => CallsLeft(f) \in 43..44
           /\ f.pc = "detect" => CallsLeft(f) \in 25..42
           /\ f.pc = "findUid" => CallsLeft(f) \in 21..24
           /\ f.pc = "findService" => CallsLeft(f) \in 17..20
           /\ f.pc = "create" => CallsLeft(f) \in 13..16
           /\ f.pc = "update" => CallsLeft(f) = 13
<1>1. f.tries \in 0..17
  BY Counts
<1>2. f.pc = "lookup" => f.tries \in 0..1
  BY <1>1, Counts DEF Tried
<1>3. f.pc \in {"findUid", "findService", "create"} => f.tries \in 0..3
  BY <1>1, Counts DEF Tried
<1> QED  BY <1>1, <1>2, <1>3, CallsOf

\* A frame that makes fewer calls than f.
Fewer(g, f) == g \in Frame /\ CallsLeft(g) \in 0..(CallsLeft(f) - 1) /\ Tried(g)

\* Where the building blocks lead, from a frame f with enough calls left.
LEMMA CallsFall ==
    ASSUME NEW f \in Frame, Tried(f)
    PROVE  /\ f.pc \in {"lookup", "findUid", "findService", "create", "update"} =>
                 \A b \in BOOLEAN, i \in Ids :
                    Fewer([f EXCEPT !.pc = "getCR", !.ok = b, !.slo = i, !.tries = 0], f)
           /\ f.pc \in {"findUid", "findService"} =>
                 \A i \in Ids : Fewer([f EXCEPT !.pc = "update", !.slo = i], f)
           /\ f.pc \in {"lookup", "detect"} =>
                 \A s \in {"update", "findUid"}, i \in Ids :
                    Fewer([f EXCEPT !.pc = s, !.slo = i, !.tries = 0], f)
           /\ f.pc = "lookup" => Fewer([f EXCEPT !.pc = "detect", !.tries = 0], f)
           /\ f.pc = "findUid" => Fewer([f EXCEPT !.pc = "findService", !.tries = 0], f)
           /\ f.pc = "findService" => Fewer([f EXCEPT !.pc = "create", !.tries = 0], f)
           /\ \/ f.pc = "lookup" /\ f.tries + 1 < CatalogCalls
              \/ f.pc = "detect" /\ f.tries + 1 < DetectCalls
              \/ /\ f.pc \in {"findUid", "findService", "create"}
                 /\ f.tries + 1 < MaxAttempts
              => Fewer([f EXCEPT !.tries = f.tries + 1], f)
           /\ f.pc = "getCR" => Fewer([f EXCEPT !.pc = "putStatus"], f)
           /\ f.pc = "putStatus" /\ f.tries + 1 < StatusAttempts =>
                 Fewer([f EXCEPT !.pc = "getCR", !.tries = f.tries + 1], f)
           /\ f.pc \in {"getCR", "putStatus"} /\ f.mode = "result" =>
                 Fewer([f EXCEPT !.mode = "error", !.pc = "getCR", !.tries = 0], f)
           /\ f.pc \in {"getCR", "putStatus"} => Fewer(Idle, f)
<1>1. f.tries \in 0..17 /\ f.tries \in Nat
  BY Counts
<1>2. ASSUME NEW g \in Frame, CallsLeft(g) \in Nat, CallsLeft(g) < CallsLeft(f),
             CallsLeft(f) \in Nat, Tried(g)
      PROVE  Fewer(g, f)
  BY <1>2 DEF Fewer
<1>3. ASSUME f.pc \in {"lookup", "findUid", "findService", "create", "update"},
             NEW b \in BOOLEAN, NEW i \in Ids
      PROVE  Fewer([f EXCEPT !.pc = "getCR", !.ok = b, !.slo = i, !.tries = 0], f)
  <2> DEFINE g == [f EXCEPT !.pc = "getCR", !.ok = b, !.slo = i, !.tries = 0]
  <2>1. g \in Frame /\ g.pc = "getCR" /\ g.tries = 0
    BY Values DEF Frame
  <2> HIDE DEF g
  <2>2. CallsLeft(g) \in {6, 12} /\ Tried(g)
    BY <2>1, Counts, CallsOf DEF Tried
  <2>3. CallsLeft(f) \in 13..44
    BY <1>3, CallsBefore
  <2>4. Fewer(g, f)
    BY <1>2, <2>1, <2>2, <2>3
  <2> QED  BY <2>4 DEF g
<1>4. ASSUME f.pc \in {"findUid", "findService"}, NEW i \in Ids
      PROVE  Fewer([f EXCEPT !.pc = "update", !.slo = i], f)
  <2> DEFINE g == [f EXCEPT !.pc = "update", !.slo = i]
  <2>1. g \in Frame /\ g.pc = "update"
    BY Values DEF Frame
  <2> HIDE DEF g
  <2>2. CallsLeft(g) = 13 /\ Tried(g)
    BY <2>1, CallsOf DEF Tried
  <2>3. CallsLeft(f) \in 17..24
    BY <1>4, CallsBefore
  <2>4. Fewer(g, f)
    BY <1>2, <2>1, <2>2, <2>3
  <2> QED  BY <2>4 DEF g
<1>5. ASSUME f.pc \in {"lookup", "detect"}, NEW s \in {"update", "findUid"}, NEW i \in Ids
      PROVE  Fewer([f EXCEPT !.pc = s, !.slo = i, !.tries = 0], f)
  <2> DEFINE g == [f EXCEPT !.pc = s, !.slo = i, !.tries = 0]
  <2>1. g \in Frame /\ g.pc = s /\ g.tries = 0
    BY Values DEF Frame
  <2> HIDE DEF g
  <2>2. CallsLeft(g) \in {13, 24} /\ Tried(g)
    BY <2>1, Counts, CallsOf DEF Tried
  <2>3. CallsLeft(f) \in 25..44
    BY <1>5, CallsBefore
  <2>4. Fewer(g, f)
    BY <1>2, <2>1, <2>2, <2>3
  <2> QED  BY <2>4 DEF g
<1>6. ASSUME NEW s \in {"detect", "findService", "create"},
             NEW n \in {42, 20, 16}, CallsLeft(f) \in (n + 1)..44,
             \A g \in Frame : g.pc = s => CallsLeft(g) = n - g.tries
      PROVE  Fewer([f EXCEPT !.pc = s, !.tries = 0], f)
  <2> DEFINE g == [f EXCEPT !.pc = s, !.tries = 0]
  <2>0. s \in Steps /\ 0 \in Tries
    BY Counts DEF Steps
  <2>1. g \in Frame /\ g.pc = s /\ g.tries = 0
    BY <2>0 DEF Frame
  <2> HIDE DEF g
  <2>2. Tried(g)
    BY <2>1, Counts DEF Tried
  <2>3. CallsLeft(g) = n
    BY <1>6, <2>1
  <2>4. Fewer(g, f)
    BY <1>2, <1>6, <2>1, <2>2, <2>3
  <2> QED  BY <2>4 DEF g
<1>14. ASSUME f.pc = "lookup"
       PROVE  Fewer([f EXCEPT !.pc = "detect", !.tries = 0], f)
  <2>1. CallsLeft(f) \in (42 + 1)..44
    BY <1>14, CallsBefore
  <2>2. \A g \in Frame : g.pc = "detect" => CallsLeft(g) = 42 - g.tries
    BY CallsOf
  <2> QED  BY <1>6, <2>1, <2>2
<1>15. ASSUME f.pc = "findUid"
       PROVE  Fewer([f EXCEPT !.pc = "findService", !.tries = 0], f)
  <2>1. CallsLeft(f) \in (20 + 1)..44
    BY <1>15, CallsBefore
  <2>2. \A g \in Frame : g.pc = "findService" => CallsLeft(g) = 20 - g.tries
    BY CallsOf
  <2> QED  BY <1>6, <2>1, <2>2
<1>16. ASSUME f.pc = "findService"
       PROVE  Fewer([f EXCEPT !.pc = "create", !.tries = 0], f)
  <2>1. CallsLeft(f) \in (16 + 1)..44
    BY <1>16, CallsBefore
  <2>2. \A g \in Frame : g.pc = "create" => CallsLeft(g) = 16 - g.tries
    BY CallsOf
  <2> QED  BY <1>6, <2>1, <2>2
<1>7. ASSUME \/ f.pc = "lookup" /\ f.tries + 1 < CatalogCalls
             \/ f.pc = "detect" /\ f.tries + 1 < DetectCalls
             \/ /\ f.pc \in {"findUid", "findService", "create"}
                /\ f.tries + 1 < MaxAttempts
      PROVE  Fewer([f EXCEPT !.tries = f.tries + 1], f)
  <2> DEFINE t == f.tries + 1
             g == [f EXCEPT !.tries = t]
  <2>1. t \in Tries /\ t \in 1..17 /\ t = f.tries + 1
    BY <1>1, <1>7, Counts
  <2> HIDE DEF t
  <2>2. g \in Frame /\ g.pc = f.pc /\ g.tries = t
    BY <2>1 DEF Frame
  <2> HIDE DEF g
  <2>3. Tried(g)
    BY <1>7, <2>1, <2>2 DEF Tried
  <2>4. CallsLeft(g) = CallsLeft(f) - 1
    BY <1>1, <1>7, <2>1, <2>2, CallsOf
  <2>5. CallsLeft(f) \in 13..44
    BY <1>7, CallsBefore
  <2>6. Fewer(g, f)
    BY <1>2, <2>2, <2>3, <2>4, <2>5
  <2> QED  BY <2>6 DEF g, t
<1>8. f.pc \in {"getCR", "putStatus"} => f.tries \in 0..2
  BY <1>1, Counts DEF Tried
<1>9. ASSUME f.pc = "getCR"
      PROVE  Fewer([f EXCEPT !.pc = "putStatus"], f)
  <2> DEFINE g == [f EXCEPT !.pc = "putStatus"]
             n == IF f.mode = "result" THEN 12 ELSE 6
  <2>1. g \in Frame /\ g.pc = "putStatus" /\ g.tries = f.tries /\ g.mode = f.mode
    BY Values DEF Frame
  <2> HIDE DEF g
  <2>2. n \in {6, 12} /\ CallsLeft(f) = n - 2 * f.tries
    BY <1>9, CallsOf
  <2>3. CallsLeft(g) = (n - 1) - 2 * f.tries
    BY <2>1, CallsOf
  <2> HIDE DEF n
  <2>4. Tried(g)
    BY <1>8, <1>9, <2>1, Counts DEF Tried
  <2>5. Fewer(g, f)
    BY <1>2, <1>8, <1>9, <2>1, <2>2, <2>3, <2>4
  <2> QED  BY <2>5 DEF g
<1>10. ASSUME f.pc = "putStatus", f.tries + 1 < StatusAttempts
       PROVE  Fewer([f EXCEPT !.pc = "getCR", !.tries = f.tries + 1], f)
  <2> DEFINE t == f.tries + 1
             g == [f EXCEPT !.pc = "getCR", !.tries = t]
             n == IF f.mode = "result" THEN 12 ELSE 6
  <2>1. t \in Tries /\ t \in 1..2 /\ t = f.tries + 1
    BY <1>1, <1>10, Counts
  <2> HIDE DEF t
  <2>2. g \in Frame /\ g.pc = "getCR" /\ g.tries = t /\ g.mode = f.mode
    BY <2>1, Values DEF Frame
  <2> HIDE DEF g
  <2>3. n \in {6, 12} /\ CallsLeft(g) = n - 2 * t
    BY <2>2, CallsOf
  <2>4. CallsLeft(f) = (n - 1) - 2 * f.tries
    BY <1>10, CallsOf
  <2> HIDE DEF n
  <2>5. Tried(g)
    BY <2>1, <2>2, Counts DEF Tried
  <2>6. f.tries \in {0, 1}
    BY <1>1, <2>1
  <2>7. CallsLeft(g) \in Nat /\ CallsLeft(f) \in Nat /\ CallsLeft(g) < CallsLeft(f)
    BY <2>1, <2>3, <2>4, <2>6
  <2>8. Fewer(g, f)
    BY <1>2, <2>2, <2>5, <2>7
  <2> QED  BY <2>8 DEF g, t
<1>11. ASSUME f.pc \in {"getCR", "putStatus"}
       PROVE  /\ f.mode = "result" => CallsLeft(f) \in 7..12
              /\ CallsLeft(f) \in 1..12
  <2>1. CASE f.mode = "result"
    BY <1>8, <1>11, <2>1, CallsOf
  <2>2. CASE f.mode # "result"
    BY <1>8, <1>11, <2>2, CallsOf
  <2> QED  BY <2>1, <2>2
<1>12. ASSUME f.pc \in {"getCR", "putStatus"}, f.mode = "result"
       PROVE  Fewer([f EXCEPT !.mode = "error", !.pc = "getCR", !.tries = 0], f)
  <2> DEFINE g == [f EXCEPT !.mode = "error", !.pc = "getCR", !.tries = 0]
  <2>1. g \in Frame /\ g.pc = "getCR" /\ g.tries = 0 /\ g.mode = "error"
    BY Values DEF Frame
  <2> HIDE DEF g
  <2>2. CallsLeft(g) = 6 /\ Tried(g)
    BY <2>1, Counts, CallsOf DEF Tried
  <2>3. Fewer(g, f)
    BY <1>2, <1>11, <1>12, <2>1, <2>2
  <2> QED  BY <2>3 DEF g
<1>13. ASSUME f.pc \in {"getCR", "putStatus"}
       PROVE  Fewer(Idle, f)
  <2>1. Idle \in Frame /\ Idle.pc = "idle"
    BY DefaultsOK DEF Idle
  <2>2. CallsLeft(Idle) = 0 /\ Tried(Idle)
    BY <2>1, CallsOf DEF Tried
  <2> QED  BY <1>2, <1>11, <1>13, <2>1, <2>2
<1> QED  BY <1>3, <1>4, <1>5, <1>7, <1>9, <1>10, <1>12, <1>13, <1>14, <1>15, <1>16

\* Every call of a handler brings it nearer to its end.
LEMMA HandlerFalls ==
    ASSUME TypeOK, NEW p \in Ops, Reconcile(p), Tried(h[p])
    PROVE  Fewer(h'[p], h[p])
<1>1. h[p] \in Frame /\ h[p].known \in Ids /\ h[p].tries \in Tries
  BY DEF TypeOK, Frame
<1>2. \A f : Enter(p, f) => h'[p] = f
  BY DEF Enter, TypeOK
<1>3. ASSUME h[p].pc \in {"lookup", "findUid", "findService", "create", "update"},
             NEW b \in BOOLEAN, NEW i \in Ids, Outcome(p, b, i)
      PROVE  Fewer(h'[p], h[p])
  <2>1. h'[p] = [h[p] EXCEPT !.pc = "getCR", !.ok = b, !.slo = i, !.tries = 0]
    BY <1>2, <1>3 DEF Outcome
  <2>2. Fewer([h[p] EXCEPT !.pc = "getCR", !.ok = b, !.slo = i, !.tries = 0], h[p])
    BY <1>1, <1>3, CallsFall
  <2> QED  BY <2>1, <2>2
<1>4. ASSUME h[p].pc \in {"getCR", "putStatus"}, StatusFailed(p)
      PROVE  Fewer(h'[p], h[p])
  <2>1. CASE h[p].mode = "result"
    BY <1>1, <1>2, <1>4, <2>1, CallsFall DEF StatusFailed
  <2>2. CASE h[p].mode # "result"
    BY <1>1, <1>2, <1>4, <2>2, CallsFall DEF StatusFailed, Yield
  <2> QED  BY <2>1, <2>2
<1>5. ASSUME h[p].pc \in {"lookup", "detect"}, ChoosePath(p)
      PROVE  Fewer(h'[p], h[p])
  <2> DEFINE s == IF h[p].known # NoId THEN "update" ELSE "findUid"
  <2>1. s \in {"update", "findUid"} /\ h'[p] = [h[p] EXCEPT !.pc = s, !.slo = h[p].known,
                                                        !.tries = 0]
    BY <1>2, <1>5 DEF ChoosePath
  <2> HIDE DEF s
  <2>2. Fewer([h[p] EXCEPT !.pc = s, !.slo = h[p].known, !.tries = 0], h[p])
    BY <1>1, <1>5, <2>1, CallsFall
  <2> QED  BY <2>1, <2>2
<1>6. /\ h[p].pc = "lookup" /\ Goto(p, "detect") => Fewer(h'[p], h[p])
      /\ h[p].pc = "findUid" /\ Goto(p, "findService") => Fewer(h'[p], h[p])
      /\ h[p].pc = "findService" /\ Goto(p, "create") => Fewer(h'[p], h[p])
  <2>1. \A s : Goto(p, s) => h'[p] = [h[p] EXCEPT !.pc = s, !.tries = 0]
    BY <1>2 DEF Goto
  <2> QED  BY <1>1, <2>1, CallsFall
<1>7. ASSUME Retry(p),
             \/ h[p].pc = "lookup" /\ h[p].tries + 1 < CatalogCalls
             \/ h[p].pc = "detect" /\ h[p].tries + 1 < DetectCalls
             \/ /\ h[p].pc \in {"findUid", "findService", "create"}
                /\ h[p].tries + 1 < MaxAttempts
      PROVE  Fewer(h'[p], h[p])
  <2>1. h'[p] = [h[p] EXCEPT !.tries = h[p].tries + 1]
    BY <1>2, <1>7 DEF Retry
  <2>2. Fewer([h[p] EXCEPT !.tries = h[p].tries + 1], h[p])
    BY <1>1, <1>7, CallsFall
  <2> QED  BY <2>1, <2>2
<1>8. ASSUME h[p].pc \in {"findUid", "findService"}, NEW i \in index.live,
             Enter(p, [h[p] EXCEPT !.pc = "update", !.slo = i])
      PROVE  Fewer(h'[p], h[p])
  <2>1. i \in Ids
    BY Values DEF TypeOK
  <2>2. Fewer([h[p] EXCEPT !.pc = "update", !.slo = i], h[p])
    BY <1>1, <1>8, <2>1, CallsFall
  <2> QED  BY <1>2, <1>8, <2>2
<1>9. CASE Lookup(p)
  <2>1. h[p].pc = "lookup"
    BY <1>9 DEF Lookup
  <2>2. ChooseFramework(p) => Fewer(h'[p], h[p])
    BY <1>5, <1>6, <2>1 DEF ChooseFramework
  <2>3. Retry(p) /\ h[p].tries + 1 < CatalogCalls => Fewer(h'[p], h[p])
    BY <1>7, <2>1
  <2>4. Outcome(p, FALSE, NoId) => Fewer(h'[p], h[p])
    BY <1>3, <2>1, Values
  <2> QED  BY <1>9, <2>2, <2>3, <2>4 DEF Lookup
<1>10. CASE Detect(p)
  BY <1>5, <1>7, <1>10 DEF Detect
<1>11. CASE FindByUid(p)
  <2>1. h[p].pc = "findUid"
    BY <1>11 DEF FindByUid
  <2>2. Goto(p, "findService") => Fewer(h'[p], h[p])
    BY <1>6, <2>1
  <2>3. SearchFailed(p, "findService") => Fewer(h'[p], h[p])
    BY <1>7, <2>1, <2>2 DEF SearchFailed
  <2> QED  BY <1>8, <1>11, <2>1, <2>2, <2>3 DEF FindByUid
<1>12. CASE FindByService(p)
  <2>1. h[p].pc = "findService" /\ index.live \subseteq Ids
    BY <1>12, Values DEF FindByService, TypeOK
  <2>2. Goto(p, "create") => Fewer(h'[p], h[p])
    BY <1>6, <2>1
  <2>3. SearchFailed(p, "create") => Fewer(h'[p], h[p])
    BY <1>7, <2>1, <2>2 DEF SearchFailed
  <2>4. \/ Goto(p, "create") \/ SearchFailed(p, "create")
        \/ \E i \in index.live : \/ Enter(p, [h[p] EXCEPT !.pc = "update", !.slo = i])
                                 \/ Outcome(p, TRUE, i)
    BY <1>12 DEF FindByService
  <2> QED  BY <1>3, <1>8, <2>1, <2>2, <2>3, <2>4
<1>13. CASE Update(p)
  <2>1. h[p].pc = "update" /\ \E b \in BOOLEAN : Outcome(p, b, h[p].slo)
    BY <1>13 DEF Update
  <2>2. h[p].slo \in Ids
    BY <1>1 DEF Frame
  <2> QED  BY <1>3, <2>1, <2>2
<1>14. CASE Create(p)
  <2>1. h[p].pc = "create"
    BY <1>14 DEF Create
  <2>2. RetryCreate(p) => Fewer(h'[p], h[p])
    BY <1>3, <1>7, <2>1, Values DEF RetryCreate
  <2> QED  BY <1>3, <1>14, <2>1, <2>2, Values DEF Create
<1>15. CASE GetCR(p)
  <2>1. \/ Enter(p, [h[p] EXCEPT !.pc = "putStatus"]) \/ StatusFailed(p)
    BY <1>15 DEF GetCR
  <2> QED  BY <1>1, <1>2, <1>4, <1>15, <2>1, CallsFall DEF GetCR
<1>16. CASE PutStatus(p)
  <2>1. Yield(p) \/ Conflict(p) \/ StatusFailed(p)
    BY <1>16 DEF PutStatus
  <2>2. h[p].pc = "putStatus"
    BY <1>16 DEF PutStatus
  <2>3. Yield(p) => Fewer(h'[p], h[p])
    BY <1>1, <1>2, <2>2, CallsFall DEF Yield
  <2>4. Conflict(p) => Fewer(h'[p], h[p])
    BY <1>1, <1>2, <2>2, <2>3, CallsFall DEF Conflict
  <2> QED  BY <1>4, <2>1, <2>2, <2>3, <2>4
<1> QED  BY <1>9, <1>10, <1>11, <1>12, <1>13, <1>14, <1>15, <1>16 DEF Reconcile

\* The attempts stay within their numbers.
TriedInv == \A p \in Ops : Tried(h[p])

\* They are counted in the handlers only.
LEMMA TriedNext == TypeOK /\ TriedInv /\ [Next]_vars => TriedInv'
<1> SUFFICES ASSUME TypeOK, TriedInv, [Next]_vars, NEW q \in Ops
             PROVE  Tried(h[q])'
  BY DEF TriedInv
<1>1. Tried(h[q])
  BY DEF TriedInv
<1>2. ASSUME NEW p \in Ops, Reconcile(p)
      PROVE  Tried(h[q])'
  <2>1. CASE p = q
    BY <1>1, <1>2, <2>1, HandlerFalls DEF Fewer, Tried
  <2>2. CASE p # q
    <3>1. h'[q] = h[q]
      BY <1>2, <2>2, KeepsSnapshot DEF Carries, Leaves
    <3> QED  BY <1>1, <3>1 DEF Tried
  <2> QED  BY <2>1, <2>2
<1>3. UNCHANGED h => Tried(h[q])'
  BY <1>1
<1>4. ASSUME NEW p \in Ops, NEW c \in Configs, BeginHandler(p, c)
      PROVE  Tried(h[q])'
  <2> DEFINE rejected == inbox[p][c].spec.content \in Invalid
             s == IF rejected THEN "getCR" ELSE "lookup"
             m == IF rejected THEN "error" ELSE "result"
             f == [Idle EXCEPT !.pc = s, !.mode = m, !.cfg = c,
                               !.spec = inbox[p][c].spec, !.known = inbox[p][c].sloId]
  <2>1. h' = [h EXCEPT ![p] = f]
    BY <1>4 DEF BeginHandler, Enter
  <2>2. f.tries = 0
    BY DEF Idle
  <2> HIDE DEF f
  <2>3. h'[q] = h[q] \/ h'[q] = f
    BY <2>1 DEF TypeOK
  <2> QED  BY <1>1, <2>2, <2>3, Counts DEF Tried
<1>5. ASSUME NEW p \in Ops, Crash(p)
      PROVE  Tried(h[q])'
  <2>1. (h'[q] = h[q] \/ h'[q] = Idle) /\ Idle.pc = "idle"
    BY <1>5 DEF Crash, Enter, TypeOK, Idle
  <2> QED  BY <1>1, <2>1 DEF Tried
<1>6. CASE UNCHANGED vars
  BY <1>3, <1>6 DEF vars
<1>7. CASE Environment \/ Reindex
  BY <1>3, <1>5, <1>7 DEF Environment, Reindex, CreateCR, EditSpec, DeleteCR, ForeignWrite,
     RemoveSLO
<1>8. CASE \E p \in Ops : Kopf(p)
  BY <1>3, <1>4, <1>8 DEF Kopf, Deliver, IgnoreExcluded, IgnoreEvent, HandleDelete, Finish
<1> QED  BY <1>2, <1>6, <1>7, <1>8 DEF Next

\* Whatever its calls answer, and however many processes there are, every call of a handler
\* leaves it with fewer calls to make: it ends after at most 44 of them, and returns to
\* kopf.  With NoEditLost, this is what EveryEditHandled needs besides fairness.
THEOREM EveryHandlerEnds == Spec => HandlersEnd
<1>1. Init => TriedInv
  BY DEF Init, TriedInv, Tried, Idle
<1>2. TypeOK /\ TriedInv /\ [Next]_vars => TriedInv'
  BY TriedNext
<1>3. TypeOK /\ TriedInv
      => [\A p \in Ops :
            Reconcile(p) => CallsLeft(h'[p]) \in 0..(CallsLeft(h[p]) - 1)]_vars
  BY HandlerFalls DEF TriedInv, Fewer
<1> QED  BY <1>1, <1>2, <1>3, TypeCorrect, PTL DEF Spec, HandlersEnd

----------------------------------------------------------------------------
(* What has been handled is in Datadog *)

\* What the code needs for it, beyond Dependable: no call fails for good, nobody
\* deletes SLOs in the console, and conflicts are fewer than the attempts of the
\* status writer.  Crashes, edits and deletions of resources are allowed.
Forgiving ==
    /\ \A k \in {"update", "create", "kube", "wipe"} : Budget[k] = 0
    /\ RequireCatalog => Budget["lookup"] = 0
    /\ Budget["conflict"] < StatusAttempts

Excused == {"search", "lost", "update", "create", "kube", "wipe"}

\* The faults that are excluded have not happened, and conflicts are counted.
Harmless ==
    /\ \A k \in Excused : left[k] = 0
    /\ RequireCatalog => left["lookup"] = 0
    /\ left["conflict"] <= Budget["conflict"]
    /\ live = used

\* What was recorded as handled, or waits to be, is not newer than the event that
\* waits, the snapshot of the handler and the resource.
InTurn ==
    /\ \A c \in Configs : cr[c].handled.gen <= cr[c].spec.gen
    /\ \A p \in Ops, c \in Configs :
          /\ finishing[p][c].gen <= cr[c].spec.gen
          /\ inbox[p][c].phase # "absent" =>
                /\ finishing[p][c].gen <= inbox[p][c].spec.gen
                /\ cr[c].handled.gen <= inbox[p][c].spec.gen
    /\ \A p \in Ops : h[p].pc # "idle" =>
          /\ h[p].cfg \notin Excluded
          /\ finishing[p][h[p].cfg] = NoSpec
          /\ cr[h[p].cfg].handled.gen <= h[p].spec.gen

\* No fault is ever given back.
LEMMA LeftFalls ==
    ASSUME TypeOK, NEW kind \in FaultKinds, [Next]_vars
    PROVE  left'[kind] <= left[kind]
<1>1. ASSUME NEW k \in FaultKinds, Spend(k)
      PROVE  left'[kind] <= left[kind]
  <2>1. left[kind] \in Nat /\ left[k] \in Nat
    BY DEF TypeOK
  <2>2. left'[kind] = IF kind = k THEN left[k] - 1 ELSE left[kind]
    BY <1>1 DEF Spend, TypeOK
  <2> QED  BY <1>1, <2>1, <2>2 DEF Spend
<1>2. UNCHANGED left => left'[kind] <= left[kind]
  BY DEF TypeOK
<1>3. CASE Environment \/ Reindex
  BY <1>1, <1>2, <1>3 DEF Environment, Reindex, CreateCR, EditSpec, DeleteCR,
     ForeignWrite, RemoveSLO, Crash, FaultKinds
<1>4. ASSUME NEW p \in Ops, Kopf(p)
      PROVE  UNCHANGED left
  BY <1>4 DEF Kopf, Deliver, IgnoreExcluded, BeginHandler, IgnoreEvent,
     HandleDelete, Finish
<1>5. ASSUME NEW p \in Ops, Reconcile(p)
      PROVE  left'[kind] <= left[kind]
  <2>1. (\E k \in FaultKinds : Spend(k)) \/ UNCHANGED left
    BY <1>5 DEF Reconcile, Lookup, Detect, FindByUid, FindByService, SearchFailed, Update,
       Create, GetCR, PutStatus, FaultKinds
  <2> QED  BY <1>1, <1>2, <2>1
<1>6. UNCHANGED vars => UNCHANGED left
  BY DEF vars
<1> QED  BY <1>2, <1>3, <1>4, <1>5, <1>6 DEF Next

\* What is excluded stays excluded, and no SLO disappears.
LEMMA HarmlessNext ==
    ASSUME TypeOK, Harmless, [Next]_vars
    PROVE  Harmless'
<1>1. \A k \in Excused : left'[k] = 0
  BY StaysSpent DEF Harmless, Excused, FaultKinds
<1>2. RequireCatalog => left'["lookup"] = 0
  BY StaysSpent DEF Harmless, FaultKinds
<1>3. left'["conflict"] <= Budget["conflict"]
  <2>1. left'["conflict"] <= left["conflict"]
    BY LeftFalls DEF FaultKinds
  <2>2. left'["conflict"] \in Nat /\ left["conflict"] \in Nat /\ Budget["conflict"] \in Nat
    BY NextType, BoundsAssumption DEF TypeOK, FaultKinds
  <2> QED  BY <2>1, <2>2 DEF Harmless
<1>4. live' = used'
  <2>1. ~Spend("wipe")
    BY DEF Harmless, Spend, Excused
  <2>2. (live' = live /\ used' = used) \/ \E i, s : Store(i, s)
    <3>1. CASE Environment \/ Reindex
      BY <2>1, <3>1 DEF Environment, Reindex, CreateCR, EditSpec, DeleteCR, ForeignWrite,
         RemoveSLO, Crash, datadog
    <3>2. CASE \E p \in Ops : Kopf(p)
      BY <3>2 DEF Kopf, Deliver, IgnoreExcluded, BeginHandler, IgnoreEvent, HandleDelete,
         Finish, datadog
    <3>3. CASE \E p \in Ops : Reconcile(p)
      BY <3>3 DEF Reconcile, Lookup, Detect, FindByUid, FindByService, Update, Create, GetCR,
         PutStatus, datadog
    <3>4. CASE UNCHANGED vars
      BY <3>4 DEF vars
    <3> QED  BY <3>1, <3>2, <3>3, <3>4 DEF Next
  <2> QED  BY <2>2 DEF Harmless, Store
<1> QED  BY <1>1, <1>2, <1>3, <1>4 DEF Harmless

\* The numbers that InTurn compares.
LEMMA TurnTypes ==
    ASSUME TypeOK
    PROVE  /\ \A c \in Configs :
                 /\ cr[c] \in CR /\ cr[c].handled.gen \in Nat /\ cr[c].spec.gen \in Nat
                 /\ cr[c].spec \in Spec0
           /\ \A p \in Ops, c \in Configs :
                 finishing[p][c].gen \in Nat /\ inbox[p][c].spec.gen \in Nat
           /\ \A p \in Ops : h[p].cfg \in Configs /\ h[p].spec.gen \in Nat
           /\ NoSpec.gen = 0
<1>1. \A sp \in Spec0 : sp.gen \in Nat
  BY BoundsAssumption DEF Spec0, Gens
<1>2. \A c \in Configs : cr[c] \in CR /\ cr[c].handled \in Spec0 /\ cr[c].spec \in Spec0
  BY DEF TypeOK, CR
<1>3. \A p \in Ops, c \in Configs : finishing[p][c] \in Spec0 /\ inbox[p][c].spec \in Spec0
  BY DEF TypeOK, CR
<1>4. \A p \in Ops : h[p].cfg \in Configs /\ h[p].spec \in Spec0
  BY DEF TypeOK, Frame
<1>5. NoSpec.gen = 0
  BY DEF NoSpec
<1> QED  BY <1>1, <1>2, <1>3, <1>4, <1>5

\* What the world does to a resource: it appears, gets a new version, begins to be
\* deleted, or is written as it is.
LEMMA WorldMoves ==
    ASSUME TypeOK, AgeInv, Environment \/ Reindex, NEW c \in Configs
    PROVE  \/ cr'[c] = cr[c]
           \/ /\ cr'[c].spec.gen = cr[c].spec.gen + 1
              /\ cr'[c].handled = cr[c].handled \/ cr'[c].handled = NoSpec
              /\ cr[c].phase = "live" \/ cr[c].spec.gen = 0
           \/ /\ cr[c].phase = "live" /\ cr'[c].phase = "terminating"
              /\ cr'[c].spec = cr[c].spec /\ cr'[c].handled = cr[c].handled
<1>1. cr[c] \in CR /\ (cr[c].phase = "absent" => cr[c].spec.gen = 0) /\ cr[c].spec.gen \in Nat
  BY TurnTypes DEF AgeInv, ObjectsAge
<1>2. ASSUME NEW d \in Configs, NEW o, WriteCR(d, o)
      PROVE  cr'[c] = IF c = d THEN o ELSE cr[c]
  BY <1>2 DEF WriteCR, TypeOK
<1>3. ASSUME NEW d \in Configs, CreateCR(d)
      PROVE  \/ cr'[c] = cr[c]
             \/ /\ cr'[c].spec.gen = cr[c].spec.gen + 1 /\ cr'[c].handled = NoSpec
                /\ cr[c].spec.gen = 0
  <2>1. PICK s, k : WriteCR(d, [NoCR EXCEPT !.phase = "live",
                                  !.spec = [service |-> s, content |-> k, gen |-> 1]])
    BY <1>3 DEF CreateCR
  <2> DEFINE sp == [service |-> s, content |-> k, gen |-> 1]
             o == [NoCR EXCEPT !.phase = "live", !.spec = sp]
  <2>2. sp.gen = 1
    OBVIOUS
  <2>3. cr'[c] = IF c = d THEN o ELSE cr[c]
    BY <1>2, <2>1
  <2> HIDE DEF sp
  <2>4. o.spec = sp /\ o.handled = NoSpec
    BY DEF NoCR
  <2>5. CASE c = d
    <3>1. cr[c].spec.gen = 0
      BY <1>1, <1>3, <2>5 DEF CreateCR
    <3> QED  BY <2>2, <2>3, <2>4, <2>5, <3>1
  <2> QED  BY <2>3, <2>5
<1>4. ASSUME NEW d \in Configs, EditSpec(d)
      PROVE  \/ cr'[c] = cr[c]
             \/ /\ cr'[c].spec.gen = cr[c].spec.gen + 1 /\ cr'[c].handled = cr[c].handled
                /\ cr[c].phase = "live"
  <2>1. PICK s, k : WriteCR(d, [cr[d] EXCEPT !.spec = [service |-> s, content |-> k,
                                             gen |-> cr[d].spec.gen + 1]])
    BY <1>4 DEF EditSpec
  <2> DEFINE sp == [service |-> s, content |-> k, gen |-> cr[c].spec.gen + 1]
  <2>2. c = d => cr'[c] = [cr[c] EXCEPT !.spec = sp]
    BY <1>2, <2>1
  <2>3. sp.gen = cr[c].spec.gen + 1
    OBVIOUS
  <2>4. c # d => cr'[c] = cr[c]
    BY <1>2, <2>1
  <2> HIDE DEF sp
  <2>5. c = d => cr'[c].spec = sp /\ cr'[c].handled = cr[c].handled
    BY <1>1, <2>2 DEF CR
  <2> QED  BY <1>4, <2>3, <2>4, <2>5 DEF EditSpec
<1>5. ASSUME NEW d \in Configs, DeleteCR(d)
      PROVE  \/ cr'[c] = cr[c]
             \/ /\ cr[c].phase = "live" /\ cr'[c].phase = "terminating"
                /\ cr'[c].spec = cr[c].spec /\ cr'[c].handled = cr[c].handled
  <2>1. cr'[c] = IF c = d THEN [cr[d] EXCEPT !.phase = "terminating"] ELSE cr[c]
    BY <1>2, <1>5 DEF DeleteCR
  <2> QED  BY <1>1, <1>5, <2>1 DEF DeleteCR, CR
<1>6. ASSUME NEW d \in Configs, ForeignWrite(d)
      PROVE  cr'[c] = cr[c]
  BY <1>2, <1>6 DEF ForeignWrite
<1>7. CASE Reindex \/ (\E i \in SloIds : RemoveSLO(i)) \/ (\E p \in Ops : Crash(p))
  BY <1>7 DEF Reindex, RemoveSLO, Crash, cluster
<1> QED  BY <1>3, <1>4, <1>5, <1>6, <1>7 DEF Environment

\* In the environment only a crash touches events and handlers.
LEMMA WorldOrCrash ==
    ASSUME Alone, TypeOK, Environment \/ Reindex
    PROVE  \/ UNCHANGED <<inbox, h, finishing>>
           \/ \A p \in Ops : /\ h'[p] = Idle
                             /\ \A c \in Configs : inbox'[p][c] = NoCR /\ finishing'[p][c] = NoSpec
<1>1. ASSUME NEW p \in Ops, Crash(p)
      PROVE  \A q \in Ops : /\ h'[q] = Idle
                            /\ \A c \in Configs : inbox'[q][c] = NoCR /\ finishing'[q][c] = NoSpec
  BY <1>1 DEF Crash, Enter, TypeOK, Alone
<1> QED  BY <1>1 DEF Environment, CreateCR, EditSpec, DeleteCR, ForeignWrite, RemoveSLO, Reindex

\* The order of handling survives what the world does.
LEMMA TurnEnvironment ==
    ASSUME Alone, TypeOK, AgeInv, InTurn, Environment \/ Reindex
    PROVE  InTurn'
<1>1. \A c \in Configs :
         /\ cr'[c].handled.gen \in Nat /\ cr'[c].spec.gen \in Nat
         /\ cr'[c].handled.gen <= cr[c].handled.gen /\ cr[c].spec.gen <= cr'[c].spec.gen
  BY WorldMoves, TurnTypes
<1>2. CASE UNCHANGED <<inbox, h, finishing>>
  BY <1>1, <1>2, TurnTypes DEF InTurn
<1>3. CASE \A p \in Ops : /\ h'[p] = Idle
                          /\ \A c \in Configs : inbox'[p][c] = NoCR /\ finishing'[p][c] = NoSpec
  <2>1. Idle.pc = "idle" /\ NoCR.phase = "absent"
    BY DEF Idle, NoCR
  <2> QED  BY <1>1, <1>3, <2>1, TurnTypes DEF InTurn
<1> QED  BY <1>2, <1>3, WorldOrCrash

\* A single process finds the resource whose handler returned, and records its snapshot.
LEMMA KopfRecords ==
    ASSUME Alone, TypeOK, AtHome, NEW q \in Ops, NEW c \in Configs, Finish(q, c)
    PROVE  /\ \A d \in Configs \ {c} : cr'[d] = cr[d]
           /\ cr'[c].spec = cr[c].spec /\ cr'[c].phase = cr[c].phase
           /\ cr'[c].sloId = cr[c].sloId /\ cr'[c].state = cr[c].state
           /\ cr'[c].handled = finishing[q][c]
<1>1. Bearers(c) = {c}
  BY FoundThere DEF Finish
<1>2. WriteCR(c, [cr[c] EXCEPT !.handled = finishing[q][c]])
  BY <1>1 DEF Finish
<1>3. cr[c] \in CR /\ cr' = [cr EXCEPT ![c] = [cr[c] EXCEPT !.handled = finishing[q][c]]]
  BY <1>2 DEF WriteCR, TypeOK
<1> QED  BY <1>3 DEF TypeOK, CR

\* It finds the resource of its handler too: the status is written there, or nowhere.
LEMMA WriterWrites ==
    ASSUME Alone, TypeOK, AtHome, NEW q \in Ops, Reconcile(q)
    PROVE  /\ Bearers(h[q].cfg) = {h[q].cfg}
           /\ \A d \in Configs : /\ cr'[d].spec = cr[d].spec /\ cr'[d].phase = cr[d].phase
                                 /\ cr'[d].handled = cr[d].handled
           /\ inbox' = inbox
<1>1. h[q].cfg \in Configs /\ h[q].pc # "idle" /\ cr[h[q].cfg] \in CR
  BY TurnTypes, HandlerStep
<1>2. Bearers(h[q].cfg) = {h[q].cfg}
  BY <1>1, FoundThere
<1>3. CASE UNCHANGED <<cr, news>>
  BY <1>2, <1>3, HandlerWrites
<1>4. CASE WriteCR(h[q].cfg, Reported(h[q], h[q].cfg))
  <2> DEFINE i == IF h[q].mode = "result" THEN h[q].slo ELSE NoId
             z == IF h[q].mode = "result" /\ h[q].ok THEN "ok" ELSE "error"
             o == [cr[h[q].cfg] EXCEPT !.sloId = i, !.state = z, !.shown = h[q].spec]
  <2>1. cr' = [cr EXCEPT ![h[q].cfg] = o]
    BY <1>4 DEF WriteCR, Reported
  <2> HIDE DEF i, z
  <2>2. /\ o.spec = cr[h[q].cfg].spec /\ o.handled = cr[h[q].cfg].handled
        /\ o.phase = cr[h[q].cfg].phase
    BY <1>1 DEF CR
  <2> QED  BY <1>1, <1>2, <2>1, <2>2, HandlerWrites DEF TypeOK
<1> QED  BY <1>2, <1>3, <1>4, HandlerWrites

\* Events, beginnings and ends of handlers keep the order.
LEMMA TurnKopf ==
    ASSUME Alone, TypeOK, AtHome, AgeInv, InTurn, NEW q \in Ops, Kopf(q)
    PROVE  InTurn'
<1>1. PICK c \in Configs : \/ Deliver(q, c) \/ IgnoreExcluded(q, c)
                           \/ BeginHandler(q, c) \/ IgnoreEvent(q, c)
                           \/ HandleDelete(q, c) \/ Finish(q, c)
  BY DEF Kopf
<1>2. \A p \in Ops : p = q
  BY DEF Alone
<1>3. NoCR.phase = "absent"
  BY DEF NoCR
<1>4. /\ cr[c] \in CR /\ cr[c].handled.gen \in Nat /\ cr[c].spec.gen \in Nat
      /\ finishing[q][c].gen \in Nat /\ inbox[q][c].spec.gen \in Nat
      /\ NoSpec.gen = 0
  BY TurnTypes
<1>5. inbox[q][c].phase # "absent" => inbox[q][c].spec.gen <= cr[c].spec.gen
  <2>1. EventAge(c, inbox[q][c])
    BY DEF AgeInv
  <2> QED  BY <1>4, <2>1 DEF EventAge, Follows
<1>6. CASE Deliver(q, c)
  <2>1. \A d \in Configs : inbox'[q][d] = IF d = c THEN cr[d] ELSE inbox[q][d]
    BY <1>6 DEF Deliver, TypeOK
  <2> QED  BY <1>2, <1>6, <2>1 DEF Deliver, InTurn
<1>7. CASE IgnoreExcluded(q, c)
  <2>1. /\ \A d \in Configs : inbox'[q][d] = IF d = c THEN NoCR ELSE inbox[q][d]
        /\ \A d \in Configs : finishing'[q][d] = IF d = c THEN inbox[q][c].spec
                                                 ELSE finishing[q][d]
        /\ h' = h /\ h[q].pc = "idle" /\ cr' = cr /\ inbox[q][c].phase # "absent"
    BY <1>7 DEF IgnoreExcluded, Ready, Consume, TypeOK, cluster
  <2> QED  BY <1>2, <1>3, <1>4, <1>5, <2>1 DEF InTurn
<1>8. CASE BeginHandler(q, c)
  <2> DEFINE rejected == inbox[q][c].spec.content \in Invalid
             s == IF rejected THEN "getCR" ELSE "lookup"
             m == IF rejected THEN "error" ELSE "result"
             f == [Idle EXCEPT !.pc = s, !.mode = m, !.cfg = c,
                               !.spec = inbox[q][c].spec, !.known = inbox[q][c].sloId]
  <2>1. /\ \A d \in Configs : inbox'[q][d] = IF d = c THEN NoCR ELSE inbox[q][d]
        /\ finishing' = finishing /\ cr' = cr /\ finishing[q][c] = NoSpec
        /\ inbox[q][c].phase # "absent" /\ c \notin Excluded
    BY <1>8 DEF BeginHandler, Ready, Consume, TypeOK, cluster
  <2>2. h'[q] = f
    BY <1>8 DEF BeginHandler, Enter, TypeOK
  <2>3. f.cfg = c /\ f.spec = inbox[q][c].spec
    BY DEF Idle
  <2> HIDE DEF f
  <2> QED  BY <1>2, <1>3, <2>1, <2>2, <2>3 DEF InTurn
<1>9. CASE IgnoreEvent(q, c)
  <2>1. /\ \A d \in Configs : inbox'[q][d] = IF d = c THEN NoCR ELSE inbox[q][d]
        /\ finishing' = finishing /\ cr' = cr /\ h' = h
    BY <1>9 DEF IgnoreEvent, Consume, TypeOK, cluster
  <2> QED  BY <1>2, <1>3, <2>1 DEF InTurn
<1>10. CASE HandleDelete(q, c)
  <2>1. /\ \A d \in Configs : inbox'[q][d] = IF d = c THEN NoCR ELSE inbox[q][d]
        /\ finishing' = finishing /\ h' = h
        /\ \A d \in Configs : cr'[d] = IF d = c THEN [cr[c] EXCEPT !.phase = "gone"] ELSE cr[d]
    BY <1>10 DEF HandleDelete, Consume, WriteCR, TypeOK
  <2>2. \A d \in Configs : cr'[d].spec = cr[d].spec /\ cr'[d].handled = cr[d].handled
    BY <1>4, <2>1 DEF CR
  <2>3. h[q].cfg \in Configs
    BY TurnTypes
  <2> QED  BY <1>2, <1>3, <2>1, <2>2, <2>3 DEF InTurn
<1>11. CASE Finish(q, c)
  <2>1. /\ \A d \in Configs : finishing'[q][d] = IF d = c THEN NoSpec ELSE finishing[q][d]
        /\ inbox' = inbox /\ h' = h /\ h[q].pc = "idle"
    BY <1>11 DEF Finish, TypeOK
  <2>2. /\ \A d \in Configs \ {c} : cr'[d] = cr[d]
        /\ cr'[c].spec = cr[c].spec /\ cr'[c].handled = finishing[q][c]
    BY <1>11, KopfRecords
  <2> QED  BY <1>2, <1>4, <2>1, <2>2, TurnTypes DEF InTurn
<1> QED  BY <1>1, <1>6, <1>7, <1>8, <1>9, <1>10, <1>11

\* So does the handler: what it leaves for kopf to record is its snapshot.
LEMMA TurnReconcile ==
    ASSUME Alone, TypeOK, AtHome, AgeInv, InTurn, NEW q \in Ops, Reconcile(q)
    PROVE  InTurn'
<1>1. \A p \in Ops : p = q
  BY DEF Alone
<1>2. /\ h[q].cfg \in Configs /\ h[q].spec.gen \in Nat /\ NoSpec.gen = 0
      /\ \A d \in Configs : cr[d].spec.gen \in Nat /\ inbox[q][d].spec.gen \in Nat
  BY TurnTypes
<1>3. /\ \A d \in Configs : cr'[d].spec = cr[d].spec /\ cr'[d].handled = cr[d].handled
      /\ inbox' = inbox
  BY WriterWrites
<1>4. h[q].pc # "idle"
  BY HandlerStep
<1>5. CASE Carries(q) /\ h'[q].pc # "idle" /\ UNCHANGED finishing
  <2>1. h'[q].cfg = h[q].cfg /\ h'[q].spec = h[q].spec
    BY <1>5 DEF Carries
  <2> QED  BY <1>1, <1>2, <1>3, <1>4, <1>5, <2>1 DEF InTurn
<1>6. CASE Leaves(q) /\ Yield(q)
  <2>1. \A d \in Configs : finishing'[q][d] = IF d = h[q].cfg THEN h[q].spec
                                             ELSE finishing[q][d]
    BY <1>6 DEF Yield, TypeOK
  <2>2. h'[q].pc = "idle"
    BY <1>6 DEF Leaves, Idle
  <2>3. /\ h[q].spec.gen <= cr[h[q].cfg].spec.gen
        /\ inbox[q][h[q].cfg].phase # "absent" => h[q].spec.gen <= inbox[q][h[q].cfg].spec.gen
    <3>1. FrameAge(h[q], inbox[q][h[q].cfg])
      BY DEF AgeInv
    <3> QED  BY <1>2, <1>4, <3>1 DEF FrameAge, Follows
  <2> QED  BY <1>1, <1>2, <1>3, <2>1, <2>2, <2>3 DEF InTurn
<1> QED  BY <1>5, <1>6, HandlerStep

\* Every step keeps the order of handling.
LEMMA TurnNext ==
    Alone /\ TypeOK /\ AtHome /\ AgeInv /\ InTurn /\ [Next]_vars => InTurn'
<1>1. CASE UNCHANGED vars
  BY <1>1 DEF vars, InTurn
<1> QED  BY <1>1, TurnEnvironment, TurnKopf, TurnReconcile DEF Next

\* The conflicts that the status writer has met, or is about to meet.
Met(p) == h[p].tries + IF h[p].pc = "putStatus" /\ p \notin current THEN 1 ELSE 0

\* A handler that writes a status has something true to report, and meets fewer
\* conflicts than it makes attempts unless somebody has edited the resource.
FrameSettled(p) ==
    h[p].pc \in {"getCR", "putStatus"} /\ cr[h[p].cfg].phase = "live" =>
        /\ h[p].mode = "error" => h[p].spec.content \in Invalid
        /\ h[p].mode = "result" =>
              h[p].ok /\ h[p].slo \in live /\ slos[h[p].slo] = Desired(h[p])
        /\ h[p].spec.gen = cr[h[p].cfg].spec.gen =>
              Met(p) + left["conflict"] <= Budget["conflict"]

\* Before it comes to the status it has nothing to apologise for.
FrameFresh(p) == h[p].pc \notin {"idle", "getCR", "putStatus"} => h[p].mode = "result"

\* The handler of the latest version is through.
Through(c) ==
    \/ cr[c].handled.gen = cr[c].spec.gen
    \/ \E p \in Ops : finishing[p][c].gen = cr[c].spec.gen

\* An SLOConfig that is through is in sync, if it is wanted at all.
ResourceSettled(c) == Wanted(c) /\ Through(c) => InSync(c)

\* HandledMeansInSync is not inductive: a handler waits at its await between the status
\* and the record, and the next one is under way while the record stands.
SettledInv ==
    /\ \A c \in Configs : ResourceSettled(c)
    /\ \A p \in Ops : FrameSettled(p) /\ FrameFresh(p)

\* A handler of a version that is handled, or that is the latest, has the latest spec.
LEMMA LatestFrame ==
    ASSUME TypeOK, AgeInv, InTurn, NEW p \in Ops, h[p].pc # "idle",
           cr[h[p].cfg].handled.gen = cr[h[p].cfg].spec.gen \/ h[p].spec.gen = cr[h[p].cfg].spec.gen
    PROVE  h[p].spec = cr[h[p].cfg].spec
<1>1. h[p].cfg \in Configs /\ h[p].spec.gen \in Nat /\ cr[h[p].cfg].spec.gen \in Nat
  BY TurnTypes
<1>2. Follows(cr[h[p].cfg].spec, h[p].spec)
  BY DEF AgeInv, FrameAge
<1>3. cr[h[p].cfg].handled.gen <= h[p].spec.gen
  BY DEF InTurn
<1> QED  BY <1>1, <1>2, <1>3 DEF Follows

\* What does not touch a resource nor take its handler further leaves it settled.
LEMMA SettledQuiet ==
    ASSUME NEW c \in Configs, ResourceSettled(c),
           Wanted(c)' => /\ cr'[c].phase = cr[c].phase /\ cr'[c].spec = cr[c].spec
                         /\ cr'[c].sloId = cr[c].sloId /\ cr'[c].state = cr[c].state
                         /\ Through(c)' => Through(c),
           live \subseteq live',
           cr[c].sloId \in live => slos'[cr[c].sloId] = slos[cr[c].sloId]
    PROVE  ResourceSettled(c)'
BY DEF ResourceSettled, Wanted, InSync

\* A copy that a handler has fetched goes stale without a change of the resource only
\* when another client's write is charged for it.
LEMMA StaleIsCharged ==
    ASSUME Alone, TypeOK, AtHome, Environment \/ Reindex, NEW p \in Ops,
           h[p].pc # "idle", h'[p] = h[p], cr'[h[p].cfg] = cr[h[p].cfg],
           p \in current, p \notin current'
    PROVE  left'["conflict"] = left["conflict"] - 1
<1>1. h[p].cfg \in Configs /\ cr[h[p].cfg] \in CR /\ cr[h[p].cfg].spec.gen \in Nat
  BY TurnTypes
<1>0. Bearers(h[p].cfg) = {h[p].cfg}
  BY <1>1, FoundThere
<1>2. ASSUME NEW d \in Configs, NEW o, WriteCR(d, o)
      PROVE  /\ Named[d] = Named[h[p].cfg]
             /\ cr[d].phase = "live" => d = h[p].cfg /\ cr[d] = o
  <2>1. Named[d] = Named[h[p].cfg]
    BY <1>1, <1>2 DEF WriteCR, TypeOK
  <2>2. ASSUME cr[d].phase = "live"
        PROVE  d = h[p].cfg /\ cr[d] = o
    <3>1. d \in Bearers(h[p].cfg)
      BY <2>1, <2>2 DEF Bearers
    <3> QED  BY <1>0, <1>1, <1>2, <3>1 DEF WriteCR, TypeOK
  <2> QED  BY <2>1, <2>2
<1>3. ASSUME NEW d \in Configs, CreateCR(d)
      PROVE  FALSE
  <2>1. PICK s, k : WriteCR(d, [NoCR EXCEPT !.phase = "live",
                                  !.spec = [service |-> s, content |-> k, gen |-> 1]])
    BY <1>3 DEF CreateCR
  <2>2. Named[d] = Named[h[p].cfg] /\ Bearers(d) = {}
    BY <1>2, <1>3, <2>1 DEF CreateCR
  <2>3. Bearers(d) = Bearers(h[p].cfg)
    BY <2>2 DEF Bearers
  <2> QED  BY <1>0, <2>2, <2>3
<1>4. ASSUME NEW d \in Configs, EditSpec(d)
      PROVE  FALSE
  <2>1. PICK s, k : WriteCR(d, [cr[d] EXCEPT !.spec = [service |-> s, content |-> k,
                                             gen |-> cr[d].spec.gen + 1]])
    BY <1>4 DEF EditSpec
  <2> DEFINE sp == [service |-> s, content |-> k, gen |-> cr[d].spec.gen + 1]
             o == [cr[d] EXCEPT !.spec = sp]
  <2>2. d = h[p].cfg /\ cr[d] = o
    BY <1>2, <1>4, <2>1 DEF EditSpec
  <2>3. sp.gen = cr[d].spec.gen + 1
    OBVIOUS
  <2> HIDE DEF sp
  <2>4. o.spec = sp
    BY <1>1, <2>2 DEF CR
  <2>5. cr[d].spec = sp
    BY <2>2, <2>4
  <2> QED  BY <1>1, <2>2, <2>3, <2>5
<1>5. ASSUME NEW d \in Configs, DeleteCR(d)
      PROVE  FALSE
  <2>1. d = h[p].cfg /\ cr[d] = [cr[d] EXCEPT !.phase = "terminating"]
    BY <1>2, <1>5 DEF DeleteCR
  <2> QED  BY <1>1, <1>5, <2>1 DEF DeleteCR, CR
<1>6. ~Reindex /\ ~(\E i \in SloIds : RemoveSLO(i))
  BY DEF Reindex, RemoveSLO, cluster
<1>7. ~\E q \in Ops : Crash(q)
  BY DEF Crash, Enter, TypeOK, Alone, Idle
<1>8. PICK d \in Configs : ForeignWrite(d)
  BY <1>3, <1>4, <1>5, <1>6, <1>7 DEF Environment
<1> QED  BY <1>8 DEF ForeignWrite, Spend, TypeOK, FaultKinds

\* Users, other clients and crashes settle nothing and unsettle nothing.
LEMMA SettledEnvironment ==
    ASSUME Dependable, TypeOK, TypeOK', AtHome, AgeInv, Harmless, InTurn, SettledInv,
           Environment \/ Reindex
    PROVE  SettledInv'
<1>1. Alone /\ (\A p, q \in Ops : p = q)
  BY DEF Dependable, Alone
<1>2. UNCHANGED <<live, slos>>
  <2>1. ~Spend("wipe")
    BY DEF Harmless, Spend, Excused
  <2> QED  BY <2>1 DEF Environment, Reindex, CreateCR, EditSpec, DeleteCR, ForeignWrite,
             RemoveSLO, Crash, datadog
<1>3. ASSUME NEW c \in Configs
      PROVE  ResourceSettled(c)'
  <2>1. /\ cr[c].handled.gen \in Nat /\ cr[c].spec.gen \in Nat
        /\ cr[c].handled.gen <= cr[c].spec.gen
        /\ \A p \in Ops : finishing[p][c].gen \in Nat /\ finishing[p][c].gen <= cr[c].spec.gen
        /\ cr[c].phase = "live" => cr[c].spec.gen # 0
        /\ NoSpec.gen = 0
    BY TurnTypes DEF InTurn, AgeInv, ObjectsAge
  <2>2. \A p \in Ops : finishing'[p][c] = finishing[p][c] \/ finishing'[p][c] = NoSpec
    BY <1>1, WorldOrCrash
  <2>3. CASE cr'[c] = cr[c]
    <3>1. Wanted(c)' => (Through(c)' => Through(c))
      BY <2>1, <2>2, <2>3 DEF Wanted, Through
    <3> QED  BY <1>2, <2>3, <3>1, SettledQuiet DEF SettledInv
  <2>4. CASE /\ cr'[c].spec.gen = cr[c].spec.gen + 1
             /\ cr'[c].handled = cr[c].handled \/ cr'[c].handled = NoSpec
    <3>1. ~Through(c)'
      BY <2>1, <2>2, <2>4 DEF Through
    <3> QED  BY <3>1 DEF ResourceSettled
  <2>5. CASE cr'[c].phase = "terminating"
    BY <2>5 DEF ResourceSettled, Wanted
  <2> QED  BY <2>3, <2>4, <2>5, WorldMoves
<1>4. ASSUME NEW p \in Ops
      PROVE  FrameSettled(p)' /\ FrameFresh(p)'
  <2> DEFINE c == h[p].cfg
  <2>1. c \in Configs /\ FrameSettled(p) /\ FrameFresh(p)
    BY TurnTypes DEF SettledInv
  <2>2. CASE h'[p] = Idle
    BY <2>2 DEF FrameSettled, FrameFresh, Idle
  <2>3. CASE UNCHANGED <<inbox, h, finishing>>
    <3>1. FrameFresh(p)'
      BY <2>1, <2>3 DEF FrameFresh
    <3>2. CASE h[p].pc # "idle" /\ cr'[c] = cr[c]
      <4>1. /\ left["conflict"] \in Nat /\ left'["conflict"] \in Nat /\ Budget["conflict"] \in Nat
            /\ h[p].tries \in Nat
        <5>1. h[p] \in Frame
          BY DEF TypeOK
        <5> QED  BY <5>1, BoundsAssumption DEF TypeOK, FaultKinds, Frame, Tries
      <4>2. Met(p)' + left'["conflict"] <= Met(p) + left["conflict"]
        <5>1. CASE p \in current' \/ p \notin current
          <6>1. Met(p)' <= Met(p) /\ Met(p) \in Nat /\ Met(p)' \in Nat
            BY <2>3, <4>1, <5>1 DEF Met
          <6>2. left'["conflict"] <= left["conflict"]
            BY LeftFalls DEF FaultKinds, Next
          <6> QED  BY <4>1, <6>1, <6>2
        <5>2. CASE h[p].pc # "idle" /\ p \in current /\ p \notin current'
          <6>1. left'["conflict"] = left["conflict"] - 1
            BY <1>1, <2>3, <3>2, <5>2, StaleIsCharged
          <6>2. Met(p)' <= Met(p) + 1 /\ Met(p) \in Nat /\ Met(p)' \in Nat
            BY <2>3, <4>1, <5>2 DEF Met
          <6> QED  BY <4>1, <6>1, <6>2
        <5> QED  BY <3>2, <5>1, <5>2
      <4>3. Met(p) \in Nat /\ Met(p)' \in Nat
        BY <2>3, <4>1 DEF Met
      <4>4. cr'[h'[p].cfg] = cr[h[p].cfg] /\ h'[p] = h[p]
        BY <2>3, <3>2
      <4>5. \A n \in Nat : Met(p) + left["conflict"] <= n => Met(p)' + left'["conflict"] <= n
        BY <4>1, <4>2, <4>3
      <4> QED  BY <1>2, <2>1, <3>1, <4>1, <4>4, <4>5 DEF FrameSettled, Desired
    <3>3. CASE h[p].pc # "idle" /\ cr'[c].spec.gen = cr[c].spec.gen + 1
               /\ (cr[c].phase = "live" \/ cr[c].spec.gen = 0)
      <4>1. /\ cr[c].spec.gen \in Nat /\ h[p].spec.gen \in Nat
            /\ 0 < h[p].spec.gen /\ h[p].spec.gen <= cr[c].spec.gen
        BY <2>1, <3>3, TurnTypes DEF AgeInv, FrameAge, Follows
      <4>2. h'[p] = h[p] /\ h[p].spec.gen # cr'[c].spec.gen /\ cr[c].phase = "live"
        BY <2>3, <3>3, <4>1
      <4>3. h'[p].spec.gen # cr'[h'[p].cfg].spec.gen
        BY <4>2
      <4> QED  BY <1>2, <2>1, <3>1, <4>2, <4>3 DEF FrameSettled, Desired
    <3>4. CASE cr'[c].phase = "terminating" \/ h[p].pc = "idle"
      <4>1. h'[p] = h[p]
        BY <2>3
      <4>2. cr'[h'[p].cfg].phase = "terminating" \/ h'[p].pc = "idle"
        BY <3>4, <4>1
      <4> QED  BY <3>1, <4>2 DEF FrameSettled
    <3> QED  BY <2>1, <3>1, <3>2, <3>3, <3>4, WorldMoves
  <2>4. h'[p] = Idle \/ UNCHANGED <<inbox, h, finishing>>
    BY <1>1, WorldOrCrash
  <2> QED  BY <2>2, <2>3, <2>4
<1> QED  BY <1>3, <1>4 DEF SettledInv

\* kopf records as handled only what a handler has been through with, and starts
\* handlers that have met no conflict.
LEMMA SettledKopf ==
    ASSUME Dependable, TypeOK, TypeOK', AtHome, AgeInv, Harmless, SettledInv,
           NEW q \in Ops, Kopf(q)
    PROVE  SettledInv'
<1>1. PICK c \in Configs : \/ Deliver(q, c) \/ IgnoreExcluded(q, c)
                           \/ BeginHandler(q, c) \/ IgnoreEvent(q, c)
                           \/ HandleDelete(q, c) \/ Finish(q, c)
  BY DEF Kopf
<1>2. \A p \in Ops : p = q
  BY DEF Dependable
<1>3. UNCHANGED <<datadog, left>>
  BY <1>1 DEF Deliver, IgnoreExcluded, BeginHandler, IgnoreEvent, HandleDelete, Finish
<1>4. ASSUME NEW d \in Configs,
             Wanted(d)' => /\ cr'[d].phase = cr[d].phase /\ cr'[d].spec = cr[d].spec
                           /\ cr'[d].sloId = cr[d].sloId /\ cr'[d].state = cr[d].state
                           /\ Through(d)' => Through(d)
      PROVE  ResourceSettled(d)'
  <2>1. ResourceSettled(d)
    BY DEF SettledInv
  <2>2. live \subseteq live' /\ slos'[cr[d].sloId] = slos[cr[d].sloId]
    BY <1>3 DEF datadog
  <2> QED  BY <1>4, <2>1, <2>2, SettledQuiet
<1>5. ASSUME UNCHANGED <<cr, finishing>>, NEW d \in Configs
      PROVE  ResourceSettled(d)'
  BY <1>4, <1>5 DEF Through
<1>6. ASSUME h'[q].pc = "idle"
      PROVE  \A p \in Ops : FrameSettled(p)' /\ FrameFresh(p)'
  BY <1>2, <1>6 DEF FrameSettled, FrameFresh
<1>7. CASE Deliver(q, c)
  <2>1. UNCHANGED <<cr, finishing, h, current>>
    BY <1>7 DEF Deliver
  <2>2. \A p \in Ops : FrameSettled(p)' /\ FrameFresh(p)'
    BY <1>3, <2>1 DEF SettledInv, FrameSettled, FrameFresh, Met, Desired, datadog
  <2> QED  BY <1>5, <2>1, <2>2 DEF SettledInv
<1>8. CASE IgnoreEvent(q, c)
  BY <1>5, <1>6, <1>8 DEF IgnoreEvent, SettledInv, Ready, cluster
<1>9. CASE IgnoreExcluded(q, c)
  <2>1. /\ c \in Excluded /\ cr' = cr /\ h' = h /\ h[q].pc = "idle"
        /\ \A d \in Configs \ {c} : finishing'[q][d] = finishing[q][d]
    BY <1>9 DEF IgnoreExcluded, Ready, TypeOK, cluster
  <2>2. ASSUME NEW d \in Configs
        PROVE  ResourceSettled(d)'
    <3>1. CASE d = c
      BY <2>1, <3>1 DEF ResourceSettled, Wanted
    <3>2. CASE d # c
      BY <1>2, <1>4, <2>1, <3>2 DEF Through
    <3> QED  BY <3>1, <3>2
  <2> QED  BY <1>6, <2>1, <2>2 DEF SettledInv
<1>10. CASE BeginHandler(q, c)
  <2> DEFINE rejected == inbox[q][c].spec.content \in Invalid
             s == IF rejected THEN "getCR" ELSE "lookup"
             m == IF rejected THEN "error" ELSE "result"
             f == [Idle EXCEPT !.pc = s, !.mode = m, !.cfg = c,
                               !.spec = inbox[q][c].spec, !.known = inbox[q][c].sloId]
  <2>1. h'[q] = f
    BY <1>10 DEF BeginHandler, Enter, TypeOK
  <2>2. /\ f.pc = s /\ f.mode = m /\ f.spec = inbox[q][c].spec /\ f.tries = 0
    BY DEF Idle
  <2> HIDE DEF f
  <2>3. FrameSettled(q)' /\ FrameFresh(q)'
    <3>1. CASE rejected
      <4>1. h'[q].pc = "getCR" /\ h'[q].mode = "error" /\ h'[q].spec.content \in Invalid
            /\ h'[q].tries = 0
        BY <2>1, <2>2, <3>1
      <4>2. Met(q)' + left'["conflict"] <= Budget["conflict"]
        <5>1. left["conflict"] \in Nat /\ Budget["conflict"] \in Nat
          BY BoundsAssumption DEF TypeOK, FaultKinds
        <5> QED  BY <1>3, <4>1, <5>1 DEF Met, Harmless
      <4> QED  BY <4>1, <4>2 DEF FrameSettled, FrameFresh
    <3>2. CASE ~rejected
      <4>1. h'[q].pc = "lookup" /\ h'[q].mode = "result"
        BY <2>1, <2>2, <3>2
      <4> QED  BY <4>1 DEF FrameSettled, FrameFresh
    <3> QED  BY <3>1, <3>2
  <2>4. \A p \in Ops : FrameSettled(p)' /\ FrameFresh(p)'
    BY <1>2, <2>3
  <2> QED  BY <1>5, <1>10, <2>4 DEF BeginHandler, SettledInv, cluster
<1>11. CASE HandleDelete(q, c)
  <2>1. /\ h' = h /\ h[q].pc = "idle" /\ finishing' = finishing
        /\ \A d \in Configs \ {c} : cr'[d] = cr[d]
        /\ cr'[c].phase = "gone"
    <3>1. cr[c] \in CR /\ cr' = [cr EXCEPT ![c] = [cr[c] EXCEPT !.phase = "gone"]]
      BY <1>11 DEF HandleDelete, WriteCR, TypeOK
    <3> QED  BY <1>11, <3>1 DEF HandleDelete, Ready, TypeOK, CR
  <2>2. ASSUME NEW d \in Configs
        PROVE  ResourceSettled(d)'
    <3>1. CASE d = c
      BY <2>1, <3>1 DEF ResourceSettled, Wanted
    <3>2. CASE d # c
      BY <1>4, <2>1, <3>2 DEF Through
    <3> QED  BY <3>1, <3>2
  <2> QED  BY <1>6, <2>1, <2>2 DEF SettledInv
<1>12. CASE Finish(q, c)
  <2>1. /\ h' = h /\ h[q].pc = "idle"
        /\ \A d \in Configs : finishing'[q][d] = IF d = c THEN NoSpec ELSE finishing[q][d]
    BY <1>12 DEF Finish, TypeOK
  <2>3. /\ \A d \in Configs \ {c} : cr'[d] = cr[d]
        /\ cr'[c].phase = cr[c].phase /\ cr'[c].spec = cr[c].spec
        /\ cr'[c].sloId = cr[c].sloId /\ cr'[c].state = cr[c].state
        /\ cr'[c].handled = finishing[q][c]
    BY <1>12, KopfRecords DEF Dependable, Alone
  <2>4. ASSUME NEW d \in Configs
        PROVE  ResourceSettled(d)'
    <3>1. CASE d = c
      <4>1. Wanted(c)' => cr'[c].spec.gen # 0
        BY <2>3 DEF Wanted, AgeInv, ObjectsAge
      <4>2. Wanted(c)' => (Through(c)' => Through(c))
        BY <1>2, <2>1, <2>3, <4>1, TurnTypes DEF Through
      <4> QED  BY <1>4, <2>3, <3>1, <4>2
    <3>2. CASE d # c
      BY <1>2, <1>4, <2>1, <2>3, <3>2 DEF Through
    <3> QED  BY <3>1, <3>2
  <2> QED  BY <1>6, <2>1, <2>4 DEF SettledInv
<1> QED  BY <1>1, <1>7, <1>8, <1>9, <1>10, <1>11, <1>12

\* With exclusive services an SLO of a resource in Datadog is the only one that
\* its handler can find or name.
LEMMA OwnSLO ==
    ASSUME Exclusively, Dependable, TypeOK, OwnInv, NEW p \in Ops, h[p].pc # "idle"
    PROVE  /\ h[p].slo # NoId => h[p].slo \in used /\ slos[h[p].slo].uid = h[p].cfg
           /\ \A i \in live : slos[i].service = h[p].spec.service => slos[i].uid = h[p].cfg
           /\ index.live = live /\ index.slos = slos
<1>1. h[p].cfg \in Configs /\ Sharers(h[p].cfg) = {h[p].cfg}
  BY ExclusiveGroups, Versions
<1>2. FrameOwned(h[p], used, slos)
  BY DEF OwnInv, HandlersOwned
<1>3. index.live = live /\ index.slos = slos
  BY DEF Dependable, OwnInv, DatadogOwned
<1>4. ASSUME NEW i \in live, slos[i].service = h[p].spec.service
      PROVE  slos[i].uid = h[p].cfg
  <2>1. /\ slos[i].service \in Declares[slos[i].uid] /\ slos[i].uid \in Configs
    BY DEF OwnInv, DatadogOwned, TypeOK, SLO
  <2>2. h[p].spec.service \in Declares[h[p].cfg]
    BY <1>2 DEF FrameOwned
  <2> QED  BY <1>1, <1>4, <2>1, <2>2 DEF Exclusively
<1> QED  BY <1>1, <1>2, <1>3, <1>4 DEF FrameOwned, Owns

\* What FrameNext leaves open: the mode of the writer, and its attempts.
LEMMA FrameCount ==
    ASSUME TypeOK, NEW p \in Ops
    PROVE  /\ ChoosePath(p) => h'[p].mode = h[p].mode
           /\ Retry(p) => h'[p].mode = h[p].mode
           /\ \A i : Enter(p, [h[p] EXCEPT !.pc = "update", !.slo = i]) =>
                 h'[p].mode = h[p].mode
           /\ \A b, i : Outcome(p, b, i) => h'[p].mode = h[p].mode /\ h'[p].tries = 0
           /\ Enter(p, [h[p] EXCEPT !.pc = "putStatus"]) => h'[p].tries = h[p].tries
           /\ Conflict(p) /\ h[p].tries + 1 < StatusAttempts =>
                 /\ Carries(p) /\ h'[p].pc = "getCR" /\ h'[p].mode = h[p].mode
                 /\ h'[p].ok = h[p].ok /\ h'[p].slo = h[p].slo
                 /\ h'[p].tries = h[p].tries + 1
                 /\ UNCHANGED finishing
<1>1. h[p] \in Frame
  BY DEF TypeOK
<1>2. \A f : Enter(p, f) => h'[p] = f /\ \A q \in Ops \ {p} : h'[q] = h[q]
  BY DEF Enter, TypeOK
<1>3. ChoosePath(p) => h'[p].mode = h[p].mode
  <2> DEFINE s == IF h[p].known # NoId THEN "update" ELSE "findUid"
             f == [h[p] EXCEPT !.pc = s, !.slo = h[p].known, !.tries = 0]
  <2>1. ChoosePath(p) => h'[p] = f
    BY <1>2 DEF ChoosePath
  <2> HIDE DEF s
  <2>2. f.mode = h[p].mode
    BY <1>1 DEF Frame
  <2> QED  BY <2>1, <2>2
<1>4. ASSUME NEW i, Enter(p, [h[p] EXCEPT !.pc = "update", !.slo = i])
      PROVE  h'[p].mode = h[p].mode
  <2>1. h'[p] = [h[p] EXCEPT !.pc = "update", !.slo = i]
    BY <1>2, <1>4
  <2> QED  BY <1>1, <2>1 DEF Frame
<1>5. ASSUME NEW b, NEW i, Outcome(p, b, i)
      PROVE  h'[p].mode = h[p].mode /\ h'[p].tries = 0
  <2>1. h'[p] = [h[p] EXCEPT !.pc = "getCR", !.ok = b, !.slo = i, !.tries = 0]
    BY <1>2, <1>5 DEF Outcome
  <2> QED  BY <1>1, <2>1 DEF Frame
<1>6. ASSUME Enter(p, [h[p] EXCEPT !.pc = "putStatus"])
      PROVE  h'[p].tries = h[p].tries
  <2>1. h'[p] = [h[p] EXCEPT !.pc = "putStatus"]
    BY <1>2, <1>6
  <2> QED  BY <1>1, <2>1 DEF Frame
<1>8. ASSUME Retry(p)
      PROVE  h'[p].mode = h[p].mode
  <2> DEFINE t == h[p].tries + 1
  <2>1. h'[p] = [h[p] EXCEPT !.tries = t]
    BY <1>2, <1>8 DEF Retry
  <2> HIDE DEF t
  <2> QED  BY <1>1, <2>1 DEF Frame
<1>7. ASSUME Conflict(p), h[p].tries + 1 < StatusAttempts
      PROVE  /\ Carries(p) /\ h'[p].pc = "getCR" /\ h'[p].mode = h[p].mode
             /\ h'[p].ok = h[p].ok /\ h'[p].slo = h[p].slo
             /\ h'[p].tries = h[p].tries + 1
             /\ UNCHANGED finishing
  <2> DEFINE t == h[p].tries + 1
             f == [h[p] EXCEPT !.pc = "getCR", !.tries = t]
  <2>1. Enter(p, f) /\ UNCHANGED finishing
    BY <1>7 DEF Conflict
  <2>2. t = h[p].tries + 1
    OBVIOUS
  <2> HIDE DEF t
  <2>3. /\ f.pc = "getCR" /\ f.mode = h[p].mode /\ f.ok = h[p].ok /\ f.slo = h[p].slo
        /\ f.tries = t /\ f.cfg = h[p].cfg /\ f.spec = h[p].spec
    BY <1>1 DEF Frame
  <2> QED  BY <1>2, <2>1, <2>2, <2>3 DEF Carries
<1> QED  BY <1>3, <1>4, <1>5, <1>6, <1>7, <1>8

\* reconcile_slo, with the faults that are excluded: it puts or posts what its
\* snapshot asks for, and disturbs no resource that is in sync.
LEMMA SettledService ==
    ASSUME Exclusively, Dependable, TypeOK, OwnInv, UniqueInv, AgeInv, Harmless, InTurn,
           SettledInv, NEW p \in Ops,
           \/ Lookup(p) \/ Detect(p) \/ FindByUid(p) \/ FindByService(p)
           \/ Update(p) \/ Create(p)
    PROVE  SettledInv'
<1>1. \A q \in Ops : q = p
  BY DEF Dependable
<1>2. /\ h[p].pc \in {"lookup", "detect", "findUid", "findService", "update", "create"}
      /\ UNCHANGED <<cr, finishing>>
  BY DEF Lookup, Detect, FindByUid, FindByService, Update, Create, cluster
<1>3. h[p].mode = "result"
  BY <1>2 DEF SettledInv, FrameFresh
<1>4. /\ ~Spend("search") /\ ~Spend("lost") /\ ~Spend("update") /\ ~Spend("create")
      /\ RequireCatalog => ~Spend("lookup")
      /\ \A s : ~SearchFailed(p, s)
  BY DEF Harmless, Spend, Excused, SearchFailed
<1>5. ASSUME h'[p].pc \notin {"getCR", "putStatus"}, h'[p].mode = "result",
             UNCHANGED <<live, slos>>
      PROVE  SettledInv'
  <2>1. FrameSettled(p)' /\ FrameFresh(p)'
    BY <1>5 DEF FrameSettled, FrameFresh
  <2>2. \A c \in Configs : ResourceSettled(c)'
    BY <1>2, <1>5 DEF SettledInv, ResourceSettled, Wanted, Through, InSync
  <2> QED  BY <1>1, <2>1, <2>2 DEF SettledInv
<1>6. ASSUME NEW i \in SloIds, Store(i, Desired(h[p])), Outcome(p, TRUE, i), UNCHANGED left,
             i \in live => slos[i].uid = h[p].cfg
      PROVE  SettledInv'
  <2>1. /\ live' = live \cup {i} /\ slos'[i] = Desired(h[p])
        /\ \A j \in SloIds \ {i} : slos'[j] = slos[j]
    BY <1>6 DEF Store, TypeOK
  <2>2. /\ h'[p].pc = "getCR" /\ h'[p].ok /\ h'[p].slo = i /\ h'[p].tries = 0
        /\ h'[p].mode = "result" /\ h'[p].cfg = h[p].cfg /\ h'[p].spec = h[p].spec
    <3>1. Carries(p) /\ h'[p].pc = "getCR" /\ h'[p].ok = TRUE /\ h'[p].slo = i
      BY <1>6, FrameNext
    <3>2. h'[p].mode = h[p].mode /\ h'[p].tries = 0
      BY <1>6, FrameCount
    <3> QED  BY <1>3, <3>1, <3>2 DEF Carries
  <2>3. Met(p)' + left'["conflict"] <= Budget["conflict"]
    <3>1. left["conflict"] \in Nat /\ Budget["conflict"] \in Nat
      BY BoundsAssumption DEF TypeOK, FaultKinds
    <3> QED  BY <1>6, <2>2, <3>1 DEF Met, Harmless
  <2>4. Desired(h[p]) = Desired(h'[p])
    BY <2>2 DEF Desired
  <2>5. FrameSettled(p)' /\ FrameFresh(p)'
    BY <2>1, <2>2, <2>3, <2>4 DEF FrameSettled, FrameFresh, Desired
  <2>6. ASSUME NEW c \in Configs, Wanted(c), Through(c)
        PROVE  InSync(c)'
    <3>1. InSync(c) /\ live \subseteq SloIds
      BY <2>6 DEF SettledInv, ResourceSettled, TypeOK
    <3>2. CASE cr[c].sloId # i
      BY <1>2, <2>1, <3>1, <3>2 DEF InSync
    <3>3. CASE cr[c].sloId = i
      <4>1. c = h[p].cfg
        BY <1>6, <3>1, <3>3 DEF InSync
      <4>2. cr[c].handled.gen = cr[c].spec.gen
        <5>1. cr[c].spec.gen # 0 /\ NoSpec.gen = 0
          BY <2>6, TurnTypes DEF Wanted, AgeInv, ObjectsAge
        <5>2. \A q \in Ops : finishing[q][c] = NoSpec
          BY <1>1, <1>2, <4>1 DEF InTurn
        <5> QED  BY <2>6, <5>1, <5>2 DEF Through
      <4>3. h[p].spec = cr[c].spec
        BY <1>2, <4>1, <4>2, LatestFrame
      <4> QED  BY <1>2, <2>1, <3>1, <3>3, <4>1, <4>3 DEF InSync, SameText, Desired
    <3> QED  BY <3>2, <3>3
  <2>7. \A c \in Configs : ResourceSettled(c)'
    BY <1>2, <2>6 DEF ResourceSettled, Wanted, Through
  <2> QED  BY <1>1, <2>5, <2>7 DEF SettledInv
<1>7. CASE Lookup(p) \/ Detect(p)
  <2>1. UNCHANGED <<live, slos>> /\ h[p].pc \in {"lookup", "detect"}
    BY <1>7 DEF Lookup, Detect, datadog
  <2>2. ChoosePath(p) \/ Goto(p, "detect") \/ Retry(p)
    BY <1>4, <1>7 DEF Lookup, Detect, ChooseFramework
  <2>3. CASE ChoosePath(p)
    BY <1>3, <1>5, <2>1, <2>3, FrameNext, FrameCount
  <2>4. CASE Goto(p, "detect")
    BY <1>3, <1>5, <2>1, <2>4, FrameGoto
  <2>5. CASE Retry(p)
    <3>1. h'[p].pc = h[p].pc /\ h'[p].mode = h[p].mode
      BY <2>5, FrameNext, FrameCount
    <3> QED  BY <1>3, <1>5, <2>1, <3>1
  <2> QED  BY <2>2, <2>3, <2>4, <2>5
<1>8. CASE FindByUid(p)
  <2>1. /\ \/ \E i : Enter(p, [h[p] EXCEPT !.pc = "update", !.slo = i])
           \/ Goto(p, "findService")
        /\ UNCHANGED <<live, slos>>
    BY <1>4, <1>8 DEF FindByUid, datadog
  <2>2. h'[p].pc \in {"update", "findService"} /\ h'[p].mode = "result"
    BY <1>3, <2>1, FrameNext, FrameCount
  <2> QED  BY <1>5, <2>1, <2>2
<1>9. CASE FindByService(p)
  <2>1. \A i \in index.live : index.slos[i].service # h[p].spec.service
    <3>1. h[p].pc = "findService" /\ \A i \in live : slos[i].uid # h[p].cfg
      BY <1>9 DEF FindByService, UniqueInv, Unfound
    <3> QED  BY <3>1, OwnSLO
  <2>2. Goto(p, "create") /\ UNCHANGED <<live, slos>>
    BY <1>4, <1>9, <2>1 DEF FindByService, datadog
  <2>3. h'[p].pc = "create" /\ h'[p].mode = h[p].mode
    BY <2>2, FrameNext
  <2> QED  BY <1>3, <1>5, <2>2, <2>3
<1>10. CASE Update(p)
  <2>1. h[p].slo \in live /\ h[p].slo \in SloIds /\ slos[h[p].slo].uid = h[p].cfg
    <3>1. h[p].slo # NoId
      BY <1>10 DEF Update, OwnInv, HandlersOwned, FrameOwned
    <3> QED  BY <1>2, <3>1, OwnSLO DEF Harmless, TypeOK
  <2> QED  BY <1>4, <1>6, <1>10, <2>1 DEF Update
<1>11. CASE Create(p)
  <2>1. PICK i \in SloIds \ used : Store(i, Desired(h[p])) /\ Outcome(p, TRUE, i) /\ UNCHANGED left
    BY <1>4, <1>11 DEF Create
  <2> QED  BY <1>6, <2>1 DEF TypeOK
<1> QED  BY <1>7, <1>8, <1>9, <1>10, <1>11

\* The status writer: fewer conflicts than attempts, and nothing else that fails.
LEMMA SettledWriter ==
    ASSUME Dependable, Forgiving, TypeOK, AtHome, AgeInv, Harmless, InTurn, SettledInv,
           NEW p \in Ops, GetCR(p) \/ PutStatus(p)
    PROVE  SettledInv'
<1>0. PICK c \in Configs : c = h[p].cfg
  BY TurnTypes
<1>1. \A q \in Ops : q = p
  BY DEF Dependable
<1>2. /\ h[p].pc \in {"getCR", "putStatus"} /\ UNCHANGED <<live, slos>>
      /\ cr[c] \in CR /\ FrameSettled(p) /\ Bearers(h[p].cfg) = {c}
  <2>1. Bearers(h[p].cfg) = {h[p].cfg}
    BY WriterWrites DEF Reconcile, Dependable, Alone
  <2> QED  BY <1>0, <2>1, TurnTypes DEF GetCR, PutStatus, datadog, SettledInv
<1>3. ~Spend("kube")
  BY DEF Harmless, Spend, Excused
<1>4. ASSUME Yield(p), \A d \in Configs \ {c} : cr'[d] = cr[d], ResourceSettled(c)'
      PROVE  SettledInv'
  <2>1. h'[p].pc = "idle"
    <3>1. h'[p] = Idle
      BY <1>4, FrameNext DEF Leaves
    <3> QED  BY <3>1 DEF Idle
  <2>2. FrameSettled(p)' /\ FrameFresh(p)'
    BY <2>1 DEF FrameSettled, FrameFresh
  <2>3. ASSUME NEW d \in Configs, d # c
        PROVE  ResourceSettled(d)'
    <3>1. \A q \in Ops : finishing'[q][d] = finishing[q][d]
      BY <1>0, <1>4, <2>3 DEF Yield, TypeOK
    <3>2. cr'[d] = cr[d] /\ ResourceSettled(d)
      BY <1>4, <2>3 DEF SettledInv
    <3> QED  BY <1>2, <3>1, <3>2 DEF ResourceSettled, Wanted, Through, InSync
  <2> QED  BY <1>1, <1>4, <2>2, <2>3 DEF SettledInv
<1>6. ASSUME UNCHANGED <<cr, finishing, left>>, Carries(p), h'[p].pc \in {"getCR", "putStatus"},
             h'[p].mode = h[p].mode, h'[p].ok = h[p].ok, h'[p].slo = h[p].slo,
             Met(p)' = Met(p)
      PROVE  SettledInv'
  <2>1. h'[p].cfg = h[p].cfg /\ h'[p].spec = h[p].spec
    BY <1>6 DEF Carries
  <2>2. FrameSettled(p)' /\ FrameFresh(p)'
    BY <1>2, <1>6, <2>1 DEF FrameSettled, FrameFresh, Desired
  <2>3. \A d \in Configs : ResourceSettled(d)'
    BY <1>2, <1>6 DEF SettledInv, ResourceSettled, Wanted, Through, InSync
  <2> QED  BY <1>1, <2>2, <2>3 DEF SettledInv
<1>7. CASE GetCR(p)
  <2>1. h[p].pc = "getCR" /\ UNCHANGED cr
    BY <1>7 DEF GetCR
  <2>2. /\ Enter(p, [h[p] EXCEPT !.pc = "putStatus"])
        /\ current' = current \cup {p} /\ UNCHANGED <<finishing, left>>
    BY <1>2, <1>3, <1>7 DEF GetCR
  <2>3. /\ Carries(p) /\ h'[p].pc = "putStatus" /\ h'[p].mode = h[p].mode
        /\ h'[p].ok = h[p].ok /\ h'[p].slo = h[p].slo /\ h'[p].tries = h[p].tries
    BY <2>2, FrameNext, FrameCount
  <2>4. Met(p)' = Met(p)
    BY <2>1, <2>2, <2>3 DEF Met
  <2> QED  BY <1>6, <2>1, <2>2, <2>3, <2>4
<1>8. ASSUME h[p].pc = "putStatus", Yield(p), Wanted(c)', Through(c)',
             cr'[c].spec = cr[c].spec, cr'[c].phase = cr[c].phase, cr'[c].handled = cr[c].handled
      PROVE  /\ h[p].spec = cr[c].spec /\ h[p].mode = "result" /\ h[p].ok
             /\ h[p].slo \in live /\ slos[h[p].slo] = Desired(h[p])
             /\ Met(p) + left["conflict"] <= Budget["conflict"]
  <2>1. finishing'[p][c] = h[p].spec
    BY <1>0, <1>8 DEF Yield, TypeOK
  <2>2. h[p].spec.gen = cr[c].spec.gen \/ cr[c].handled.gen = cr[c].spec.gen
    BY <1>1, <1>8, <2>1 DEF Through
  <2>3. h[p].spec = cr[c].spec
    BY <1>0, <1>2, <1>8, <2>2, LatestFrame
  <2>4. cr[c].phase = "live" /\ cr[c].spec.content \notin Invalid
    BY <1>8 DEF Wanted
  <2>5. h[p].mode \in {"result", "error"}
    BY DEF TypeOK, Frame, Modes
  <2> QED  BY <1>0, <1>2, <2>3, <2>4, <2>5 DEF FrameSettled
<1>9. CASE PutStatus(p)
  <2>1. h[p].pc = "putStatus"
    BY <1>9 DEF PutStatus
  <2>2. CASE WriteCR(c, Reported(h[p], c)) /\ Yield(p)
    <3> DEFINE i == IF h[p].mode = "result" THEN h[p].slo ELSE NoId
               z == IF h[p].mode = "result" /\ h[p].ok THEN "ok" ELSE "error"
               o == [cr[c] EXCEPT !.sloId = i, !.state = z, !.shown = h[p].spec]
    <3>1. cr' = [cr EXCEPT ![c] = o]
      BY <1>0, <2>2 DEF WriteCR, Reported
    <3>2. /\ h[p].mode = "result" => i = h[p].slo
          /\ h[p].mode = "result" /\ h[p].ok => z = "ok"
      OBVIOUS
    <3> HIDE DEF i, z
    <3>3. /\ cr'[c].phase = cr[c].phase /\ cr'[c].spec = cr[c].spec
          /\ cr'[c].handled = cr[c].handled /\ cr'[c].sloId = i /\ cr'[c].state = z
          /\ \A d \in Configs \ {c} : cr'[d] = cr[d]
      BY <1>2, <3>1 DEF TypeOK, CR
    <3>4. ASSUME Wanted(c)', Through(c)'
          PROVE  InSync(c)'
      BY <1>0, <1>2, <1>8, <2>1, <2>2, <3>2, <3>3, <3>4 DEF InSync, SameText, Desired
    <3>5. ResourceSettled(c)'
      BY <3>4 DEF ResourceSettled
    <3> QED  BY <1>4, <2>2, <3>3, <3>5
  <2>3. CASE p \notin current /\ Conflict(p) /\ UNCHANGED <<cluster, left>>
    <3>1. h[p].tries \in Nat /\ left["conflict"] \in Nat /\ Budget["conflict"] \in Nat
      <4>1. h[p] \in Frame
        BY DEF TypeOK
      <4> QED  BY <4>1, BoundsAssumption DEF TypeOK, Frame, Tries, FaultKinds
    <3>2. CASE h[p].tries + 1 < StatusAttempts
      <4>1. /\ Carries(p) /\ h'[p].pc = "getCR" /\ h'[p].mode = h[p].mode
            /\ h'[p].ok = h[p].ok /\ h'[p].slo = h[p].slo
            /\ h'[p].tries = h[p].tries + 1 /\ UNCHANGED finishing
        BY <2>3, <3>2, FrameCount
      <4>2. Met(p)' = Met(p)
        BY <2>1, <2>3, <3>1, <4>1 DEF Met
      <4> QED  BY <1>6, <2>3, <4>1, <4>2 DEF cluster
    <3>3. CASE ~(h[p].tries + 1 < StatusAttempts)
      <4>1. Yield(p) /\ cr' = cr
        BY <2>3, <3>3 DEF Conflict, cluster
      <4>2. ~(Met(p) + left["conflict"] <= Budget["conflict"])
        BY <2>1, <2>3, <3>1, <3>3 DEF Met, Forgiving, StatusAttempts
      <4>3. ResourceSettled(c)'
        BY <1>8, <2>1, <4>1, <4>2 DEF ResourceSettled
      <4> QED  BY <1>4, <4>1, <4>3
    <3> QED  BY <3>2, <3>3
  <2> QED  BY <1>0, <1>2, <1>3, <1>9, <2>2, <2>3 DEF PutStatus
<1> QED  BY <1>7, <1>9

\* Every step keeps what is settled.
LEMMA SettledNext ==
    ASSUME Exclusively, Dependable, Forgiving, TypeOK, TypeOK', AtHome, OwnInv, UniqueInv,
           AgeInv, Harmless, InTurn, SettledInv, [Next]_vars
    PROVE  SettledInv'
<1>1. CASE UNCHANGED vars
  BY <1>1 DEF vars, SettledInv, ResourceSettled, Wanted, Through, InSync, FrameSettled,
     FrameFresh, Met, Desired
<1>2. CASE \E p \in Ops : Reconcile(p)
  BY <1>2, SettledService, SettledWriter DEF Reconcile
<1> QED  BY <1>1, <1>2, SettledEnvironment, SettledKopf DEF Next

\* Services that are not shared, one process, calls that do not fail for good and
\* fewer conflicts than attempts: the version that kopf has recorded as handled is in
\* Datadog, and the status says so, whatever crashes, edits and deletions come between.
\* An edit back to the text on record is a version that is never recorded, and is owed
\* nothing: what its absence leaves behind is the counterexample of AlwaysConverges.
THEOREM HandledIsInSync ==
    ASSUME Exclusively, Dependable, Forgiving
    PROVE  Spec => []HandledMeansInSync
<1>0. Alone /\ Unmixed
  BY DEF Dependable, Alone, Unmixed
<1>1. Init => OwnInv /\ AgeInv /\ UniqueInv
  BY OwnInit, AgeInit DEF Init, UniqueInv, AtMostOneSLO, Dependable, Unfound, Idle
<1>2. Init => Harmless
  BY BoundsAssumption DEF Init, Harmless, Excused, Dependable, Forgiving, FaultKinds
<1>3. Init => InTurn
  BY DEF Init, InTurn, NoCR, NoSpec, Idle
<1>4. Init => SettledInv
  BY DEF Init, SettledInv, ResourceSettled, Wanted, FrameSettled, FrameFresh, NoCR, Idle
<1>5. TypeOK /\ AtHome /\ OwnInv /\ [Next]_vars => OwnInv'
  BY <1>0, OwnNext, ExclusiveGroups
<1>6. TypeOK /\ OwnInv /\ UniqueInv /\ [Next]_vars => UniqueInv'
  BY UniqueNext
<1>7. TypeOK /\ TypeOK' /\ AtHome /\ AgeInv /\ [Next]_vars => AgeInv'
  BY <1>0, AgeNext
<1>8. TypeOK /\ Harmless /\ [Next]_vars => Harmless'
  BY HarmlessNext
<1>9. TypeOK /\ AtHome /\ AgeInv /\ InTurn /\ [Next]_vars => InTurn'
  BY <1>0, TurnNext
<1>10. /\ TypeOK /\ TypeOK' /\ AtHome /\ OwnInv /\ UniqueInv /\ AgeInv /\ Harmless /\ InTurn
       /\ SettledInv /\ [Next]_vars
      => SettledInv'
  <2> SUFFICES ASSUME TypeOK, TypeOK', AtHome, OwnInv, UniqueInv, AgeInv, Harmless, InTurn,
                      SettledInv, [Next]_vars
               PROVE  SettledInv'
    OBVIOUS
  <2> QED  BY SettledNext
<1>11. SettledInv => HandledMeansInSync
  BY DEF SettledInv, ResourceSettled, Through, HandledMeansInSync
<1> QED  BY <1>1, <1>2, <1>3, <1>4, <1>5, <1>6, <1>7, <1>8, <1>9, <1>10, <1>11,
            TypeCorrect, NamesKept, PTL DEF Spec

\* Nothing is under way: no version to receive, no event to process, no handler.
AtRest ==
    \A p \in Ops :
        /\ news[p] = {} /\ h[p].pc = "idle"
        /\ \A c \in Configs : inbox[p][c].phase = "absent" /\ finishing[p][c] = NoSpec

\* An operator that has come to rest has brought every valid SLOConfig to Datadog at
\* its latest text, but for one whose last edit put back the text on record.  Of
\* Converges only the coming to rest is left to fairness.
THEOREM RestIsInSync ==
    ASSUME Exclusively, Dependable, Forgiving, Ops # {}
    PROVE  Spec => [](AtRest => \A c \in Configs : Wanted(c) /\ ~Reverted(c) => InSync(c))
<1>1. Spec => []AgeInv
  <2>1. TypeOK /\ TypeOK' /\ AtHome /\ AgeInv /\ [Next]_vars => AgeInv'
    BY AgeNext DEF Dependable, Alone
  <2> QED  BY <2>1, AgeInit, TypeCorrect, NamesKept, PTL DEF Spec
<1>2. ASSUME AgeInv, NoEditLost, HandledMeansInSync, AtRest, NEW c \in Configs,
             Wanted(c), ~Reverted(c)
      PROVE  InSync(c)
  <2>1. PICK p \in Ops : TRUE
    OBVIOUS
  <2>2. cr[c].phase = "live" /\ cr[c].spec.gen # 0 /\ NoSpec.gen = 0
    BY <1>2 DEF Wanted, AgeInv, ObjectsAge, NoSpec
  <2>3. ~StillToCome(p, c)
    BY <1>2, <2>1, <2>2 DEF AtRest, StillToCome
  <2>4. OnRecord(cr[c])
    BY <1>2, <2>1, <2>2, <2>3 DEF NoEditLost
  <2>5. cr[c].handled.gen = cr[c].spec.gen
    BY <1>2, <2>4 DEF Reverted
  <2> QED  BY <1>2, <2>5 DEF HandledMeansInSync
<1>3. AgeInv /\ NoEditLost /\ HandledMeansInSync
      => (AtRest => \A c \in Configs : Wanted(c) /\ ~Reverted(c) => InSync(c))
  BY <1>2
<1> QED  BY <1>1, <1>3, EditsAreKept, HandledIsInSync, PTL
=============================================================================
