------------------------ MODULE PendingChangesProofs ------------------------
(***************************************************************************)
(* What holds of PendingChanges for every number of changes, every set of  *)
(* SLOConfigs, fields and values, and any number of edits, crashes and     *)
(* lost calls.                                                             *)
(***************************************************************************)
EXTENDS PendingChanges, TLAPS

----------------------------------------------------------------------------
(* Types *)

\* The first state is of the right type.
LEMMA InitTypes == ASSUME Init PROVE TypeOK
<1>1. \A r \in Requests : r.slot[1] \in Configs /\ r.slot[2] \in Fields
  BY DEF Requests, Slots
<1>2. Requests # {}
  <2>1. PICK c \in Configs, f \in Fields, v \in Values : TRUE
    BY ConfigsAssumption
  <2>2. [slot |-> <<c, f>>, value |-> v] \in Requests
    BY DEF Requests, Slots
  <2> QED BY <2>2
<1>3. (CHOOSE r \in Requests : TRUE) \in Requests
  BY <1>2
<1>4. asked \in [Changes -> Requests]
  BY <1>3 DEF Init
<1>5. loop \in [Ops -> Loop]
  <2>1. Polling \in Loop
    BY DEF Polling, Loop, Steps, Writers
  <2> QED BY <2>1 DEF Init
<1>6. Allowance
  BY PendingAssumption DEF Init, Allowance
<1> QED
  BY <1>4, <1>5, <1>6 DEF Init, TypeOK, States, Writers

\* A fault that is spent leaves an allowance.
LEMMA SpendTypes ==
  ASSUME TypeOK, NEW k \in EventKinds, Spend(k)
  PROVE  Allowance'
<1>1. left[k] \in Nat /\ left[k] > 0 /\ left[k] <= Budget[k] /\ Budget[k] \in Nat
  BY PendingAssumption DEF TypeOK, Allowance, Spend
<1>2. left[k] - 1 \in Nat /\ left[k] - 1 <= Budget[k]
  BY <1>1
<1> QED BY <1>2 DEF TypeOK, Allowance, Spend

\* The effect of a patch.
LEMMA WriteTypes ==
  ASSUME TypeOK, NEW n \in Changes, Coercible(asked[n]), Write(n)
  PROVE  /\ present' \subseteq Configs
         /\ spec' \in [Slots -> Values]
         /\ \A s \in Slots : Fits(s[2], spec'[s])
         /\ patched' \subseteq Changes
         /\ writer' \in [Slots -> Writers]
<1>1. asked[n].slot \in Slots /\ asked[n].value \in Values
  BY DEF TypeOK, Requests
<1>2. \A s \in Slots : Fits(s[2], spec'[s])
  <2> TAKE s \in Slots
  <2>1. CASE s = asked[n].slot
    BY <1>1, <2>1 DEF TypeOK, Write, Coercible
  <2>2. CASE s # asked[n].slot
    BY <1>1, <2>2 DEF TypeOK, Write
  <2> QED BY <2>1, <2>2
<1> QED
  BY <1>1, <1>2 DEF TypeOK, Write, Writers

\* To take up a change keeps the types of the loop.
LEMMA TakeUpTypes ==
  ASSUME TypeOK, NEW p \in Ops, NEW n \in Changes, NEW step \in Steps,
         TakeUp(p, n, step)
  PROVE  loop' \in [Ops -> Loop]
<1>1. loop[p].batch \in SUBSET Changes
  BY DEF TypeOK, Loop
<1>2. [pc |-> step, batch |-> loop[p].batch \ {n}, now |-> n] \in Loop
  BY <1>1 DEF Loop, Writers
<1> QED BY <1>2 DEF TypeOK, TakeUp, Enter

\* To go on to the next one, or to rest, keeps them.
LEMMA ProceedTypes ==
  ASSUME TypeOK, NEW p \in Ops, Proceed(p)
  PROVE  loop' \in [Ops -> Loop]
<1>1. loop[p].batch \in SUBSET Changes
  BY DEF TypeOK, Loop
<1>2. [pc |-> IF loop[p].batch = {} THEN "poll" ELSE "patch",
       batch |-> loop[p].batch, now |-> User] \in Loop
  BY <1>1 DEF Loop, Writers, Steps
<1> QED BY <1>2 DEF TypeOK, Proceed, Enter

\* What users do keeps the types.
LEMMA PeopleTypes ==
  ASSUME TypeOK,
         \/ \E n \in Changes : Request(n)
         \/ \E c \in Configs : Edit(c) \/ Delete(c)
  PROVE  TypeOK'
<1>1. CASE \E n \in Changes : Request(n)
  BY <1>1 DEF TypeOK, Request, cluster, States, Fits, Allowance
<1>2. ASSUME NEW c \in Configs, Edit(c) PROVE TypeOK'
  <2>1. PICK new \in [Fields -> Values] :
           /\ \A f \in Fields : Fits(f, new[f])
           /\ spec' = [s \in Slots |-> IF s[1] = c THEN new[s[2]] ELSE spec[s]]
    BY <1>2 DEF Edit
  <2>2. \A s \in Slots : s[2] \in Fields
    BY DEF Slots
  <2>3. /\ spec' \in [Slots -> Values]
        /\ \A s \in Slots : Fits(s[2], spec'[s])
    BY <2>1, <2>2 DEF TypeOK
  <2>4. Allowance'
    BY <1>2, SpendTypes DEF Edit, EventKinds
  <2>5. writer' \in [Slots -> Writers]
    BY <1>2 DEF TypeOK, Edit, Writers
  <2> QED
    BY <1>2, <2>3, <2>4, <2>5 DEF TypeOK, Edit, api
<1>3. ASSUME NEW c \in Configs, Delete(c) PROVE TypeOK'
  <2>1. Allowance'
    BY <1>3, SpendTypes DEF Delete, EventKinds
  <2> QED BY <1>3, <2>1 DEF TypeOK, Delete, api, Fits
<1> QED BY <1>1, <1>2, <1>3

\* A patch keeps the types, whether it succeeds or is refused.
LEMMA PatchTypes ==
  ASSUME TypeOK, NEW p \in Ops, NEW n \in Changes, Patch(p, n)
  PROVE  TypeOK'
<1>1. loop' \in [Ops -> Loop]
  <2>1. TakeUp(p, n, "applied") \/ TakeUp(p, n, "failed")
    BY DEF Patch
  <2> QED BY <2>1, TakeUpTypes DEF Steps
<1>2. Allowance'
  <2>1. UNCHANGED left \/ Spend("lost") \/ Spend("kube")
    BY DEF Patch
  <2> QED BY <2>1, SpendTypes DEF EventKinds, TypeOK, Allowance
<1>3. /\ present' \subseteq Configs
      /\ spec' \in [Slots -> Values]
      /\ \A s \in Slots : Fits(s[2], spec'[s])
      /\ patched' \subseteq Changes
      /\ writer' \in [Slots -> Writers]
  <2>1. CASE Coercible(asked[n]) /\ Write(n)
    BY <2>1, WriteTypes
  <2>2. CASE UNCHANGED cluster
    BY <2>2 DEF TypeOK, cluster, Fits
  <2> QED BY <2>1, <2>2 DEF Patch
<1> QED BY <1>1, <1>2, <1>3 DEF TypeOK, Patch, api

\* The other steps of the loop keep the types.
LEMMA LoopTypes ==
  ASSUME TypeOK, NEW p \in Ops, Fetch(p) \/ Confirm(p) \/ Crash(p)
  PROVE  TypeOK'
<1>1. CASE Fetch(p)
  <2>1. [pc |-> "patch", batch |-> Pending, now |-> User] \in Loop
    BY DEF Loop, Pending, Writers, Steps
  <2>2. loop' \in [Ops -> Loop]
    BY <1>1, <2>1 DEF TypeOK, Fetch, Enter
  <2>3. Allowance'
    BY <1>1, SpendTypes DEF Fetch, EventKinds, TypeOK, Allowance
  <2> QED BY <1>1, <2>2, <2>3 DEF TypeOK, Fetch, cluster, api, Fits
<1>2. CASE Confirm(p)
  <2>1. loop' \in [Ops -> Loop]
    BY <1>2, ProceedTypes DEF Confirm
  <2>2. Allowance'
    BY <1>2, SpendTypes DEF Confirm, EventKinds, TypeOK, Allowance
  <2>3. state' \in [Changes -> States]
    BY <1>2 DEF TypeOK, Confirm, States, Settled
  <2> QED BY <1>2, <2>1, <2>2, <2>3 DEF TypeOK, Confirm, cluster, Fits
<1>3. CASE Crash(p)
  <2>1. loop' \in [Ops -> Loop]
    BY <1>3 DEF TypeOK, Crash, Enter, Polling, Loop, Steps, Writers
  <2>2. Allowance'
    BY <1>3, SpendTypes DEF Crash, EventKinds
  <2> QED BY <1>3, <2>1, <2>2 DEF TypeOK, Crash, cluster, api, Fits
<1> QED BY <1>1, <1>2, <1>3

\* Every step keeps the types.
LEMMA NextTypes == ASSUME TypeOK, [Next]_vars PROVE TypeOK'
<1>1. CASE UNCHANGED vars
  BY <1>1 DEF TypeOK, vars, Fits, Allowance
<1>2. CASE Next
  BY <1>2, PeopleTypes, PatchTypes, LoopTypes DEF Next, Round
<1> QED BY <1>1, <1>2

\* Every variable keeps its type; in particular no numeric field of an
\* SLOConfig ever holds a value that is not a number.
THEOREM TypesHold == Spec => []TypeOK
<1>1. Init => TypeOK
  BY InitTypes
<1>2. TypeOK /\ [Next]_vars => TypeOK'
  BY NextTypes
<1> QED BY <1>1, <1>2, PTL DEF Spec

----------------------------------------------------------------------------
(* A change is recorded as applied only after its patch took effect *)

\* Between the patch and its confirmation the change is in hand, as "applied".
HandInv ==
    \A p \in Ops : /\ loop[p].pc \in Settled => loop[p].now \in Changes
                   /\ loop[p].pc = "applied" => loop[p].now \in patched
AppliedInv == HandInv /\ AppliedMeansPatched

\* What was patched stays patched.
LEMMA PatchedOnlyGrows ==
  ASSUME TypeOK, [Next]_vars PROVE patched \subseteq patched'
<1>1. CASE UNCHANGED vars
  BY <1>1 DEF vars
<1>2. CASE Next
  BY <1>2 DEF Next, Round, Request, Edit, Delete, Fetch, Patch, Write, Confirm, Crash,
              cluster
<1> QED BY <1>1, <1>2

\* A change in hand stays one that was requested, and patched if it is to be confirmed.
LEMMA HandStep ==
  ASSUME TypeOK, AppliedInv, [Next]_vars PROVE HandInv'
<1>1. ASSUME NEW p \in Ops, loop[p] = loop'[p]
      PROVE  /\ loop'[p].pc \in Settled => loop'[p].now \in Changes
             /\ loop'[p].pc = "applied" => loop'[p].now \in patched'
  BY <1>1, PatchedOnlyGrows DEF AppliedInv, HandInv
<1>2. CASE UNCHANGED loop
  BY <1>1, <1>2 DEF HandInv
<1>3. ASSUME NEW p \in Ops, Round(p) \/ Crash(p) PROVE HandInv'
  <2> SUFFICES ASSUME NEW q \in Ops
               PROVE  /\ loop'[q].pc \in Settled => loop'[q].now \in Changes
                      /\ loop'[q].pc = "applied" => loop'[q].now \in patched'
    BY DEF HandInv
  <2>1. CASE q # p \/ UNCHANGED loop
    <3>1. loop'[q] = loop[q]
      BY <1>3, <2>1 DEF TypeOK, Round, Fetch, Patch, Confirm, Crash, TakeUp, Proceed, Enter
    <3> QED BY <1>1, <3>1
  <2>2. CASE q = p /\ ~UNCHANGED loop
    <3>1. CASE Fetch(p) \/ Confirm(p) \/ Crash(p)
      <4>1. loop'[p].pc \in {"patch", "poll"}
        BY <2>2, <3>1 DEF TypeOK, Fetch, Confirm, Crash, Proceed, Enter, Polling
      <4> QED BY <2>2, <4>1 DEF Settled
    <3>2. ASSUME NEW n \in Changes, Patch(p, n)
          PROVE  /\ loop'[p].now = n
                 /\ loop'[p].pc = "applied" => n \in patched'
      BY <3>2 DEF TypeOK, Patch, TakeUp, Enter, Write
    <3> QED BY <1>3, <2>2, <3>1, <3>2 DEF Round
  <2> QED BY <2>1, <2>2
<1> QED
  BY <1>2, <1>3 DEF Next, vars, Request, Edit, Delete

\* Only a change that was patched is confirmed as applied.
LEMMA AppliedStep ==
  ASSUME TypeOK, AppliedInv, [Next]_vars PROVE AppliedMeansPatched'
<1>1. CASE UNCHANGED state
  BY <1>1, PatchedOnlyGrows DEF AppliedInv, AppliedMeansPatched
<1>2. ASSUME NEW n \in Changes, Request(n) PROVE AppliedMeansPatched'
  BY <1>2, PatchedOnlyGrows DEF AppliedInv, AppliedMeansPatched, Request, TypeOK
<1>3. ASSUME NEW p \in Ops, Confirm(p) PROVE AppliedMeansPatched'
  <2>1. loop[p].now \in Changes /\ (loop[p].pc = "applied" => loop[p].now \in patched)
    BY <1>3 DEF AppliedInv, HandInv, Confirm
  <2> QED
    BY <1>3, <2>1, PatchedOnlyGrows DEF AppliedInv, AppliedMeansPatched, Confirm, TypeOK
<1> QED
  BY <1>1, <1>2, <1>3 DEF Next, vars, Round, Edit, Delete, Fetch, Patch, Crash, api

\* The Titlis API never records a change as applied that no patch has carried
\* out, with any number of processes, lost calls and crashes.
THEOREM NothingAppliedUnpatched == Spec => []AppliedMeansPatched
<1>1. Init => AppliedInv
  BY DEF Init, AppliedInv, HandInv, AppliedMeansPatched, Polling, Settled
<1>2. TypeOK /\ AppliedInv /\ [Next]_vars => AppliedInv'
  BY HandStep, AppliedStep DEF AppliedInv
<1>3. AppliedInv => AppliedMeansPatched
  BY DEF AppliedInv
<1> QED BY <1>1, <1>2, <1>3, TypesHold, PTL DEF Spec

----------------------------------------------------------------------------
(* Until a second process begins a round, what the loop works on is pending *)

Alone == Spared("overlap")
OthersIdle == \A q \in Ops : q # Main => loop[q] = Polling

BatchInv ==
    \A p \in Ops :
        /\ \A n \in loop[p].batch : state[n] = "pending"
        /\ loop[p].pc \in Settled => /\ loop[p].now \in Changes
                                     /\ state[loop[p].now] = "pending"
                                     /\ loop[p].now \notin loop[p].batch

\* What the other actions do not touch.
LEMMA PeopleKeepLoop ==
  ASSUME TypeOK,
         \/ \E n \in Changes : Request(n)
         \/ \E c \in Configs : Edit(c) \/ Delete(c)
         \/ UNCHANGED vars
  PROVE  /\ loop' = loop
         /\ \A n \in Changes : state[n] # "unasked" => /\ state'[n] = state[n]
                                                       /\ asked'[n] = asked[n]
         /\ \A n \in Changes : state'[n] = "applied" => state[n] = "applied"
         /\ \A n \in Changes : state'[n] # state[n] => state'[n] = "pending"
BY DEF Request, Edit, Delete, vars, api, TypeOK

\* What has been spared so far was spared before, and is spared by this step.
LEMMA SparedBefore ==
  ASSUME TypeOK, [Next]_vars, NEW k \in EventKinds, Spared(k)'
  PROVE  Spared(k) /\ ~Spend(k)
<1>1. left[k] \in Nat /\ left[k] <= Budget[k] /\ Budget[k] \in Nat
  BY PendingAssumption DEF TypeOK, Allowance
<1>2. ~Spend(k)
  BY <1>1 DEF TypeOK, Allowance, Spend, Spared
<1>3. ASSUME NEW l \in EventKinds, Spend(l) PROVE left'[k] <= left[k]
  BY <1>1, <1>3 DEF TypeOK, Allowance, Spend
<1>4. left'[k] <= left[k]
  BY <1>1, <1>3 DEF Next, Request, Edit, Delete, Round, Fetch, Patch, Confirm, Crash, vars,
                    EventKinds
<1> QED BY <1>1, <1>2, <1>4 DEF Spared

\* As long as no process but Main has begun a round, a step is one of Main, or leaves
\* everything the loop works on as it was.
LEMMA ActingIsMain ==
  ASSUME TypeOK, OthersIdle, NEW p \in Ops, Round(p) \/ Crash(p), ~Spend("overlap")
  PROVE  p = Main \/ UNCHANGED <<cluster, api, loop>>
<1> SUFFICES ASSUME p # Main PROVE UNCHANGED <<cluster, api, loop>>
  OBVIOUS
<1>1. loop[p].pc = "poll" /\ loop[p] = Polling
  BY DEF OthersIdle, Polling
<1>2. Crash(p)
  BY <1>1 DEF Round, Fetch, Patch, Confirm, Settled
<1>3. loop' = loop
  BY <1>1, <1>2 DEF TypeOK, Crash, Enter
<1> QED BY <1>2, <1>3 DEF Crash

\* A step that begins no overlap leaves the other processes idle.
LEMMA OthersStayIdle ==
  ASSUME TypeOK, OthersIdle, [Next]_vars, ~Spend("overlap")
  PROVE  OthersIdle'
<1>1. CASE \/ \E n \in Changes : Request(n)
           \/ \E c \in Configs : Edit(c) \/ Delete(c)
           \/ UNCHANGED vars
  BY <1>1, PeopleKeepLoop DEF OthersIdle
<1>2. ASSUME NEW p \in Ops, Round(p) \/ Crash(p) PROVE OthersIdle'
  <2>1. CASE UNCHANGED loop
    BY <2>1 DEF OthersIdle
  <2>2. CASE p = Main
    BY <1>2, <2>2
       DEF OthersIdle, TypeOK, Round, Fetch, Patch, TakeUp, Confirm, Proceed, Crash, Enter
  <2> QED BY <1>2, <2>1, <2>2, ActingIsMain
<1> QED BY <1>1, <1>2 DEF Next

\* Nor does it settle what is in the batch of the one that works.
LEMMA BatchStep ==
  ASSUME TypeOK, OthersIdle, OthersIdle', BatchInv, [Next]_vars, ~Spend("overlap")
  PROVE  BatchInv'
<1>1. CASE \/ \E n \in Changes : Request(n)
           \/ \E c \in Configs : Edit(c) \/ Delete(c)
           \/ UNCHANGED vars
  <2>1. \A p \in Ops : loop[p].batch \subseteq Changes
    BY DEF TypeOK, Loop
  <2> QED BY <1>1, <2>1, PeopleKeepLoop DEF BatchInv
<1>2. ASSUME NEW p \in Ops, Round(p) \/ Crash(p), p = Main PROVE BatchInv'
  <2> SUFFICES /\ \A n \in loop'[p].batch : state'[n] = "pending"
               /\ loop'[p].pc \in Settled => /\ loop'[p].now \in Changes
                                             /\ state'[loop'[p].now] = "pending"
                                             /\ loop'[p].now \notin loop'[p].batch
    BY <1>2 DEF BatchInv, OthersIdle, Polling, Settled
  <2>0. loop[p].batch \subseteq Changes
    BY DEF TypeOK, Loop
  <2>1. CASE Fetch(p)
    BY <2>1 DEF TypeOK, BatchInv, Fetch, Enter, Pending, Settled, api
  <2>2. ASSUME NEW n \in Changes, Patch(p, n)
        PROVE  /\ state' = state
               /\ loop'[p].batch = loop[p].batch \ {n}
               /\ loop'[p].now = n
               /\ n \in loop[p].batch
    BY <2>2 DEF TypeOK, Patch, TakeUp, Enter, Upcoming, api
  <2>3. CASE Confirm(p)
    <3>1. /\ loop'[p].batch = loop[p].batch
          /\ loop'[p].pc \notin Settled
      BY <2>3 DEF TypeOK, Confirm, Proceed, Enter, Settled
    <3>2. \A n \in Changes \ {loop[p].now} : state'[n] = state[n]
      BY <2>3 DEF TypeOK, Confirm
    <3> QED BY <2>0, <2>3, <3>1, <3>2 DEF BatchInv, Confirm
  <2>4. CASE Crash(p)
    BY <2>4 DEF TypeOK, Crash, Enter, Polling, Settled
  <2> QED BY <1>2, <2>1, <2>2, <2>3, <2>4 DEF Round, BatchInv
<1>3. CASE UNCHANGED <<cluster, api, loop>>
  BY <1>3 DEF BatchInv, api
<1> QED BY <1>1, <1>2, <1>3, ActingIsMain DEF Next

SoloInv == OthersIdle /\ BatchInv

\* The invariant of a process that is alone.
LEMMA SoloHolds == Spec => [](Alone => SoloInv)
<1>1. Init => SoloInv
  BY DEF Init, SoloInv, OthersIdle, BatchInv, Polling, Settled
<1>2. TypeOK /\ (Alone => SoloInv) /\ [Next]_vars => (Alone => SoloInv)'
  <2> SUFFICES ASSUME TypeOK, Alone => SoloInv, [Next]_vars, Alone'
               PROVE  SoloInv'
    OBVIOUS
  <2>1. SoloInv /\ ~Spend("overlap")
    BY SparedBefore DEF Alone, EventKinds
  <2> QED BY <2>1, OthersStayIdle, BatchStep DEF SoloInv
<1> QED BY <1>1, <1>2, TypesHold, PTL DEF Spec

\* The writers a step leaves behind are the old ones, a user, or the change
\* that a loop patches.
LEMMA WhoWrites ==
  ASSUME TypeOK, [Next]_vars, NEW s \in Slots, writer'[s] # writer[s]
  PROVE  \/ writer'[s] = User
         \/ \E p \in Ops, n \in Changes :
               Patch(p, n) /\ Write(n) /\ s = asked[n].slot /\ writer'[s] = n
<1>1. CASE UNCHANGED writer
  BY <1>1
<1>2. ASSUME NEW c \in Configs, Edit(c) PROVE writer'[s] = User
  BY <1>2 DEF Edit
<1>3. ASSUME NEW p \in Ops, NEW n \in Changes, Patch(p, n)
      PROVE  Write(n) /\ s = asked[n].slot /\ writer'[s] = n
  BY <1>3 DEF TypeOK, Patch, Write, cluster
<1> QED
  BY <1>1, <1>2, <1>3
     DEF Next, Round, Request, Delete, Fetch, Confirm, Crash, cluster, vars

\* As long as one process runs, a change that is settled never writes to a spec again,
\* whatever confirmations are lost and however often the process restarts.
THEOREM SettledStaysOver == Spec => SettledIsOver
<1>1. TypeOK /\ (Alone => SoloInv) /\ [Next]_vars =>
         [Alone =>
             \A s \in Slots : writer'[s] # writer[s] =>
                 writer'[s] = User \/ state[writer'[s]] = "pending"]_vars
  <2> SUFFICES ASSUME TypeOK, BatchInv, [Next]_vars,
                      NEW s \in Slots, writer'[s] # writer[s], writer'[s] # User
               PROVE  state[writer'[s]] = "pending"
    BY DEF SoloInv
  <2>1. PICK p \in Ops, n \in Changes : Patch(p, n) /\ writer'[s] = n
    BY WhoWrites
  <2>2. n \in loop[p].batch
    BY <2>1 DEF Patch, Upcoming
  <2> QED BY <2>1, <2>2 DEF BatchInv
<1> QED BY <1>1, TypesHold, SoloHolds, PTL DEF Spec, SettledIsOver, Alone

----------------------------------------------------------------------------
(* Until then, changes are settled in order *)

\* asked and settled changes form initial segments, and so do the changes a
\* loop has put behind it.
AskedInOrder ==
    \A m, n \in Changes : m < n /\ state[n] # "unasked" => state[m] # "unasked"
SettledInOrder ==
    \A m, n \in Changes : m < n /\ state[n] \in Settled => state[m] \in Settled
LoopInOrder ==
    \A p \in Ops :
        /\ \A n \in loop[p].batch, m \in Changes :
              m < n => \/ state[m] \in Settled
                       \/ m \in loop[p].batch
                       \/ loop[p].pc \in Settled /\ m = loop[p].now
        /\ loop[p].pc \in Settled =>
              \A m \in Changes : m < loop[p].now => state[m] \in Settled

\* The change in hand is the last one that wrote its field, or a user was.
HandWrote ==
    \A p \in Ops : loop[p].pc = "applied" =>
        writer[asked[loop[p].now].slot] \in {User, loop[p].now}

\* The newest change wins.
Newest ==
    \A n \in Changes : state[n] = "applied" =>
        LET w == writer[asked[n].slot] IN w = User \/ w >= n

OrderInv ==
    /\ SoloInv
    /\ Spared("confirm")
    /\ AskedInOrder
    /\ SettledInOrder
    /\ LoopInOrder
    /\ HandWrote
    /\ Newest

\* The first state is in order.
LEMMA OrderInit == ASSUME Init PROVE OrderInv
BY DEF Spared, Init, OrderInv, SoloInv, OthersIdle, BatchInv, AskedInOrder, SettledInOrder, LoopInOrder,
       HandWrote, Newest, Polling, Settled

\* People only add a change behind all others, and write as users.
LEMMA PeopleKeepOrder ==
  ASSUME TypeOK, OrderInv, SoloInv', Spared("confirm")',
         \/ \E n \in Changes : Request(n)
         \/ \E c \in Configs : Edit(c) \/ Delete(c)
         \/ UNCHANGED vars
  PROVE  OrderInv'
<1>1. /\ loop' = loop
      /\ \A n \in Changes : state[n] # "unasked" => /\ state'[n] = state[n]
                                                    /\ asked'[n] = asked[n]
      /\ \A n \in Changes : state'[n] = "applied" => state[n] = "applied"
      /\ \A n \in Changes : state'[n] # state[n] => state'[n] = "pending"
  BY PeopleKeepLoop
<1>2. /\ \A s \in Slots : writer'[s] \in {User, writer[s]}
      /\ \A n \in Changes : asked[n].slot \in Slots
  BY DEF TypeOK, Requests, Request, Edit, Delete, vars, cluster
<1>3. AskedInOrder'
  <2>1. ASSUME NEW n \in Changes, Request(n) PROVE AskedInOrder'
    BY <2>1, <1>1 DEF OrderInv, AskedInOrder, Request, TypeOK, Changes
  <2> QED BY <2>1 DEF OrderInv, AskedInOrder, Edit, Delete, vars, api
<1>4. \A n \in Changes : state'[n] \in Settled <=> state[n] \in Settled
  BY <1>1 DEF Settled
<1>5. SettledInOrder'
  BY <1>4 DEF OrderInv, SettledInOrder
<1>6. LoopInOrder'
  BY <1>1, <1>4 DEF OrderInv, LoopInOrder, SoloInv, BatchInv, Settled
<1>7. HandWrote'
  BY <1>1, <1>2 DEF OrderInv, HandWrote, SoloInv, BatchInv, Settled
<1>8. Newest'
  BY <1>1, <1>2 DEF OrderInv, Newest
<1> QED BY <1>3, <1>5, <1>6, <1>7, <1>8 DEF OrderInv

\* What is fetched is in order, and so is what a crash leaves.
LEMMA FetchKeepsOrder ==
  ASSUME TypeOK, OrderInv, SoloInv', Spared("confirm")',
         NEW p \in Ops, p = Main, Fetch(p) \/ Crash(p)
  PROVE  OrderInv'
<1>1. UNCHANGED <<asked, state, writer>>
  BY DEF Fetch, Crash, cluster, api
<1>2. LoopInOrder'
  <2>1. CASE UNCHANGED loop
    BY <1>1, <2>1 DEF OrderInv, LoopInOrder
  <2>2. CASE loop'[p] = [pc |-> "patch", batch |-> Pending, now |-> User]
    <3> SUFFICES ASSUME NEW n \in Pending, NEW m \in Changes, m < n
                 PROVE  state[m] \in Settled \/ m \in Pending
      BY <1>1, <2>2 DEF LoopInOrder, SoloInv, OthersIdle, Polling, Settled
    <3>1. n \in Changes /\ state[n] # "unasked"
      BY DEF Pending
    <3>2. state[m] # "unasked"
      BY <3>1 DEF OrderInv, AskedInOrder
    <3> QED BY <3>2 DEF TypeOK, States, Settled, Pending
  <2>3. CASE loop'[p] = Polling
    BY <1>1, <2>3 DEF LoopInOrder, SoloInv, OthersIdle, Polling, Settled
  <2> QED BY <2>1, <2>2, <2>3 DEF TypeOK, Fetch, Crash, Enter
<1>3. HandWrote'
  <2>1. UNCHANGED loop \/ loop'[p].pc # "applied"
    BY DEF TypeOK, Fetch, Crash, Enter, Polling
  <2> QED BY <1>1, <2>1 DEF OrderInv, HandWrote, SoloInv, OthersIdle, Polling
<1> QED
  BY <1>1, <1>2, <1>3
     DEF OrderInv, AskedInOrder, SettledInOrder, Newest

\* The change a loop takes up is the oldest of its batch: all before it are
\* settled, all after it are not.
LEMMA PatchKeepsOrder ==
  ASSUME OldestFirst, TypeOK, OrderInv, SoloInv', Spared("confirm")',
         NEW p \in Ops, p = Main, NEW n \in Changes, Patch(p, n)
  PROVE  OrderInv'
<1>1. /\ UNCHANGED <<asked, state>>
      /\ loop[p].pc = "patch" /\ n \in loop[p].batch
      /\ \A m \in loop[p].batch : n <= m
      /\ loop'[p].batch = loop[p].batch \ {n}
      /\ loop'[p].now = n
      /\ loop'[p].pc \in Settled
  BY DEF TypeOK, Patch, Upcoming, TakeUp, Enter, Settled, api
<1>2. loop[p].batch \subseteq Changes
  BY DEF TypeOK, Loop
<1>3. \A m \in Changes : m < n => state[m] \in Settled
  <2> SUFFICES ASSUME NEW m \in Changes, m < n PROVE state[m] \in Settled
    OBVIOUS
  <2>1. m \notin loop[p].batch
    BY <1>1 DEF Changes
  <2> QED BY <1>1, <2>1 DEF OrderInv, LoopInOrder, Settled
<1>4. LoopInOrder'
  BY <1>1, <1>3 DEF OrderInv, LoopInOrder, SoloInv, OthersIdle, Polling, Settled
<1>5. HandWrote'
  <2>1. loop'[p].pc = "applied" => Write(n)
    BY DEF TypeOK, Patch, TakeUp, Enter
  <2>2. asked[n].slot \in Slots
    BY DEF TypeOK, Requests
  <2> QED BY <1>1, <2>1, <2>2 DEF HandWrote, TypeOK, Write, SoloInv, OthersIdle, Polling
<1>6. Newest'
  <2> SUFFICES ASSUME NEW m \in Changes, state[m] = "applied",
                      writer'[asked[m].slot] # User
               PROVE  writer'[asked[m].slot] >= m
    BY <1>1 DEF Newest
  <2>1. asked[m].slot \in Slots /\ asked[n].slot \in Slots
    BY DEF TypeOK, Requests
  <2>2. CASE writer'[asked[m].slot] = writer[asked[m].slot]
    BY <2>2 DEF OrderInv, Newest
  <2>3. CASE writer'[asked[m].slot] = n
    <3>1. state[n] = "pending"
      BY <1>1 DEF OrderInv, SoloInv, BatchInv
    <3>2. ~(n < m)
      BY <3>1 DEF OrderInv, SettledInOrder, Settled
    <3> QED BY <2>3, <3>2 DEF Changes
  <2> QED
    BY <2>1, <2>2, <2>3 DEF TypeOK, Patch, Write, cluster
<1> QED
  BY <1>1, <1>4, <1>5, <1>6 DEF OrderInv, AskedInOrder, SettledInOrder

\* A confirmation that arrives keeps the order.
LEMMA ConfirmKeepsOrder ==
  ASSUME TypeOK, OrderInv, SoloInv', Spared("confirm")',
         NEW p \in Ops, p = Main, Confirm(p), ~Spend("confirm")
  PROVE  OrderInv'
<1> DEFINE n == loop[p].now
<1>1. /\ n \in Changes /\ state[n] = "pending"
      /\ loop[p].pc \in Settled
  BY DEF OrderInv, SoloInv, BatchInv, Confirm
<1>2. state' = [state EXCEPT ![n] = loop[p].pc]
  BY DEF Confirm
<1>3. UNCHANGED <<asked, writer>>
  BY DEF Confirm, cluster
<1>4. /\ loop'[p].batch = loop[p].batch
      /\ loop'[p].pc \notin Settled
  BY DEF TypeOK, Confirm, Proceed, Enter, Settled
<1>5. \A m \in Changes : m < n => state[m] \in Settled
  BY <1>1 DEF OrderInv, LoopInOrder
<1>6. /\ state'[n] = loop[p].pc
      /\ \A m \in Changes \ {n} : state'[m] = state[m]
  BY <1>1, <1>2 DEF TypeOK
<1> HIDE DEF n
<1>7. AskedInOrder'
  BY <1>1, <1>6 DEF OrderInv, AskedInOrder, Settled
<1>8. SettledInOrder'
  BY <1>1, <1>5, <1>6 DEF OrderInv, SettledInOrder, Settled, Changes
<1>9. LoopInOrder'
  <2> SUFFICES ASSUME NEW k \in loop[p].batch, NEW m \in Changes, m < k
               PROVE  state'[m] \in Settled \/ m \in loop[p].batch
    BY <1>4 DEF LoopInOrder, SoloInv, OthersIdle, Polling, Settled
  <2>1. CASE m = n
    BY <1>1, <1>6, <2>1
  <2>2. CASE m # n
    BY <1>6, <2>2 DEF OrderInv, LoopInOrder, n
  <2> QED BY <2>1, <2>2
<1>10. HandWrote'
  BY <1>4 DEF HandWrote, SoloInv, OthersIdle, Polling, Settled
<1>11. Newest'
  <2> SUFFICES ASSUME NEW m \in Changes, state'[m] = "applied",
                      writer[asked[m].slot] # User
               PROVE  writer[asked[m].slot] >= m
    BY <1>3 DEF Newest
  <2>1. CASE m = n
    BY <1>1, <1>6, <2>1 DEF OrderInv, HandWrote, n, Changes
  <2>2. CASE m # n
    BY <1>6, <2>2 DEF OrderInv, Newest
  <2> QED BY <2>1, <2>2
<1> QED BY <1>7, <1>8, <1>9, <1>10, <1>11 DEF OrderInv

\* As long as one process runs, takes older changes first, and loses no confirmation, no
\* later change to a field is overwritten by an earlier one, whatever crashes and
\* failing patches there are.
THEOREM NewestChangeWins == ASSUME OldestFirst PROVE Spec => []NewestWins
<1> DEFINE InOrder == Alone /\ Spared("confirm")
<1>1. Init => (InOrder => OrderInv)
  BY OrderInit
<1>2. TypeOK /\ (InOrder => OrderInv) /\ [Next]_vars => (InOrder => OrderInv)'
  <2> SUFFICES ASSUME TypeOK, InOrder => OrderInv, [Next]_vars, InOrder'
               PROVE  OrderInv'
    OBVIOUS
  <2>1. OrderInv /\ ~Spend("confirm") /\ ~Spend("overlap")
    BY SparedBefore DEF Alone, EventKinds
  <2>2. SoloInv'
    BY <2>1, OthersStayIdle, BatchStep DEF OrderInv, SoloInv
  <2>3. CASE UNCHANGED <<cluster, api, loop>>
    BY <2>1, <2>2, <2>3
       DEF OrderInv, AskedInOrder, SettledInOrder, LoopInOrder, HandWrote, Newest, cluster, api
  <2>4. ASSUME NEW p \in Ops, Round(p) \/ Crash(p), p = Main PROVE OrderInv'
    BY <2>1, <2>2, <2>4, FetchKeepsOrder, PatchKeepsOrder, ConfirmKeepsOrder DEF Round
  <2>5. ASSUME NEW p \in Ops, Round(p) \/ Crash(p) PROVE OrderInv'
    BY <2>1, <2>3, <2>4, <2>5, ActingIsMain DEF OrderInv, SoloInv
  <2> QED BY <2>1, <2>2, <2>5, PeopleKeepOrder DEF Next
<1>3. (InOrder => OrderInv) => NewestWins
  BY DEF OrderInv, Newest, NewestWins, Alone
<1> QED BY <1>1, <1>2, <1>3, TypesHold, PTL DEF Spec

----------------------------------------------------------------------------
(* Without a crash: a change is written once *)

Undisturbed == Alone /\ Spared("confirm") /\ Spared("crash")

\* What has been patched is settled, or about to be.
OnceInv ==
    \A n \in patched :
        \/ state[n] \in Settled
        \/ \E p \in Ops : loop[p].pc \in Settled /\ loop[p].now = n

\* Nothing is patched again unless a confirmation or a process was lost.
LEMMA OnceStep ==
  ASSUME TypeOK, SoloInv, SoloInv', OnceInv, [Next]_vars,
         ~Spend("confirm"), ~Spend("crash"), ~Spend("overlap")
  PROVE  OnceInv'
<1>1. CASE \/ \E n \in Changes : Request(n)
           \/ \E c \in Configs : Edit(c) \/ Delete(c)
           \/ UNCHANGED vars
  <2>1. patched' = patched /\ patched \subseteq Changes
    BY <1>1 DEF TypeOK, Request, Edit, Delete, cluster, vars
  <2>2. \A n \in Changes : state[n] \in Settled => state'[n] = state[n]
    BY <1>1, PeopleKeepLoop DEF Settled
  <2> QED BY <1>1, <2>1, <2>2, PeopleKeepLoop DEF OnceInv
<1>2. ASSUME NEW p \in Ops, Fetch(p) PROVE OnceInv'
  <2>1. /\ UNCHANGED <<state, patched>> /\ loop[p].pc \notin Settled
        /\ \A q \in Ops : q # p => loop'[q] = loop[q]
    BY <1>2 DEF TypeOK, Fetch, Enter, cluster, api, Settled
  <2> QED BY <2>1 DEF OnceInv
<1>3. ASSUME NEW p \in Ops, NEW n \in Changes, Patch(p, n) PROVE OnceInv'
  <2>1. /\ state' = state /\ patched' \subseteq patched \cup {n}
        /\ loop[p].pc \notin Settled
        /\ loop'[p].pc \in Settled /\ loop'[p].now = n
        /\ \A q \in Ops : q # p => loop'[q] = loop[q]
    BY <1>3 DEF TypeOK, Patch, Write, TakeUp, Enter, cluster, api, Settled
  <2> QED BY <2>1 DEF OnceInv
<1>4. ASSUME NEW p \in Ops, Confirm(p) PROVE OnceInv'
  <2>1. /\ state' = [state EXCEPT ![loop[p].now] = loop[p].pc]
        /\ patched' = patched /\ patched \subseteq Changes
        /\ loop[p].pc \in Settled
        /\ \A q \in Ops : q # p => loop'[q] = loop[q]
    BY <1>4 DEF TypeOK, Confirm, Proceed, Enter, cluster
  <2>2. \A n \in Changes : \/ n = loop[p].now /\ state'[n] \in Settled
                           \/ n # loop[p].now /\ state'[n] = state[n]
    BY <2>1 DEF TypeOK
  <2> QED BY <2>1, <2>2 DEF OnceInv
<1>5. ASSUME NEW p \in Ops, Crash(p) PROVE FALSE
  BY <1>5 DEF Crash
<1> QED BY <1>1, <1>2, <1>3, <1>4, <1>5 DEF Next, Round

\* As long as one process runs, has not crashed and lost no confirmation, a change is
\* written once, whatever patches fail.
THEOREM ChangesAreWrittenOnce == Spec => WrittenOnce
<1>1. Init => (Undisturbed => OnceInv)
  BY DEF Init, OnceInv
<1>2. TypeOK /\ (Alone => SoloInv) /\ (Alone => SoloInv)' /\ (Undisturbed => OnceInv) /\ [Next]_vars
         => (Undisturbed => OnceInv)'
  <2> SUFFICES ASSUME TypeOK, Alone => SoloInv, (Alone => SoloInv)', Undisturbed => OnceInv,
                      [Next]_vars, Undisturbed'
               PROVE  OnceInv'
    OBVIOUS
  <2>1. /\ Undisturbed
        /\ ~Spend("confirm") /\ ~Spend("crash") /\ ~Spend("overlap")
    BY SparedBefore DEF Undisturbed, Alone, EventKinds
  <2> QED BY <2>1, OnceStep DEF Undisturbed
<1>3. TypeOK /\ (Alone => SoloInv) /\ (Undisturbed => OnceInv) /\ [Next]_vars =>
         [Undisturbed =>
            \A s \in Slots : writer'[s] # writer[s] =>
                writer'[s] = User \/ writer'[s] \notin patched]_vars
  <2> SUFFICES ASSUME TypeOK, SoloInv, OnceInv, [Next]_vars,
                      NEW s \in Slots, writer'[s] # writer[s], writer'[s] # User
               PROVE  writer'[s] \notin patched
    BY DEF Undisturbed
  <2>1. PICK p \in Ops, n \in Changes : Patch(p, n) /\ writer'[s] = n
    BY WhoWrites
  <2>2. state[n] \notin Settled /\ loop[p].pc \notin Settled
    BY <2>1 DEF SoloInv, BatchInv, Patch, Upcoming, Settled
  <2>3. \A q \in Ops : q # p => loop[q].pc \notin Settled
    BY <2>1 DEF SoloInv, OthersIdle, Polling, Patch, Settled
  <2> QED BY <2>1, <2>2, <2>3 DEF OnceInv
<1> QED
  BY <1>1, <1>2, <1>3, TypesHold, SoloHolds, PTL DEF Spec, WrittenOnce, Undisturbed, Alone
=============================================================================
