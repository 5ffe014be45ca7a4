--------------------------- MODULE PendingChanges ---------------------------
(***************************************************************************)
(* Changes to SLOConfigs that people request in Titlis: the loop of        *)
(* slo_pending_changes_controller polls the Titlis API for them, patches   *)
(* the SLOConfigs one change after the other, and confirms each change as  *)
(* applied or failed by a second call to the API.                          *)
(*                                                                         *)
(* Nothing ties the patch to its confirmation.  A crash, or a confirmation *)
(* that never arrives, leaves a change pending whose patch took effect;    *)
(* users edit, delete and recreate the same SLOConfigs meanwhile.          *)
(***************************************************************************)
EXTENDS Naturals, FiniteSets

CONSTANTS
    NChanges,     \* bound on the changes ever requested
    Configs,      \* namespaced names of SLOConfigs
    Fields,       \* fields of the spec that can be changed
    Values,       \* values of a field
    Malformed,    \* values that _coerce_field_value cannot turn into a number
    Numeric,      \* the fields it turns into numbers: target and warning
    Ops,          \* operator processes
    Main,         \* the one that runs all the time; a rollout adds another for a while
    OldestFirst,  \* the API lists older requests first
    Budget        \* Budget[k]: bound on the events of kind k

EventKinds == {"edit", "delete", "kube", "lost", "confirm", "crash", "overlap"}

ASSUME ChangesAssumption == NChanges \in Nat
ASSUME ConfigsAssumption ==
    /\ Configs # {} /\ Fields # {} /\ Values # {}
    /\ Malformed \subseteq Values
    /\ Numeric \subseteq Fields
ASSUME PendingAssumption ==
    /\ Main \in Ops
    /\ OldestFirst \in BOOLEAN
    /\ Budget \in [EventKinds -> Nat]

Changes == 1..NChanges
Slots == Configs \X Fields
User == 0                     \* the writer that is not a change

VARIABLES
    present,  \* SLOConfigs that exist
    spec,     \* spec[s]: value of field s[2] of SLOConfig s[1]
    asked,    \* asked[n]: what change n asks for
    state,    \* state[n]: what the Titlis API records of change n
    loop,     \* loop[p]: where the loop of process p is
    patched,  \* changes whose patch has taken effect at least once
    writer,   \* writer[s]: who wrote spec[s] last
    left      \* events of each kind still allowed

vars == <<present, spec, asked, state, loop, patched, writer, left>>
cluster == <<present, spec, patched, writer>>
api == <<asked, state>>

----------------------------------------------------------------------------
(* Types and initial state *)

Requests == [slot: Slots, value: Values]
States == {"unasked", "pending", "applied", "failed"}
Settled == {"applied", "failed"}
Steps == {"poll", "patch", "applied", "failed"}
Writers == Changes \cup {User}

\* batch: the changes of the reply that are still to come; now: the one in hand.
Loop == [pc: Steps, batch: SUBSET Changes, now: Writers]
Polling == [pc |-> "poll", batch |-> {}, now |-> User]

\* The CRD's schema and float(value) agree on what a numeric field can hold.
Fits(f, v) == f \in Numeric => v \notin Malformed

Allowance ==
    /\ left \in [EventKinds -> Nat]
    /\ \A k \in EventKinds : left[k] <= Budget[k]

TypeOK ==
    /\ present \subseteq Configs
    /\ spec \in [Slots -> Values]
    /\ \A s \in Slots : Fits(s[2], spec[s])
    /\ asked \in [Changes -> Requests]
    /\ state \in [Changes -> States]
    /\ loop \in [Ops -> Loop]
    /\ patched \subseteq Changes
    /\ writer \in [Slots -> Writers]
    /\ Allowance

Init ==
    /\ present = Configs
    /\ spec \in {v \in [Slots -> Values] : \A s \in Slots : Fits(s[2], v[s])}
    /\ asked = [n \in Changes |-> CHOOSE r \in Requests : TRUE]
    /\ state = [n \in Changes |-> "unasked"]
    /\ loop = [p \in Ops |-> Polling]
    /\ patched = {}
    /\ writer = [s \in Slots |-> User]
    /\ left = Budget

Pending == {n \in Changes : state[n] = "pending"}

Spend(kind) ==
    /\ left[kind] > 0
    /\ left' = [left EXCEPT ![kind] = @ - 1]

\* No event of this kind has happened so far.
Spared(kind) == left[kind] = Budget[kind]

----------------------------------------------------------------------------
(* People: requests in Titlis, edits in the cluster *)

Request(n) ==
    /\ state[n] = "unasked"
    /\ \A m \in Changes : m < n => state[m] # "unasked"
    /\ \E r \in Requests : asked' = [asked EXCEPT ![n] = r]
    /\ state' = [state EXCEPT ![n] = "pending"]
    /\ UNCHANGED <<cluster, loop, left>>

\* kubectl apply on a present SLOConfig, or creation of a deleted one.
Edit(c) ==
    /\ Spend("edit")
    /\ present' = present \cup {c}
    /\ \E new \in {v \in [Fields -> Values] : \A f \in Fields : Fits(f, v[f])} :
          spec' = [s \in Slots |-> IF s[1] = c THEN new[s[2]] ELSE spec[s]]
    /\ writer' = [s \in Slots |-> IF s[1] = c THEN User ELSE writer[s]]
    /\ UNCHANGED <<api, loop, patched>>

Delete(c) ==
    /\ c \in present
    /\ Spend("delete")
    /\ present' = present \ {c}
    /\ UNCHANGED <<spec, patched, writer, api, loop>>

----------------------------------------------------------------------------
(* The loop *)

Enter(p, frame) == loop' = [loop EXCEPT ![p] = frame]

\* get_pending_slo_changes.  A timeout gives None, another error [], and both leave
\* everything as it was.  A round of a process other than Main is an overlap.
Fetch(p) ==
    /\ loop[p].pc = "poll"
    /\ Pending # {}
    /\ Enter(p, [pc |-> "patch", batch |-> Pending, now |-> User])
    /\ IF p = Main THEN UNCHANGED left ELSE Spend("overlap")
    /\ UNCHANGED <<cluster, api>>

\* Mutant: the newest change of the reply first.
NewestUpcoming(p, n) ==
    /\ n \in loop[p].batch
    /\ OldestFirst => \A m \in loop[p].batch : n >= m

\* The change the for loop of apply_pending_slo_changes comes to.
Upcoming(p, n) ==
    /\ n \in loop[p].batch
    /\ OldestFirst => \A m \in loop[p].batch : n <= m

TakeUp(p, n, step) ==
    Enter(p, [pc |-> step, batch |-> loop[p].batch \ {n}, now |-> n])

\* patch_namespaced_custom_object took effect.
Write(n) ==
    /\ asked[n].slot[1] \in present
    /\ spec' = [spec EXCEPT ![asked[n].slot] = asked[n].value]
    /\ writer' = [writer EXCEPT ![asked[n].slot] = n]
    /\ patched' = patched \cup {n}
    /\ UNCHANGED present

\* _coerce_field_value does not raise.
Coercible(r) == Fits(r.slot[2], r.value)

\* Mutant: the value is coerced outside the try block, which ends the round.
CoerceFirst(p, n) ==
    /\ loop[p].pc = "patch"
    /\ Upcoming(p, n)
    /\ \/ /\ ~Coercible(asked[n])
          /\ Enter(p, Polling)
          /\ UNCHANGED <<cluster, left>>
       \/ /\ Coercible(asked[n])
          /\ \/ Write(n) /\ TakeUp(p, n, "applied") /\ UNCHANGED left
             \/ Spend("lost") /\ Write(n) /\ TakeUp(p, n, "failed")
             \/ Spend("kube") /\ TakeUp(p, n, "failed") /\ UNCHANGED cluster
             \/ /\ asked[n].slot[1] \notin present
                /\ TakeUp(p, n, "failed")
                /\ UNCHANGED <<cluster, left>>
    /\ UNCHANGED api

\* Mutant: the change is confirmed as applied whatever became of its patch.
ConfirmFirst(p, n) ==
    /\ loop[p].pc = "patch"
    /\ Upcoming(p, n)
    /\ \/ Coercible(asked[n]) /\ Write(n) /\ UNCHANGED left
       \/ Coercible(asked[n]) /\ Spend("lost") /\ Write(n)
       \/ /\ ~Coercible(asked[n]) \/ asked[n].slot[1] \notin present
          /\ UNCHANGED <<cluster, left>>
       \/ Spend("kube") /\ UNCHANGED cluster
    /\ TakeUp(p, n, "applied")
    /\ UNCHANGED api

\* _apply_single_change up to the confirmation: coercion, then the patch.  A
\* value that is no number, a missing SLOConfig, a failed call and a lost
\* reply are one exception to it, and the change is confirmed as failed.
Patch(p, n) ==
    /\ loop[p].pc = "patch"
    /\ Upcoming(p, n)
    /\ \/ /\ Coercible(asked[n])
          /\ Write(n)
          /\ TakeUp(p, n, "applied")
          /\ UNCHANGED left
       \/ /\ Coercible(asked[n])
          /\ Spend("lost")
          /\ Write(n)
          /\ TakeUp(p, n, "failed")
       \/ /\ ~Coercible(asked[n]) \/ asked[n].slot[1] \notin present
          /\ TakeUp(p, n, "failed")
          /\ UNCHANGED <<cluster, left>>
       \/ /\ Spend("kube")
          /\ TakeUp(p, n, "failed")
          /\ UNCHANGED cluster
    /\ UNCHANGED api

\* The for loop goes on with the next change, or sleeps until the next poll.
Proceed(p) ==
    Enter(p, [pc |-> IF loop[p].batch = {} THEN "poll" ELSE "patch",
              batch |-> loop[p].batch, now |-> User])

\* Mutant: a change whose confirmation raised is put back into the batch.
ConfirmOrRepeat(p) ==
    /\ loop[p].pc \in Settled
    /\ \/ /\ state' = [state EXCEPT ![loop[p].now] = loop[p].pc]
          /\ Proceed(p)
          /\ UNCHANGED left
       \/ /\ Spend("confirm")
          /\ state' = [state EXCEPT ![loop[p].now] = loop[p].pc]
          /\ Enter(p, [pc |-> "patch", batch |-> loop[p].batch \cup {loop[p].now},
                       now |-> User])
    /\ UNCHANGED <<cluster, asked>>

\* Mutant: only failures are confirmed.
ConfirmFailures(p) ==
    /\ loop[p].pc \in Settled
    /\ \/ /\ loop[p].pc = "failed"
          /\ state' = [state EXCEPT ![loop[p].now] = "failed"]
          /\ UNCHANGED left
       \/ /\ loop[p].pc = "applied"
          /\ UNCHANGED <<state, left>>
    /\ Proceed(p)
    /\ UNCHANGED <<cluster, asked>>

\* confirm_slo_change_applied and confirm_slo_change_failed never raise, and
\* their result is not looked at: a lost request is as good as an answered one.
Confirm(p) ==
    /\ loop[p].pc \in Settled
    /\ \/ /\ state' = [state EXCEPT ![loop[p].now] = loop[p].pc]
          /\ UNCHANGED left
       \/ /\ Spend("confirm")
          /\ UNCHANGED state
    /\ Proceed(p)
    /\ UNCHANGED <<cluster, asked>>

\* The pod dies; the new one polls afresh.
Crash(p) ==
    /\ Spend("crash")
    /\ Enter(p, Polling)
    /\ UNCHANGED <<cluster, api>>

----------------------------------------------------------------------------
(* The specification *)

Round(p) == Fetch(p) \/ (\E n \in Changes : Patch(p, n)) \/ Confirm(p)

Next ==
    \/ \E n \in Changes : Request(n)
    \/ \E c \in Configs : Edit(c) \/ Delete(c)
    \/ \E p \in Ops : Round(p) \/ Crash(p)

Spec == Init /\ [][Next]_vars

\* _pending_changes_loop polls for ever, whatever a round raised; every call of
\* a round returns or fails, and the API can be reached again and again.
FairSpec == Spec /\ \A p \in Ops : WF_vars(Round(p))

----------------------------------------------------------------------------
(* Properties *)

\* The Titlis API records a change as applied only if its patch has taken
\* effect, whatever is lost, crashes or runs twice.
AppliedMeansPatched == \A n \in Changes : state[n] = "applied" => n \in patched

\* Every requested change is settled in the end: one that cannot be applied
\* does not hold up those behind it, and a crash or a lost confirmation only
\* delays it.
EverySettled == \A n \in Changes : []<>(state[n] # "pending")

\* Until a second process begins a round, a change that the API has recorded as
\* settled never writes to the spec again: no copy of it is left in a batch.
SettledIsOver ==
    [][Spared("overlap") =>
          \A s \in Slots : writer'[s] # writer[s] =>
              writer'[s] = User \/ state[writer'[s]] = "pending"]_vars

\* Until then, and as long as no confirmation was lost, a later change to a field is
\* never overwritten by an earlier one, although a crash makes the loop apply changes
\* a second time.
NewestWins ==
    Spared("overlap") /\ Spared("confirm") =>
        \A n \in Changes : state[n] = "applied" =>
            LET w == writer[asked[n].slot] IN w = User \/ w >= n

\* Until then, and as long as the process has not crashed and no confirmation was lost,
\* a change is written once: it never undoes what somebody wrote after it.
WrittenOnce ==
    [][Spared("overlap") /\ Spared("confirm") /\ Spared("crash") =>
          \A s \in Slots : writer'[s] # writer[s] =>
              writer'[s] = User \/ writer'[s] \notin patched]_vars
=============================================================================
