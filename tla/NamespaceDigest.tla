--------------------------- MODULE NamespaceDigest ---------------------------
(***************************************************************************)
(* The digests of ScorecardController: a scorecard that should_notify      *)
(* selects goes into NamespaceNotificationBuffer, and the handler that     *)
(* finds the interval of its namespace over takes the whole namespace out  *)
(* of the buffer and sends it to Slack as one message.                     *)
(*                                                                         *)
(* kopf runs one handler per Deployment, and the handlers of a namespace   *)
(* interleave at their awaits: while one of them waits for Slack, others   *)
(* fill the buffer again.  Buffer and marks live in memory, so a behaviour *)
(* is the life of one process.                                             *)
(***************************************************************************)
EXTENDS Naturals, Sequences, FiniteSets

CONSTANTS
    Apps,        \* Deployments
    Namespaces,
    Home,        \* Home[a]: the namespace of a
    Interval,    \* digest_interval_minutes
    Room,        \* so many apps always fit into the 3000 characters of a digest
    Patience,    \* what the timeouts of Slack leave a digest at most
    MaxCards,    \* bound on the scorecards of an app
    MaxTime,     \* bound on the clock
    MaxFailures  \* bound on the digests that are not delivered

ASSUME AppsAssumption == Home \in [Apps -> Namespaces] /\ IsFiniteSet(Apps) /\ Room \in Nat
ASSUME TimesAssumption ==
    /\ Interval \in Nat /\ Patience \in Nat
    /\ Patience < Interval
ASSUME DigestAssumption ==
    MaxCards \in Nat /\ MaxTime \in Nat /\ MaxFailures \in Nat

VARIABLES
    now,       \* the clock
    noted,     \* noted[a]: last scorecard of a handed to the buffer (0: none)
    buffer,    \* buffer[a]: the scorecard of a in the buffer (0: none)
    lastSent,  \* lastSent[n]: the mark of the last flush (0: there was none)
    h,         \* h[a]: the handler of a while it sends a digest
    shown,     \* shown[a]: scorecard of a in the last digest that showed a
    cut,       \* cut[a]: scorecard of a that a digest was too long for, the last one
    flushes,   \* flushes[n]: when the digests of n were taken from the buffer
    failures   \* digests that may still fail

digestVars == <<now, noted, buffer, lastSent, h, shown, cut, flushes, failures>>

----------------------------------------------------------------------------
(* Types and initial state *)

Cards == 0..MaxCards
Digest == [Apps -> Cards]
Nothing == [a \in Apps |-> 0]
Handler == [sending : BOOLEAN, digest : Digest, since : Nat]
Resting == [sending |-> FALSE, digest |-> Nothing, since |-> 0]

\* The digest that a sends shows b; it shows one namespace only.
InDigest(a, b) == h[a].digest[b] # 0
OfHome(a) == \A b \in Apps : InDigest(a, b) => Home[b] = Home[a]

DigestTypeOK ==
    /\ now \in Nat
    /\ noted \in [Apps -> Cards]
    /\ buffer \in Digest
    /\ lastSent \in [Namespaces -> Nat]
    /\ h \in [Apps -> Handler]
    /\ \A a \in Apps : h[a].sending => InDigest(a, a) /\ OfHome(a)
    /\ shown \in [Apps -> Cards] /\ cut \in [Apps -> Cards]
    /\ flushes \in [Namespaces -> Seq(Nat)]
    /\ failures \in 0..MaxFailures

\* The clock starts so late that 0 is a whole interval ago.
Start == Interval

DigestInit ==
    /\ now = Start
    /\ noted = [a \in Apps |-> 0]
    /\ buffer = Nothing
    /\ lastSent = [n \in Namespaces |-> 0]
    /\ h = [a \in Apps |-> Resting]
    /\ shown = [a \in Apps |-> 0] /\ cut = [a \in Apps |-> 0]
    /\ flushes = [n \in Namespaces |-> <<>>]
    /\ failures = MaxFailures

----------------------------------------------------------------------------
(* NamespaceNotificationBuffer *)

ShouldFlush(n) == now >= lastSent[n] + Interval

\* The part of b that belongs to namespace n.
OfNamespace(b, n) == [a \in Apps |-> IF Home[a] = n THEN b[a] ELSE 0]
Without(b, n) == [a \in Apps |-> IF Home[a] = n THEN 0 ELSE b[a]]

\* Mutant: the marks follow a fixed schedule.
MarkSchedule(a, card) ==
    LET n == Home[a]
        full == [buffer EXCEPT ![a] = card]
    IN  IF ShouldFlush(n)
        THEN /\ h' = [h EXCEPT ![a] = [sending |-> TRUE, since |-> now,
                                       digest |-> OfNamespace(full, n)]]
             /\ buffer' = Without(full, n)
             /\ lastSent' = [lastSent EXCEPT ![n] = @ + Interval]
             /\ flushes' = [flushes EXCEPT ![n] = Append(@, now)]
        ELSE /\ buffer' = full
             /\ UNCHANGED <<h, lastSent, flushes>>

\* add_and_maybe_flush, up to the await of _send_namespace_digest.
AddAndMaybeFlush(a, card) ==
    LET n == Home[a]
        full == [buffer EXCEPT ![a] = card]
    IN  IF ShouldFlush(n)
        THEN /\ h' = [h EXCEPT ![a] = [sending |-> TRUE, since |-> now,
                                       digest |-> OfNamespace(full, n)]]
             /\ buffer' = Without(full, n)
             /\ lastSent' = [lastSent EXCEPT ![n] = now]
             /\ flushes' = [flushes EXCEPT ![n] = Append(@, now)]
        ELSE /\ buffer' = full
             /\ UNCHANGED <<h, lastSent, flushes>>

----------------------------------------------------------------------------
(* ScorecardController *)

\* Deployment a was evaluated, should_notify said yes and its handler came as far as the
\* buffer (ScorecardEvents has those that do not).  The scorecard is a new one, or the
\* one evaluate_resource has in its cache.
Notify(a) ==
    /\ ~h[a].sending
    /\ \E card \in {noted[a], noted[a] + 1} :
          /\ card \in 1..MaxCards
          /\ noted' = [noted EXCEPT ![a] = card]
          /\ AddAndMaybeFlush(a, card)
    /\ UNCHANGED <<now, shown, cut, failures>>

\* The apps of the digest that a sends.
Members(a) == {b \in Apps : InDigest(a, b)}

\* _format_namespace_digest cuts a text that is too long: of all its apps the first ones
\* are left, at least as many as always fit.
Lines(a) == {left \in SUBSET Members(a) : left = Members(a) \/ Cardinality(left) >= Room}

Arrives(a, left) ==
    /\ shown' = [b \in Apps |-> IF b \in left THEN h[a].digest[b] ELSE shown[b]]
    /\ cut' = [b \in Apps |-> IF b \in Members(a) \ left THEN h[a].digest[b] ELSE cut[b]]
    /\ h' = [h EXCEPT ![a] = Resting]
    /\ UNCHANGED <<now, noted, lastSent, flushes, failures>>

\* Mutant: when the digest is out, the namespace is cleared from the buffer.
DeliverAndClear(a) ==
    /\ h[a].sending
    /\ \E left \in Lines(a) : Arrives(a, left)
    /\ buffer' = Without(buffer, Home[a])

\* Slack has the digest, or what is left of it.
Deliver(a) ==
    /\ h[a].sending
    /\ \E left \in Lines(a) : Arrives(a, left)
    /\ UNCHANGED buffer

\* The limiter refuses it, or every way fails: it is logged, and gone.
Lose(a) ==
    /\ h[a].sending
    /\ failures > 0
    /\ failures' = failures - 1
    /\ h' = [h EXCEPT ![a] = Resting]
    /\ UNCHANGED <<now, noted, buffer, lastSent, shown, cut, flushes>>

----------------------------------------------------------------------------
(* The specification *)

\* Every call to Slack ends by its timeout.
DigestTick ==
    /\ now < Start + MaxTime
    /\ \A a \in Apps : h[a].sending => now < h[a].since + Patience
    /\ now' = now + 1
    /\ UNCHANGED <<noted, buffer, lastSent, h, shown, cut, flushes, failures>>

DigestNext == DigestTick \/ \E a \in Apps : Notify(a) \/ Deliver(a) \/ Lose(a)

DigestSpec == DigestInit /\ [][DigestNext]_digestVars

----------------------------------------------------------------------------
(* Properties *)

\* A namespace is not sent more than one digest per interval, although the mark
\* and the buffer are shared by handlers that interleave.
DigestSpacing ==
    \A n \in Namespaces : \A i, j \in 1..Len(flushes[n]) :
        i < j => flushes[n][j] >= flushes[n][i] + Interval

\* More Deployments than always fit into a digest.
Crowded(n) == Cardinality({a \in Apps : Home[a] = n}) > Room

\* As long as Slack took every digest, no scorecard that came to the buffer is forgotten
\* or overtaken by an older one: the latest of each app is in the buffer, on its way, or
\* what Slack shows.  Only in a crowded namespace may it be what a digest was cut by.
NothingForgotten ==
    failures = MaxFailures =>
        \A a \in Apps : noted[a] # 0 =>
            \/ buffer[a] = noted[a]
            \/ \E b \in Apps : h[b].sending /\ h[b].digest[a] = noted[a]
            \/ shown[a] = noted[a]
            \/ Crowded(Home[a]) /\ cut[a] = noted[a]
=============================================================================
