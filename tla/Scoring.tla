------------------------------- MODULE Scoring -------------------------------
(***************************************************************************)
(* ScorecardService: the rules, what a workload gets for each of them, the *)
(* pillar scores and the overall score, and what they lead to.             *)
(*                                                                         *)
(* The workload is read once, and an evaluation ends some time later: for  *)
(* every rule it calls the Kubernetes API again, for values that are then  *)
(* dropped.  A value is known by what the rules can tell apart.  Scores    *)
(* are fractions, floats in the code.                                      *)
(***************************************************************************)
EXTENDS Integers, Sequences, FiniteSets, Functions, SequencesExt

CONSTANTS
    Workloads,    \* the workloads that the API may return
    Files,        \* config.yaml of the ConfigMap titlis-scorecard-config
    Absent,       \* no value, no file
    CacheTTL,     \* _cache_ttl
    Duration,     \* the longest that an evaluation takes (timeouts of its reads)
    MaxClock,     \* bound: how far time goes
    MaxEdits      \* bound: how often users change the workload

ASSUME ScoringBounds ==
    /\ Absent \notin Nat
    /\ {CacheTTL, Duration, MaxClock, MaxEdits} \subseteq Nat

VARIABLES
    file,       \* config.yaml, as the process found it
    work,       \* the workload
    clock,
    eval,       \* evaluate_resource: what it did so far
    fresh,      \* _validation_cache[key]
    told,       \* the scorecard that the last step returned
    edits

scoringVars == <<file, work, clock, eval, fresh, told, edits>>

----------------------------------------------------------------------------
(* Rules *)

AllKinds == {"Deployment", "StatefulSet", "DaemonSet"}
Only == {"Deployment"}

Rule(id, pillar, type, severity, weight, min, max, kinds, profile) ==
    [id |-> id, pillar |-> pillar, type |-> type, severity |-> severity, weight |-> weight,
     min |-> min, max |-> max, kinds |-> kinds, profile |-> profile, enabled |-> TRUE]
Boolean(id, pillar, severity, weight, kinds) ==
    Rule(id, pillar, "boolean", severity, weight, Absent, Absent, kinds, Absent)
Numeric(id, pillar, severity, weight, min, max, kinds) ==
    Rule(id, pillar, "numeric", severity, weight, min, max, kinds, Absent)
Rigid(rule) == [rule EXCEPT !.profile = "rigid"]

ResilienceRules == <<
    Boolean("RES-001", "resilience", "error", 10, AllKinds),
    Boolean("RES-002", "resilience", "error", 10, AllKinds),
    Boolean("RES-003", "resilience", "error", 8, AllKinds),
    Boolean("RES-004", "resilience", "warning", 5, AllKinds),
    Boolean("RES-005", "resilience", "error", 8, AllKinds),
    Boolean("RES-006", "resilience", "warning", 5, AllKinds),
    Boolean("RES-007", "resilience", "warning", 7, Only),
    Boolean("RES-008", "resilience", "warning", 5, Only),
    Boolean("RES-009", "resilience", "info", 3, AllKinds),
    Boolean("RES-010", "resilience", "error", 10, AllKinds),
    Boolean("RES-011", "resilience", "warning", 5, AllKinds),
    Boolean("RES-012", "resilience", "warning", 7, {"Deployment", "StatefulSet"}),
    Numeric("RES-013", "resilience", "warning", 6, 2, Absent, Only),
    Boolean("RES-014", "resilience", "warning", 4, Only)>>

SecurityRules == <<
    Rule("SEC-001", "security", "regex", "error", 9, Absent, Absent, AllKinds, Absent),
    Boolean("SEC-002", "security", "warning", 6, AllKinds),
    Boolean("SEC-003", "security", "error", 8, AllKinds),
    Boolean("SEC-004", "security", "warning", 5, AllKinds)>>

ScalingRules == <<
    Numeric("PERF-001", "performance", "warning", 4, Absent, 3, AllKinds),
    Numeric("PERF-002", "performance", "info", 3, 50, 90, AllKinds),
    Numeric("RES-016", "resilience", "warning", 5, 2, Absent, Only),
    Numeric("PERF-003", "performance", "info", 3, Absent, 70, Only)>>

RigidRules == <<
    Rigid(Numeric("RES-017", "resilience", "warning", 4, Absent, 0, Only)),
    Rigid(Numeric("RES-018", "resilience", "warning", 4, 300, Absent, Only)),
    Rigid(Boolean("RES-019", "resilience", "warning", 4, Only))>>

OperationalRules == <<
    Boolean("OPS-001", "operational", "warning", 8, Only)>>

DefaultRules == ResilienceRules \o SecurityRules \o ScalingRules \o RigidRules
                \o OperationalRules

DefaultThresholds == [critical |-> 70, error |-> 80, warning |-> 90]
Defaults == [rules |-> DefaultRules] @@ DefaultThresholds

----------------------------------------------------------------------------
(* _load_config *)

\* A file is [entries, thresholds].  An entry is [id, known, valid, set]: known says
\* that the id is that of a default rule, set holds the fields it gives (all those of
\* the rule if it is a new one), valid that its enumerations can be parsed.
Overridden(rule, entries) ==
    FoldLeft(LAMBDA r, e : IF e.id = r.id THEN e.set @@ r ELSE r, rule, entries)

\* The default rules are changed in place: when an entry is malformed, those before
\* it stay in force, and so do weight and enabled of that entry itself.  What the
\* file adds, and its thresholds, are dropped.
Loaded(f) ==
    LET malformed == SelectInSeq(f.entries, LAMBDA e : ~e.valid)
        applied == IF malformed = 0 THEN f.entries ELSE SubSeq(f.entries, 1, malformed)
        known == [i \in DOMAIN DefaultRules |-> Overridden(DefaultRules[i], applied)]
        new == SelectSeq(applied, LAMBDA e : ~e.known)
        added == [i \in DOMAIN new |-> [id |-> new[i].id] @@ new[i].set]
    IN  IF malformed = 0
        THEN [rules |-> known \o added] @@ f.thresholds @@ DefaultThresholds
        ELSE [rules |-> known] @@ DefaultThresholds

Conf == [f \in Files |-> IF f = Absent THEN Defaults ELSE Loaded(f)]

\* No file makes a rule weigh less than nothing.
ASSUME FilesAreSound ==
    \A f \in Files :
        /\ {Conf[f].critical, Conf[f].error, Conf[f].warning} \subseteq Int
        /\ IsFiniteSet(DOMAIN Conf[f].rules)
        /\ \A i \in DOMAIN Conf[f].rules : Conf[f].rules[i].weight \in Nat

----------------------------------------------------------------------------
(* What a rule looks at *)

\* The fields of a container that to_dict(), of the Kubernetes client, spells as the
\* paths of the rules do: it turns livenessProbe into liveness_probe, and so on.
Spelled == {"requests.cpu", "limits.cpu", "requests.memory", "limits.memory",
            "replicas", "strategy", "image"}

Path == ("RES-001" :> "livenessProbe") @@ ("RES-002" :> "readinessProbe")
    @@ ("RES-003" :> "requests.cpu") @@ ("RES-004" :> "limits.cpu")
    @@ ("RES-005" :> "requests.memory") @@ ("RES-006" :> "limits.memory")
    @@ ("RES-009" :> "terminationGracePeriodSeconds")
    @@ ("RES-010" :> "runAsNonRoot") @@ ("RES-011" :> "securityContext")
    @@ ("RES-013" :> "replicas") @@ ("RES-014" :> "strategy") @@ ("SEC-001" :> "image")
    @@ ("SEC-002" :> "readOnlyRootFilesystem")
    @@ ("SEC-003" :> "allowPrivilegeEscalation") @@ ("SEC-004" :> "capabilities")

Found == 1   \* any value that is not a number

\* w.has are the fields that are set, and "horizontalPodAutoscaler" if an HPA targets
\* the workload.
OfPath(field, w) ==
    IF field \notin Spelled \cap w.has THEN Absent
    ELSE IF field = "replicas" THEN w.replicas ELSE Found

\* The other entries of rule_paths are no paths: they hold what a call returned, on the
\* HPA, the network policies or the limits.  That is neither a function nor a string,
\* and None comes of it.
Value(rule, w) == IF rule.id \in DOMAIN Path THEN OfPath(Path[rule.id], w) ELSE Absent

InRange(rule, v) ==
    /\ rule.min # Absent => v >= rule.min
    /\ rule.max # Absent => v <= rule.max

\* _validate_generic, or the validator named after the rule.
Passes(rule, w) ==
    LET v == Value(rule, w)
    IN  IF rule.id = "OPS-001" THEN w.labelled
        ELSE /\ v # Absent
             /\ rule.type = "numeric" => InRange(rule, v)
             /\ rule.type = "regex" => w.pinned

Criticality(w) == IF w.high THEN "high" ELSE "standard"

Applies(rule, w) ==
    /\ rule.enabled
    /\ w.kind \in rule.kinds
    /\ rule.profile \in {Absent, Criticality(w)}

\* The places of the rules to validate, by file and workload.
Applicable ==
    [f \in Files |-> [w \in Workloads |->
        {i \in DOMAIN Conf[f].rules : Applies(Conf[f].rules[i], w)}]]

----------------------------------------------------------------------------
(* Scores: checks is a set of rules, those that were validated, passed the ids of *)
(* those that passed *)

Product(g) == FoldFunction(LAMBDA x, y : x * y, 1, g)

Weight(rules) == SumFunction([r \in rules |-> r.weight])
Passed(checks, passed) == {r \in checks : r.id \in passed}
OfPillar(checks, pillar) == {r \in checks : r.pillar = pillar}
Pillars(checks) == {r.pillar : r \in checks}

Full == [num |-> 1, den |-> 1]

\* _calculate_pillar_scores, in place of percent a fraction.
PillarScore(checks, passed) ==
    IF Weight(checks) > 0
    THEN [num |-> Weight(Passed(checks, passed)), den |-> Weight(checks)]
    ELSE Full

PillarWeight(pillar) ==
    CASE pillar = "resilience" -> 30
      [] pillar = "security" -> 25
      [] pillar = "compliance" -> 20
      [] pillar = "performance" -> 15
      [] OTHER -> 10

\* Mutant: the weights of pillars without any rule count as well (README.md, 6.7).
OverallOfAll(checks, passed) ==
    LET score == [p \in Pillars(checks) |-> PillarScore(OfPillar(checks, p), passed)]
        common == Product([p \in DOMAIN score |-> score[p].den])
        part == [p \in DOMAIN score |->
                    PillarWeight(p) * score[p].num * (common \div score[p].den)]
    IN  [num |-> SumFunction(part), den |-> 110 * common]

\* _calculate_overall_score, the mean of the pillars that are there.
Overall(checks, passed) ==
    LET pillars == Pillars(checks)
        score == [p \in pillars |-> PillarScore(OfPillar(checks, p), passed)]
        common == Product([p \in pillars |-> score[p].den])
        part == [p \in pillars |-> PillarWeight(p) * score[p].num * (common \div score[p].den)]
    IN  IF checks = {} THEN Full
        ELSE [num |-> SumFunction(part),
              den |-> SumFunction([p \in pillars |-> PillarWeight(p)]) * common]

Issues(checks, passed, severity) ==
    Cardinality({r \in checks : r.id \notin passed /\ r.severity = severity})

----------------------------------------------------------------------------
(* Decisions: s is [score, critical, error, warning], c the configuration *)

Summary(checks, passed) ==
    [score |-> Overall(checks, passed),
     critical |-> Issues(checks, passed, "critical"),
     error |-> Issues(checks, passed, "error"),
     warning |-> Issues(checks, passed, "warning")]

\* percent is a threshold.
Below(score, percent) == score.num * 100 < percent * score.den

\* Mutant: only the score can raise the alarm, and errors.
NotifyByScore(c, s) ==
    \/ Below(s.score, c.critical)
    \/ s.error > 3
    \/ Below(s.score, c.error) /\ s.error > 0
    \/ Below(s.score, c.warning) /\ s.warning > 5

\* No caller passes the last notification: the cooldown never applies.
ShouldNotify(c, s) ==
    \/ Below(s.score, c.critical)
    \/ s.critical > 0
    \/ s.error > 3
    \/ Below(s.score, c.error) /\ s.error > 0
    \/ Below(s.score, c.warning) /\ s.warning > 5

\* Mutant: the conditions are tried in another order.
SeverityReordered(s) ==
    IF Below(s.score, 80) \/ s.error > 0 THEN "error"
    ELSE IF Below(s.score, 70) \/ s.critical > 0 THEN "critical"
    ELSE IF Below(s.score, 90) \/ s.warning > 0 THEN "warning" ELSE "info"

\* The severity of the message that tells of s.  _format_namespace_digest has limits
\* of its own, whatever the file says; get_notification_severity is never called.
Severity(s) ==
    IF Below(s.score, 70) \/ s.critical > 0 THEN "critical"
    ELSE IF Below(s.score, 80) \/ s.error > 0 THEN "error"
    ELSE IF Below(s.score, 90) \/ s.warning > 0 THEN "warning" ELSE "info"

----------------------------------------------------------------------------
(* evaluate_resource *)

Ruling(i) == Conf[file].rules[i]
Ids(places) == {Ruling(i).id : i \in places}

\* A scorecard: what was looked at and passed, when the workload was read (read),
\* when it was made (timestamp), when it was returned (at).
NoScore == [work |-> Absent, passed |-> {}, read |-> 0, timestamp |-> 0, at |-> 0]

Asleep == [running |-> FALSE, card |-> NoScore]

Scorecards == [work : Workloads, passed : SUBSET Ids(DOMAIN Conf[file].rules),
          read : Nat, timestamp : Nat, at : Nat]

\* No scorecard tells of a rule that does not apply.
IsCard(card) ==
    card # NoScore => card \in Scorecards /\ card.passed \subseteq Ids(Applicable[file][card.work])

ScoringTypeOK ==
    /\ file \in Files /\ work \in Workloads
    /\ {clock, edits} \subseteq Nat
    /\ eval \in [running : BOOLEAN, card : Scorecards \cup {NoScore}]
    /\ IsCard(eval.card) /\ IsCard(fresh) /\ IsCard(told)

ScoringInit ==
    /\ file \in Files /\ work \in Workloads
    /\ clock = 0
    /\ eval = Asleep
    /\ fresh = NoScore /\ told = NoScore
    /\ edits = 0

\* Users.
EditWork ==
    /\ edits < MaxEdits
    /\ edits' = edits + 1
    /\ \E w \in Workloads \ {work} : w.kind = work.kind /\ work' = w
    /\ told' = NoScore
    /\ UNCHANGED <<file, clock, eval, fresh>>

Elapse ==
    /\ clock < MaxClock
    /\ eval.running => clock < eval.card.read + Duration
    /\ clock' = clock + 1
    /\ told' = NoScore
    /\ UNCHANGED <<file, work, eval, fresh, edits>>

\* Mutant: what is in the cache is used up to the last tick of its TTL, and it.
UseOld ==
    /\ ~eval.running
    /\ fresh # NoScore /\ clock - fresh.timestamp <= CacheTTL
    /\ told' = [fresh EXCEPT !.at = clock]
    /\ UNCHANGED <<file, work, clock, eval, fresh, edits>>

\* A scorecard in the cache that is not older than the TTL.
UseCache ==
    /\ ~eval.running
    /\ fresh # NoScore /\ clock - fresh.timestamp < CacheTTL
    /\ told' = [fresh EXCEPT !.at = clock]
    /\ UNCHANGED <<file, work, clock, eval, fresh, edits>>

\* _get_resource, and the verdicts that follow from it.
ReadWork ==
    LET good == {i \in Applicable[file][work] : Passes(Ruling(i), work)}
    IN  /\ ~eval.running
        /\ fresh # NoScore => clock - fresh.timestamp >= CacheTTL
        /\ eval' = [running |-> TRUE,
                    card |-> [NoScore EXCEPT !.work = work, !.read = clock, !.passed = Ids(good)]]
        /\ told' = NoScore
        /\ UNCHANGED <<file, work, clock, fresh, edits>>

\* The last rule is done.
Conclude ==
    LET card == [eval.card EXCEPT !.timestamp = clock, !.at = clock]
    IN  /\ eval.running
        /\ eval' = Asleep
        /\ fresh' = card /\ told' = card
        /\ UNCHANGED <<file, work, clock, edits>>

ScoringNext == EditWork \/ Elapse \/ UseCache \/ ReadWork \/ Conclude

ScoringSpec == ScoringInit /\ [][ScoringNext]_scoringVars

----------------------------------------------------------------------------
(* Properties of the scorecards that are made *)

Checks(card) == {Ruling(i) : i \in Applicable[file][card.work]}
Made == told # NoScore /\ told = fresh

\* A score lies between 0 and 100, and is 100 exactly if every rule that weighs
\* something passed: pillars that are absent, pillars without weight and rules
\* added by the file do not change that.
FullMarks ==
    Made =>
        LET score == Overall(Checks(told), told.passed)
        IN  /\ 0 <= score.num /\ score.num <= score.den
            /\ score.num = score.den
                 <=> \A r \in Checks(told) : r.weight > 0 => r.id \in told.passed

\* To fix what one rule complains of never lowers the score, never makes the message
\* more severe, and never makes a message due that was not.
Severities == {"info", "warning", "error", "critical"}
SeverityRank ==
    [s \in Severities |-> CASE s = "info" -> 0 [] s = "warning" -> 1
                            [] s = "error" -> 2 [] s = "critical" -> 3]
FixingNeverHurts ==
    Made =>
        LET before == Summary(Checks(told), told.passed)
        IN  \A r \in {x \in Checks(told) : x.id \notin told.passed} :
                LET after == Summary(Checks(told), told.passed \cup {r.id})
                IN  /\ after.score.den = before.score.den
                    /\ after.score.num >= before.score.num
                    /\ SeverityRank[Severity(after)] <= SeverityRank[Severity(before)]
                    /\ ShouldNotify(Conf[file], after) => ShouldNotify(Conf[file], before)

\* With thresholds up to those of the message, 90 at most, a message that is due is
\* more than information; and what would be critical is due, unless the score lies
\* between the file's threshold and that of the message.
AlarmsAgree ==
    Made =>
        LET c == Conf[file]
            s == Summary(Checks(told), told.passed)
        IN  /\ ShouldNotify(c, s) => Severity(s) # "info"
            /\ Severity(s) = "critical" /\ (Below(s.score, 70) => Below(s.score, c.critical))
                  => ShouldNotify(c, s)

\* A scorecard shows a workload as it was at most the TTL and the time of an
\* evaluation ago: its timestamp is taken at the end of it.
ScoresAreRecent ==
    told # NoScore =>
        \/ told.at - told.read <= Duration
        \/ told.at - told.read < CacheTTL + Duration

\* README.md, lines 579-589: a Boolean rule passes if its value exists, that of RES-007
\* (line 644) if there is an HPA.
Subject == Path @@ ("RES-007" :> "horizontalPodAutoscaler")
PresenceCounts ==
    file = Absent /\ told # NoScore =>
        \A r \in Checks(told) :
            r.type = "boolean" /\ r.id \in DOMAIN Subject /\ Subject[r.id] \in told.work.has
                => r.id \in told.passed
=============================================================================
