------------------------------ MODULE MCScoring ------------------------------
EXTENDS Scoring

\* Workloads
Bare == [kind |-> "Deployment", has |-> {"image", "strategy", "replicas"}, replicas |-> 1,
         pinned |-> FALSE, labelled |-> FALSE, high |-> FALSE]
Resources == {"requests.cpu", "limits.cpu", "requests.memory", "limits.memory"}
Good == [Bare EXCEPT !.has = @ \cup Resources, !.replicas = 2, !.pinned = TRUE,
                     !.labelled = TRUE]
Floating == [Good EXCEPT !.pinned = FALSE]
Vital == [Good EXCEPT !.high = TRUE]
Tagged == [Bare EXCEPT !.pinned = TRUE, !.has = @ \cup {"requests.cpu", "requests.memory"}]
Daemon == [Good EXCEPT !.kind = "DaemonSet", !.has = @ \ {"replicas"}]
Loose == [Daemon EXCEPT !.pinned = FALSE]
Stateful == [Bare EXCEPT !.kind = "StatefulSet", !.has = @ \cup Resources]
\* The workload of README.md, section 6.7, with an HPA.
Documented == [Bare EXCEPT !.has = @ \cup {"requests.cpu", "requests.memory", "livenessProbe",
                   "readinessProbe", "runAsNonRoot", "terminationGracePeriodSeconds",
                   "securityContext", "horizontalPodAutoscaler"}]
JustDocumented == {Documented}
SomeWorkloads == {Bare, Good, Floating, Vital, Tagged, Daemon, Loose, Stateful}

\* Files
Entry(id, known, valid, set) == [id |-> id, known |-> known, valid |-> valid, set |-> set]
NewRule == [pillar |-> "resilience", type |-> "boolean", severity |-> "warning", weight |-> 6,
           min |-> Absent, max |-> Absent, kinds |-> {"Deployment"}, profile |-> Absent,
           enabled |-> TRUE]
Shipped == [entries |-> <<Entry("RES-001", TRUE, TRUE, [weight |-> 15, severity |-> "error"]),
                          Entry("RES-007", TRUE, TRUE, [enabled |-> FALSE]),
                          Entry("RES-015", FALSE, TRUE, NewRule)>>,
            thresholds |-> [critical |-> 65, error |-> 75, warning |-> 85]]
Off(id) == Entry(id, TRUE, TRUE, [enabled |-> FALSE])
\* What never passes is switched off, or weighs nothing.
Attainable == [entries |-> <<Off("RES-001"), Off("RES-007"), Off("RES-008"), Off("RES-009"),
                             Off("RES-010"), Off("RES-011"), Off("RES-012"), Off("RES-016"),
                             Off("SEC-002"), Off("SEC-003"), Off("SEC-004"), Off("PERF-001"),
                             Off("PERF-002"), Off("PERF-003"),
                             Entry("RES-002", TRUE, TRUE, [weight |-> 0]),
                             Entry("SEC-001", TRUE, TRUE, [weight |-> 0, severity |-> "critical"])>>,
               thresholds |-> [critical |-> 30, error |-> 60]]
Broken == [Shipped EXCEPT !.entries[2] = Entry("OPS-001", TRUE, FALSE, [weight |-> 0])]
JustAbsent == {Absent}
SomeFiles == {Absent, Shipped, Attainable, Broken}
=============================================================================
