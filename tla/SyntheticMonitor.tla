--------------------------- MODULE SyntheticMonitor ---------------------------
(***************************************************************************)
(* The synthetic monitor process: one daemon thread per check asks its     *)
(* target, sends a gauge to Datadog and sleeps for its interval; the main  *)
(* thread waits for a signal.  Intervals are not measured: a thread that   *)
(* sleeps wakes up eventually.  httpx limits the time between two bytes,   *)
(* not that of a request: a target that trickles holds its thread.         *)
(***************************************************************************)
EXTENDS Naturals, FiniteSets

CONSTANTS
    SiteChecks,      \* checks of type site_health in the file
    JsonChecks,      \* checks of type json_value in the file
    UrlCheck,        \* the check of SYNTHETIC_MONITOR_URL, when there is no file
    NoGauge,         \* no value
    MaxAnswers,      \* bound: how often targets change
    MaxLostGauges    \* bound: how often Datadog refuses

FileChecks == SiteChecks \cup JsonChecks
AllChecks == FileChecks \cup {UrlCheck}

ASSUME ChecksAssumption ==
    /\ SiteChecks \cap JsonChecks = {} /\ UrlCheck \notin FileChecks
    /\ NoGauge \notin {0, 1}
    /\ MaxAnswers \in Nat /\ MaxLostGauges \in Nat

VARIABLES
    source,       \* what the configuration consists of
    hasKey,       \* DD_API_KEY is set
    thread,       \* thread[c]: where the thread of c is
    answer,       \* answer[c]: what the target of c does with a request
    observed,     \* observed[c]: the value found by this round
    possible,     \* possible[c]: the values that were right since the round began
    gauge,        \* gauge[c]: the last value that Datadog got
    answersLeft, gaugesLeft

syntheticVars ==
    <<source, hasKey, thread, answer, observed, possible, gauge, answersLeft, gaugesLeft>>

\* number: 2xx with a number at json_path; text: 2xx with anything else; moved: 3xx
\* after the redirects that were followed; refused: 4xx or 5xx; broken: no reply, of
\* which httpx says so; odd: any other exception; hangs: the reply does not end.
Answers == {"number", "text", "moved", "refused", "broken", "odd", "hangs"}
Sources == {"file", "url", "none", "invalid"}
Places == {"off", "asleep", "asking", "sending", "ended"}
Gauges == {0, 1, NoGauge}

Configured(s) ==
    CASE s = "file" -> FileChecks
      [] s = "url" -> {UrlCheck}
      [] OTHER -> {}

SyntheticTypeOK ==
    /\ source \in Sources /\ hasKey \in BOOLEAN
    /\ thread \in [AllChecks -> Places]
    /\ answer \in [AllChecks -> Answers]
    /\ observed \in [AllChecks -> Gauges]
    /\ possible \in [AllChecks -> SUBSET Gauges]
    /\ gauge \in [AllChecks -> Gauges]
    /\ answersLeft \in 0..MaxAnswers /\ gaugesLeft \in 0..MaxLostGauges
    /\ \A c \in AllChecks : thread[c] # "off" => c \in Configured(source)

\* _load_checks_config and main: a file that cannot be parsed ends the process.
SyntheticInit ==
    /\ source \in Sources /\ hasKey \in BOOLEAN
    /\ thread = [c \in AllChecks |-> IF c \in Configured(source) THEN "asleep" ELSE "off"]
    /\ answer = [c \in AllChecks |-> "number"]
    /\ observed = [c \in AllChecks |-> NoGauge]
    /\ possible = [c \in AllChecks |-> {}]
    /\ gauge = [c \in AllChecks |-> NoGauge]
    /\ answersLeft = MaxAnswers /\ gaugesLeft = MaxLostGauges

----------------------------------------------------------------------------
(* Checks *)

\* A site is up if it answers 2xx or 3xx, and down if it does not answer.
SiteValue(a) ==
    CASE a \in {"number", "text", "moved"} -> 1
      [] a \in {"refused", "broken"} -> 0
      [] OTHER -> NoGauge

\* 1 stands for the number that was found.
JsonValue(a) == IF a = "number" THEN 1 ELSE NoGauge

Reading(c, a) == IF c \in JsonChecks THEN JsonValue(a) ELSE SiteValue(a)

\* Mutant: one loop runs the checks one after the other.
WakeAlone(c) ==
    /\ thread[c] = "asleep"
    /\ \A d \in AllChecks : thread[d] \notin {"asking", "sending"}
    /\ thread' = [thread EXCEPT ![c] = "asking"]
    /\ possible' = [possible EXCEPT ![c] = {Reading(c, answer[c])}]
    /\ UNCHANGED <<source, hasKey, answer, observed, gauge, answersLeft, gaugesLeft>>

Wake(c) ==
    /\ thread[c] = "asleep"
    /\ thread' = [thread EXCEPT ![c] = "asking"]
    /\ possible' = [possible EXCEPT ![c] = {Reading(c, answer[c])}]
    /\ UNCHANGED <<source, hasKey, answer, observed, gauge, answersLeft, gaugesLeft>>

\* Mutant: a round without a value sends that of the last one.
ReplyOrLast(c) ==
    LET value == Reading(c, answer[c])
        kept == IF value = NoGauge THEN observed[c] ELSE value
    IN  /\ thread[c] = "asking"
        /\ answer[c] # "hangs"
        /\ thread' = [thread EXCEPT
                        ![c] = IF hasKey /\ kept # NoGauge THEN "sending" ELSE "asleep"]
        /\ observed' = [observed EXCEPT ![c] = kept]
        /\ UNCHANGED <<source, hasKey, answer, possible, gauge, answersLeft, gaugesLeft>>

\* checker.check returns, or an exception takes the thread to its next interval.
\* Without a key, and without a value, nothing is sent.
Reply(c) ==
    LET value == Reading(c, answer[c])
    IN  /\ thread[c] = "asking"
        /\ answer[c] # "hangs"
        /\ thread' = [thread EXCEPT
                        ![c] = IF hasKey /\ value # NoGauge THEN "sending" ELSE "asleep"]
        /\ observed' = [observed EXCEPT ![c] = value]
        /\ UNCHANGED <<source, hasKey, answer, possible, gauge, answersLeft, gaugesLeft>>

\* send_check_result of SyntheticSiteMetricsManager, send of GaugeMetricSender.
Submit(c) ==
    /\ thread[c] = "sending"
    /\ thread' = [thread EXCEPT ![c] = "asleep"]
    /\ gauge' = [gauge EXCEPT ![c] = observed[c]]
    /\ UNCHANGED <<source, hasKey, answer, observed, possible, answersLeft, gaugesLeft>>

\* Its failure is logged, and the gauge lost.
SubmitFails(c) ==
    /\ thread[c] = "sending"
    /\ gaugesLeft > 0 /\ gaugesLeft' = gaugesLeft - 1
    /\ thread' = [thread EXCEPT ![c] = "asleep"]
    /\ UNCHANGED <<source, hasKey, answer, observed, possible, gauge, answersLeft>>

----------------------------------------------------------------------------
(* Targets, and the signal *)

Change(c) ==
    /\ answersLeft > 0 /\ answersLeft' = answersLeft - 1
    /\ \E a \in Answers \ {answer[c]} :
          /\ answer' = [answer EXCEPT ![c] = a]
          /\ possible' = [possible EXCEPT ![c] = @ \cup {Reading(c, a)}]
    /\ UNCHANGED <<source, hasKey, thread, observed, gauge, gaugesLeft>>

\* main returns, and the daemon threads end with it, wherever they are.
Signal ==
    /\ thread' = [c \in AllChecks |-> IF thread[c] = "off" THEN "off" ELSE "ended"]
    /\ UNCHANGED <<source, hasKey, answer, observed, possible, gauge, answersLeft, gaugesLeft>>

Step(c) == Wake(c) \/ Reply(c) \/ Submit(c)

SyntheticNext == (\E c \in AllChecks : Step(c) \/ SubmitFails(c) \/ Change(c)) \/ Signal

SyntheticSpec == SyntheticInit /\ [][SyntheticNext]_syntheticVars

\* Every thread runs; a request ends unless its target trickles.
SyntheticFairness == \A c \in AllChecks : WF_syntheticVars(Step(c))
FairSyntheticSpec == SyntheticSpec /\ SyntheticFairness

----------------------------------------------------------------------------
(* Properties *)

Running(c) == thread[c] \in {"asleep", "asking", "sending"}

\* What Datadog is told was so at some time of the round that tells it, also when the
\* target changes while it is asked or the rounds before failed.
GaugesAreTrue ==
    \A c \in AllChecks : thread[c] = "sending" => observed[c] \in possible[c] \ {NoGauge}

\* What the target of a check answers gets to Datadog, whatever the targets of the
\* other checks do, and whatever the rounds before ran into: unless it keeps changing,
\* the gauge is right in the end.
GaugesFollow ==
    \A c \in AllChecks :
        []<>(hasKey /\ Running(c) /\ Reading(c, answer[c]) # NoGauge
                => gauge[c] = Reading(c, answer[c]))
=============================================================================
