---------------------------- MODULE SlackDelivery ----------------------------
(***************************************************************************)
(* How a message leaves the operator: SlackNotificationService hands it to *)
(* SlackRepository, whose rate limiter lets it pass or refuses it, and     *)
(* which then posts it through the webhook and, failing that, the bot.     *)
(*                                                                         *)
(* The handlers of many resources send at the same time: each of them runs *)
(* undisturbed up to an await, so a message is one step through the        *)
(* limiter and one step per answer of Slack.  The limiter counts messages  *)
(* and knows no clock; the message that reaches the limit starts a task    *)
(* that sleeps for a minute and then sets the count to zero.               *)
(***************************************************************************)
EXTENDS Naturals, Sequences, FiniteSets

CONSTANTS
    NMessages,   \* bound on the messages handed to the service
    Filtered,    \* messages whose severity or channel is not enabled
    Channels,    \* the ways configured: a subset of {"webhook", "bot"}
    Limit,       \* rate_limit_per_minute
    Minute,      \* the sleep of _reset_message_count
    SlackMaxTime,     \* bound on the clock
    Budget       \* Budget[k]: bound on the failures of kind k

FaultKinds == {"down", "refused", "lost"}
Ways == {"webhook", "bot"}

ASSUME MessagesAssumption == NMessages \in Nat
ASSUME WaysAssumption == Channels \subseteq Ways
ASSUME LimitAssumption == Limit \in Nat \ {0} /\ Minute \in Nat
ASSUME SlackAssumption == SlackMaxTime \in Nat /\ Budget \in [FaultKinds -> Nat]

Messages == 1..NMessages

VARIABLES
    time,     \* the clock, in units of which a minute has Minute
    ready,   \* initialize has run through: clients exist, sending is enabled
    count,   \* _message_count
    resets,  \* when the sleeping _reset_message_count tasks wake up
    msg,     \* msg[m]: where message m is, or what sending it returned
    posted,  \* posted[m]: the ways by which m has appeared in Slack
    begun,   \* begun[i]: when the i-th message passed the limiter
    left     \* failures of each kind still allowed

slackVars == <<time, ready, count, resets, msg, posted, begun, left>>
limiter == <<count, resets, begun>>

----------------------------------------------------------------------------
(* Types and initial state *)

Results == {"true", "false"}
MsgStates == {"new"} \cup Ways \cup Results

SlackTypeOK ==
    /\ time \in Nat
    /\ ready \in BOOLEAN
    /\ count \in 0..Limit
    /\ resets \subseteq Nat
    /\ msg \in [Messages -> MsgStates]
    /\ posted \in [Messages -> SUBSET Channels]
    /\ begun \in Seq(Nat)
    /\ left \in [FaultKinds -> Nat]
    /\ \A k \in FaultKinds : left[k] <= Budget[k]

\* initialize_slack_service has run, and its failure is only logged.
SlackInit ==
    /\ time = 0
    /\ ready \in BOOLEAN
    /\ count = 0
    /\ resets = {}
    /\ msg = [m \in Messages |-> "new"]
    /\ posted = [m \in Messages |-> {}]
    /\ begun = <<>>
    /\ left = Budget

Spend(kind) ==
    /\ left[kind] > 0
    /\ left' = [left EXCEPT ![kind] = @ - 1]

Become(m, s) == msg' = [msg EXCEPT ![m] = s]

----------------------------------------------------------------------------
(* The limiter *)

\* Mutant: a message more than the limit.
ShouldSendOneMore(m) == ready /\ m \notin Filtered /\ count <= Limit

ShouldSend(m) == ready /\ m \notin Filtered /\ count < Limit

\* Mutant: the task is started by the first message of a minute.
CountFromFirst ==
    /\ count' = count + 1
    /\ resets' = IF count = 0 THEN resets \cup {time + Minute} ELSE resets
    /\ begun' = Append(begun, time)

\* Mutant: the task is started only beyond the limit.
CountBeyond ==
    /\ count' = count + 1
    /\ resets' = IF count' > Limit THEN resets \cup {time + Minute} ELSE resets
    /\ begun' = Append(begun, time)

\* send_notification counts the message; the one that reaches the limit
\* starts the task.
Count ==
    /\ count' = count + 1
    /\ resets' = IF count' >= Limit THEN resets \cup {time + Minute} ELSE resets
    /\ begun' = Append(begun, time)

\* The task wakes up, no earlier than its minute is over.
Reset(t) ==
    /\ t \in resets
    /\ t <= time
    /\ resets' = resets \ {t}
    /\ count' = 0
    /\ UNCHANGED <<time, ready, msg, posted, begun, left>>

----------------------------------------------------------------------------
(* Sending *)

\* The first client that is there; without one the message is given up.
FirstWay == IF "webhook" \in Channels THEN "webhook"
            ELSE IF "bot" \in Channels THEN "bot" ELSE "false"

\* Messages are numbered in the order in which they are handed over.
Refuse(m) ==
    /\ msg[m] = "new" /\ \A l \in Messages : l < m => msg[l] # "new"
    /\ ~ShouldSend(m)
    /\ Become(m, "false")
    /\ UNCHANGED <<time, ready, limiter, posted, left>>

Pass(m) ==
    /\ msg[m] = "new" /\ \A l \in Messages : l < m => msg[l] # "new"
    /\ time + Minute <= SlackMaxTime
    /\ ShouldSend(m)
    /\ Count
    /\ Become(m, FirstWay)
    /\ UNCHANGED <<time, ready, posted, left>>

\* Mutant: a message posted by the webhook goes to the bot as well.
PostBoth(m) ==
    /\ msg[m] \in Ways
    /\ posted' = [posted EXCEPT ![m] = @ \cup {msg[m]}]
    /\ Become(m, IF msg[m] = "webhook" /\ "bot" \in Channels THEN "bot" ELSE "true")
    /\ UNCHANGED <<time, ready, limiter, left>>

\* Slack answers: the message is posted.
Post(m) ==
    /\ msg[m] \in Ways
    /\ posted' = [posted EXCEPT ![m] = @ \cup {msg[m]}]
    /\ Become(m, "true")
    /\ UNCHANGED <<time, ready, limiter, left>>

FallOn(m) ==
    Become(m, IF msg[m] = "webhook" /\ "bot" \in Channels THEN "bot" ELSE "false")

\* Slack cannot be reached or answers with an error: the bot is tried after
\* the webhook.  A lost answer looks the same, but the message is there.
Fail(m) ==
    /\ msg[m] \in Ways
    /\ \/ /\ Spend("down") \/ Spend("refused")
          /\ UNCHANGED posted
       \/ /\ Spend("lost")
          /\ posted' = [posted EXCEPT ![m] = @ \cup {msg[m]}]
    /\ FallOn(m)
    /\ UNCHANGED <<time, ready, limiter>>

----------------------------------------------------------------------------
(* The specification *)

SlackTick ==
    /\ time < SlackMaxTime
    /\ time' = time + 1
    /\ UNCHANGED <<ready, limiter, msg, posted, left>>

Send(m) == Refuse(m) \/ Pass(m) \/ Post(m) \/ Fail(m)

SlackNext ==
    \/ \E m \in Messages : Send(m)
    \/ \E t \in resets : Reset(t)
    \/ SlackTick

SlackSpec == SlackInit /\ [][SlackNext]_slackVars

\* Time passes, sleeping tasks wake up, and every call to Slack ends (it has a
\* timeout).  Nothing is assumed about handing over messages.
SlackFairness ==
    /\ WF_slackVars(SlackTick)
    /\ WF_slackVars(\E t \in resets : Reset(t))
    /\ \A m \in Messages : WF_slackVars(Post(m) \/ Fail(m))

FairSlackSpec == SlackSpec /\ SlackFairness

----------------------------------------------------------------------------
(* Properties *)

\* The limiter keeps no time of its own and forgets all messages at once, yet
\* no Limit + 1 messages ever pass it within a minute, wherever it begins.
RateRespected ==
    \A i \in 1..Len(begun) :
        i + Limit <= Len(begun) => begun[i + Limit] >= begun[i] + Minute

\* Although only the message that reaches the limit starts the task that opens
\* the limiter again, the limiter never stays closed.
AlwaysReopens == []<>(count < Limit)

\* As long as no answer of Slack was lost, the result of sending is true to what
\* is seen in Slack: True means posted, once; False means not posted.
ResultIsTrue ==
    left["lost"] = Budget["lost"] =>
        \A m \in Messages :
            /\ msg[m] = "true" => Cardinality(posted[m]) = 1
            /\ msg[m] = "false" => posted[m] = {}
=============================================================================
