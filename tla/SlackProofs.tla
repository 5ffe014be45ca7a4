---------------------------- MODULE SlackProofs ----------------------------
(***************************************************************************)
(* What holds of the two parts that write to Slack: of SlackDelivery for   *)
(* every limit, every length of a minute and every number of messages,     *)
(* failures and concurrent senders; of NamespaceDigest for all apps and    *)
(* namespaces, every interval, and every timeout that is shorter than it.  *)
(***************************************************************************)
EXTENDS SlackDelivery, NamespaceDigest, FiniteSetTheorems, TLAPS

----------------------------------------------------------------------------
(* SlackDelivery: types *)

\* A fault that is spent leaves an allowance.
LEMMA SpendTypes ==
  ASSUME SlackTypeOK, NEW k \in FaultKinds, Spend(k)
  PROVE  /\ left' \in [FaultKinds -> Nat]
         /\ \A l \in FaultKinds : left'[l] <= Budget[l]
<1>1. left[k] \in Nat /\ left[k] > 0 /\ left[k] <= Budget[k] /\ Budget[k] \in Nat
  BY SlackAssumption DEF SlackTypeOK, Spend
<1>2. left[k] - 1 \in Nat /\ left[k] - 1 <= Budget[k]
  BY <1>1
<1> QED BY <1>2 DEF SlackTypeOK, Spend

\* A message that passes the limiter keeps the types.
LEMMA PassTypes ==
  ASSUME SlackTypeOK, NEW m \in Messages, Pass(m)
  PROVE  SlackTypeOK'
<1>1. time + Minute \in Nat /\ Limit \in Nat /\ count < Limit /\ count \in Nat
  BY LimitAssumption DEF SlackTypeOK, Pass, ShouldSend
<1>2. count' \in 0..Limit /\ resets' \subseteq Nat
  <2>1. count' = count + 1
    BY DEF Pass, Count
  <2>2. resets' \in {resets, resets \cup {time + Minute}}
    BY DEF Pass, Count
  <2> QED BY <1>1, <2>1, <2>2 DEF SlackTypeOK
<1>3. begun' \in Seq(Nat)
  BY DEF SlackTypeOK, Pass, Count
<1>4. msg' \in [Messages -> MsgStates]
  BY DEF SlackTypeOK, Pass, Become, FirstWay, MsgStates, Ways, Results
<1> QED BY <1>2, <1>3, <1>4 DEF SlackTypeOK, Pass

\* What Slack answers keeps the types.
LEMMA AnswerTypes ==
  ASSUME SlackTypeOK, NEW m \in Messages, msg[m] \in Channels,
         Post(m) \/ Fail(m)
  PROVE  SlackTypeOK'
<1>1. msg' \in [Messages -> MsgStates]
  BY DEF SlackTypeOK, Post, Fail, FallOn, Become, MsgStates, Ways, Results
<1>2. posted' \in [Messages -> SUBSET Channels]
  BY DEF SlackTypeOK, Post, Fail
<1>3. /\ left' \in [FaultKinds -> Nat]
      /\ \A k \in FaultKinds : left'[k] <= Budget[k]
  BY SpendTypes DEF SlackTypeOK, Post, Fail, FaultKinds
<1> QED BY <1>1, <1>2, <1>3 DEF SlackTypeOK, Post, Fail, limiter

\* A message is only ever on its way through a channel that is configured.
OnItsWay == \A m \in Messages : msg[m] \in Ways => msg[m] \in Channels

\* A message starts, and falls on, to a channel that is configured.
LEMMA OnItsWayStep == ASSUME SlackTypeOK, OnItsWay, [SlackNext]_slackVars PROVE OnItsWay'
<1>1. CASE UNCHANGED msg
  BY <1>1 DEF OnItsWay
<1>2. ASSUME NEW m \in Messages, Send(m) PROVE OnItsWay'
  <2>1. PICK s \in MsgStates : /\ msg' = [msg EXCEPT ![m] = s]
                               /\ s \in Ways => s \in Channels
    BY <1>2 DEF Send, Refuse, Pass, Post, Fail, FallOn, FirstWay, Become, Ways,
                MsgStates, Results
  <2> QED BY <2>1 DEF OnItsWay, SlackTypeOK
<1> QED BY <1>1, <1>2 DEF SlackNext, Reset, SlackTick, slackVars

\* Every action keeps the types.
LEMMA DeliveryTypeStep == ASSUME SlackTypeOK, OnItsWay, [SlackNext]_slackVars PROVE SlackTypeOK'
<1>1. CASE UNCHANGED slackVars
  BY <1>1 DEF SlackTypeOK, slackVars
<1>2. ASSUME NEW m \in Messages, Refuse(m) PROVE SlackTypeOK'
  BY <1>2 DEF SlackTypeOK, Refuse, Become, MsgStates, Results, limiter
<1>3. ASSUME NEW m \in Messages, Post(m) \/ Fail(m) PROVE SlackTypeOK'
  BY <1>3, AnswerTypes DEF OnItsWay, Post, Fail
<1>4. ASSUME NEW t \in resets, Reset(t) PROVE SlackTypeOK'
  BY <1>4, LimitAssumption DEF SlackTypeOK, Reset
<1>5. CASE SlackTick
  BY <1>5 DEF SlackTypeOK, SlackTick, limiter
<1> QED BY <1>1, <1>2, <1>3, <1>4, <1>5, PassTypes DEF SlackNext, Send

\* Every variable keeps its type: in particular the count never exceeds the
\* limit, and messages appear in Slack only through configured channels.
THEOREM DeliveryTypes == SlackSpec => [](SlackTypeOK /\ OnItsWay)
<1>1. SlackInit => SlackTypeOK /\ OnItsWay
  BY LimitAssumption, SlackAssumption
     DEF SlackInit, SlackTypeOK, OnItsWay, MsgStates, Ways
<1>2. SlackTypeOK /\ OnItsWay /\ [SlackNext]_slackVars => (SlackTypeOK /\ OnItsWay)'
  BY DeliveryTypeStep, OnItsWayStep
<1> QED BY <1>1, <1>2, PTL DEF SlackSpec

----------------------------------------------------------------------------
(* SlackDelivery: the limiter *)

\* One task sleeps exactly while the limiter is closed, and wakes up when the
\* minute of the message that closed it is over.
OneTask ==
    /\ resets # {} <=> count = Limit
    /\ \A s, t \in resets : s = t
    /\ \A t \in resets : t = begun[Len(begun)] + Minute

\* Messages pass in the order of time.
InOrder ==
    /\ \A i, j \in 1..Len(begun) : i <= j => begun[i] <= begun[j]
    /\ \A i \in 1..Len(begun) : begun[i] <= time

\* The count is that of the messages since the last reset, which was a minute
\* or more after the message before them.
Forgotten == Len(begun) - count
SinceReset ==
    /\ count <= Len(begun)
    /\ Forgotten > 0 =>
          /\ time >= begun[Forgotten] + Minute
          /\ \A i \in 1..Len(begun) :
                i > Forgotten => begun[i] >= begun[Forgotten] + Minute

LimiterInv == OneTask /\ InOrder /\ SinceReset /\ RateRespected

\* Nothing was sent yet.
LEMMA LimiterInit == ASSUME SlackInit PROVE LimiterInv
BY LimitAssumption
   DEF SlackInit, LimiterInv, OneTask, InOrder, SinceReset, RateRespected, Forgotten

\* A message passes only if the window has room.
LEMMA PassKeepsLimit ==
  ASSUME SlackTypeOK, LimiterInv, NEW m \in Messages, Pass(m)
  PROVE  LimiterInv'
<1> DEFINE n == Len(begun)
<1>0. /\ time \in Nat /\ n \in Nat /\ count \in Nat
      /\ Limit \in Nat \ {0} /\ Minute \in Nat
  BY LimitAssumption DEF SlackTypeOK
<1>1. /\ count < Limit /\ count' = count + 1 /\ time' = time
      /\ resets' = IF count' >= Limit THEN resets \cup {time + Minute} ELSE resets
  BY DEF Pass, ShouldSend, Count
<1>2. /\ begun' \in Seq(Nat)
      /\ Len(begun') = n + 1
      /\ begun'[n + 1] = time
      /\ \A i \in 1..n : begun'[i] = begun[i]
      /\ \A i \in 1..n : begun[i] \in Nat
  BY DEF SlackTypeOK, Pass, Count
<1> HIDE DEF n
<1>3. OneTask'
  <2>1. resets = {}
    BY <1>0, <1>1 DEF LimiterInv, OneTask
  <2>2. CASE count' = Limit
    <3>1. resets' = {time + Minute}
      BY <1>0, <1>1, <2>1, <2>2
    <3>2. begun'[Len(begun')] = time
      BY <1>2
    <3> QED BY <1>0, <2>2, <3>1, <3>2 DEF OneTask
  <2>3. CASE count' # Limit
    <3>1. resets' = {}
      BY <1>0, <1>1, <2>1, <2>3
    <3> QED BY <2>3, <3>1 DEF OneTask
  <2> QED BY <2>2, <2>3
<1>4. InOrder'
  BY <1>0, <1>1, <1>2 DEF LimiterInv, InOrder, n
<1>5. /\ count <= n
      /\ Forgotten' = Forgotten /\ Forgotten \in 0..n
  BY <1>0, <1>1, <1>2 DEF LimiterInv, SinceReset, Forgotten, n
<1>6. SinceReset'
  <2> DEFINE f == Forgotten
  <2> HIDE DEF f
  <2>1. /\ count <= n /\ f \in 0..n
        /\ f > 0 => /\ time >= begun[f] + Minute
                    /\ \A i \in 1..n : i > f => begun[i] >= begun[f] + Minute
    BY <1>5 DEF LimiterInv, SinceReset, n, f
  <2>2. f > 0 => /\ time' >= begun'[f] + Minute
                 /\ \A i \in 1..(n + 1) : i > f => begun'[i] >= begun'[f] + Minute
    BY <1>0, <1>1, <1>2, <2>1
  <2>3. Forgotten' = f
    BY <1>5 DEF f
  <2> QED BY <1>0, <1>1, <1>2, <2>1, <2>2, <2>3 DEF SinceReset
<1>7. RateRespected'
  <2> SUFFICES ASSUME NEW i \in 1..(n + 1), i + Limit <= n + 1
               PROVE  begun'[i + Limit] >= begun'[i] + Minute
    BY <1>2 DEF RateRespected
  <2>1. i \in 1..n
    BY <1>0
  <2>2. CASE i + Limit <= n
    <3>1. i + Limit \in 1..n
      BY <1>0, <2>1, <2>2
    <3>2. begun[i + Limit] >= begun[i] + Minute
      BY <2>1, <2>2 DEF LimiterInv, RateRespected, n
    <3>3. begun'[i + Limit] = begun[i + Limit] /\ begun'[i] = begun[i]
      BY <1>2, <2>1, <3>1
    <3> QED BY <3>2, <3>3
  <2>3. CASE i + Limit = n + 1
    <3>1. i <= Forgotten /\ Forgotten \in 1..n
      BY <1>0, <1>1, <1>5, <2>3 DEF Forgotten, n
    <3>2. begun[i] <= begun[Forgotten]
      BY <2>1, <3>1 DEF LimiterInv, InOrder, n
    <3>3. time >= begun[Forgotten] + Minute
      BY <3>1 DEF LimiterInv, SinceReset
    <3>4. begun'[i + Limit] = time /\ begun'[i] = begun[i]
      BY <1>2, <2>1, <2>3
    <3>5. begun[i] \in Nat /\ begun[Forgotten] \in Nat
      BY <1>2, <2>1, <3>1
    <3> QED BY <1>0, <3>2, <3>3, <3>4, <3>5
  <2> QED BY <1>0, <2>2, <2>3
<1> QED BY <1>3, <1>4, <1>6, <1>7 DEF LimiterInv

\* A reset comes a minute after the first message of its window, no sooner.
LEMMA ResetKeepsLimit ==
  ASSUME SlackTypeOK, LimiterInv, NEW t \in resets, Reset(t)
  PROVE  LimiterInv'
<1>0. /\ time \in Nat /\ Len(begun) \in Nat
      /\ Limit \in Nat \ {0} /\ Minute \in Nat
      /\ \A i \in 1..Len(begun) : begun[i] \in Nat
  BY LimitAssumption DEF SlackTypeOK
<1>1. /\ resets' = {} /\ count' = 0 /\ UNCHANGED <<time, begun>>
  BY DEF LimiterInv, OneTask, Reset
<1>2. Forgotten' = Len(begun)
  BY <1>0, <1>1 DEF Forgotten
<1>3. count = Limit /\ Len(begun) \in 1..Len(begun)
  BY <1>0 DEF LimiterInv, OneTask, SinceReset
<1>4. time >= begun[Len(begun)] + Minute
  <2>1. t = begun[Len(begun)] + Minute /\ t <= time /\ t \in Nat
    BY DEF LimiterInv, OneTask, Reset, SlackTypeOK
  <2> QED BY <1>0, <1>3, <2>1
<1>5. SinceReset'
  BY <1>0, <1>1, <1>2, <1>3, <1>4 DEF SinceReset
<1> QED
  BY <1>0, <1>1, <1>5 DEF LimiterInv, OneTask, InOrder, RateRespected

\* What leaves the limiter alone keeps its invariant, a tick included.
LEMMA OthersKeepLimit ==
  ASSUME SlackTypeOK, LimiterInv, UNCHANGED limiter, time' \in {time, time + 1}
  PROVE  LimiterInv'
<1>1. /\ time \in Nat /\ Minute \in Nat /\ count \in Nat
      /\ \A i \in 1..Len(begun) : begun[i] \in Nat
  BY LimitAssumption DEF SlackTypeOK
<1>2. UNCHANGED <<count, resets, begun>>
  BY DEF limiter
<1>3. OneTask' /\ RateRespected'
  BY <1>2 DEF LimiterInv, OneTask, RateRespected
<1>4. InOrder'
  BY <1>1, <1>2 DEF LimiterInv, InOrder
<1>5. SinceReset'
  <2>1. Forgotten' = Forgotten
    BY <1>2 DEF Forgotten
  <2>2. Forgotten > 0 => Forgotten \in 1..Len(begun)
    BY <1>1 DEF LimiterInv, SinceReset, Forgotten, SlackTypeOK
  <2> QED BY <1>1, <1>2, <2>1, <2>2 DEF LimiterInv, SinceReset
<1> QED BY <1>3, <1>4, <1>5 DEF LimiterInv

\* No action lets more messages through than the limit.
LEMMA LimiterStep == ASSUME SlackTypeOK, LimiterInv, [SlackNext]_slackVars PROVE LimiterInv'
<1>1. CASE UNCHANGED slackVars
  BY <1>1, OthersKeepLimit DEF slackVars, limiter
<1>2. ASSUME NEW m \in Messages, Refuse(m) \/ Post(m) \/ Fail(m) PROVE LimiterInv'
  BY <1>2, OthersKeepLimit DEF Refuse, Post, Fail
<1>3. CASE SlackTick
  BY <1>3, OthersKeepLimit DEF SlackTick
<1> QED BY <1>1, <1>2, <1>3, PassKeepsLimit, ResetKeepsLimit DEF SlackNext, Send

\* The limiter keeps its promise for every limit: no Limit + 1 messages pass
\* within a minute, wherever the minute begins.
THEOREM RateHolds == SlackSpec => []RateRespected
<1>1. SlackInit => LimiterInv
  BY LimiterInit
<1>2. SlackTypeOK /\ LimiterInv /\ [SlackNext]_slackVars => LimiterInv'
  BY LimiterStep
<1>3. LimiterInv => RateRespected
  BY DEF LimiterInv
<1> QED BY <1>1, <1>2, <1>3, DeliveryTypes, PTL DEF SlackSpec

\* What AlwaysReopens rests on, apart from time that passes and tasks that
\* wake up: whenever the limiter is closed, a task sleeps that will open it, for
\* a minute at most.  Without it send_notification would refuse for ever.
THEOREM ClosedIsTimed ==
  SlackSpec => [](count = Limit => \E t \in resets : t <= time + Minute)
<1>1. SlackInit => LimiterInv
  BY LimiterInit
<1>2. SlackTypeOK /\ LimiterInv /\ [SlackNext]_slackVars => LimiterInv'
  BY LimiterStep
<1>3. SlackTypeOK /\ LimiterInv
        => (count = Limit => \E t \in resets : t <= time + Minute)
  <2> SUFFICES ASSUME SlackTypeOK, LimiterInv, count = Limit
               PROVE  \E t \in resets : t <= time + Minute
    OBVIOUS
  <2>1. PICK t \in resets : t = begun[Len(begun)] + Minute
    BY DEF LimiterInv, OneTask
  <2>2. /\ Limit \in Nat \ {0} /\ Minute \in Nat /\ time \in Nat
        /\ Len(begun) \in Nat
    BY LimitAssumption DEF SlackTypeOK
  <2>3. Len(begun) \in 1..Len(begun)
    BY <2>2 DEF LimiterInv, SinceReset
  <2>4. begun[Len(begun)] <= time /\ begun[Len(begun)] \in Nat
    BY <2>3 DEF LimiterInv, InOrder, SlackTypeOK
  <2> QED BY <2>1, <2>2, <2>4
<1> QED BY <1>1, <1>2, <1>3, DeliveryTypes, PTL DEF SlackSpec

----------------------------------------------------------------------------
(* SlackDelivery: results *)

\* Until its result is known, a message has not appeared anywhere.
Answered == left["lost"] = Budget["lost"]
ResultInv ==
    Answered =>
      \A m \in Messages :
        /\ msg[m] # "true" => posted[m] = {}
        /\ msg[m] = "true" => \E w \in Channels : posted[m] = {w}

\* An answer once lost stays lost.
LEMMA AnsweredBefore ==
  ASSUME SlackTypeOK, [SlackNext]_slackVars, Answered'
  PROVE  Answered /\ ~Spend("lost")
<1> USE DEF FaultKinds, Answered
<1>1. Budget["lost"] \in Nat
  BY SlackAssumption
<1>2. ~Spend("lost")
  BY <1>1 DEF SlackTypeOK, Spend
<1>3. \A k \in FaultKinds : Spend(k) => left'["lost"] <= left["lost"]
  BY DEF SlackTypeOK, Spend
<1>4. left'["lost"] <= left["lost"]
  BY <1>3 DEF SlackTypeOK, SlackNext, Send, Refuse, Pass, Post, Fail, Reset, SlackTick, slackVars
<1>5. left["lost"] <= Budget["lost"] /\ left["lost"] \in Nat
  BY DEF SlackTypeOK
<1> QED BY <1>1, <1>2, <1>4, <1>5

\* No action makes the result of a message untrue, as long as no answer is lost.
LEMMA ResultStep ==
  ASSUME SlackTypeOK, OnItsWay, ResultInv, [SlackNext]_slackVars PROVE ResultInv'
<1> SUFFICES ASSUME Answered' PROVE ResultInv'
  BY DEF ResultInv
<1>1. Answered /\ ~Spend("lost")
  BY AnsweredBefore
<1>2. CASE UNCHANGED <<msg, posted>>
  BY <1>1, <1>2 DEF ResultInv
<1>3. ASSUME NEW m \in Messages, Send(m) PROVE ResultInv'
  <2>1. CASE Refuse(m)
    BY <1>1, <2>1 DEF SlackTypeOK, ResultInv, Refuse, Become
  <2>2. CASE Pass(m)
    BY <1>1, <2>2 DEF SlackTypeOK, ResultInv, Pass, Become, FirstWay
  <2>3. CASE Post(m)
    <3>1. msg[m] \in Channels /\ posted[m] = {}
      BY <1>1, <2>3 DEF OnItsWay, ResultInv, Post, Ways
    <3>2. /\ msg' = [msg EXCEPT ![m] = "true"]
          /\ posted' = [posted EXCEPT ![m] = {msg[m]}]
      BY <2>3, <3>1 DEF Post, Become
    <3> QED BY <1>1, <3>1, <3>2 DEF SlackTypeOK, ResultInv
  <2>4. CASE Fail(m)
    <3>1. UNCHANGED posted
      BY <1>1, <2>4 DEF Fail
    <3>2. /\ msg[m] # "true"
          /\ msg' \in {[msg EXCEPT ![m] = "bot"], [msg EXCEPT ![m] = "false"]}
      BY <2>4 DEF Fail, FallOn, Become, Ways
    <3> QED BY <1>1, <3>1, <3>2 DEF SlackTypeOK, ResultInv
  <2> QED BY <1>3, <2>1, <2>2, <2>3, <2>4 DEF Send
<1> QED BY <1>2, <1>3 DEF SlackNext, Reset, SlackTick, slackVars

\* As long as no answer of Slack was lost, what sending returns is true to what
\* is seen in Slack, and nothing is seen twice.
THEOREM ResultHolds == SlackSpec => []ResultIsTrue
<1>1. SlackInit => ResultInv
  BY DEF SlackInit, ResultInv
<1>2. SlackTypeOK /\ OnItsWay /\ ResultInv /\ [SlackNext]_slackVars => ResultInv'
  BY ResultStep
<1>3. ResultInv => ResultIsTrue
  BY FS_Singleton DEF ResultInv, ResultIsTrue, Answered
<1> QED BY <1>1, <1>2, <1>3, DeliveryTypes, PTL DEF SlackSpec

----------------------------------------------------------------------------
(* NamespaceDigest: types *)

\* A digest can be cut into that of a namespace and the rest.
LEMMA DigestParts ==
  ASSUME NEW b \in Digest, NEW n \in Namespaces
  PROVE  /\ OfNamespace(b, n) \in Digest
         /\ Without(b, n) \in Digest
BY DigestAssumption DEF OfNamespace, Without, Digest, Cards

\* A handler that rests is a handler.
LEMMA RestingType == Resting \in Handler
BY DigestAssumption DEF Resting, Handler, Digest, Nothing, Cards

\* What a flush leaves behind.
Flush(a, card) ==
    /\ h' = [h EXCEPT ![a] = [sending |-> TRUE, since |-> now,
                digest |-> OfNamespace([buffer EXCEPT ![a] = card], Home[a])]]
    /\ buffer' = Without([buffer EXCEPT ![a] = card], Home[a])
    /\ lastSent' = [lastSent EXCEPT ![Home[a]] = now]
    /\ flushes' = [flushes EXCEPT ![Home[a]] = Append(@, now)]
Keep(a, card) ==
    /\ buffer' = [buffer EXCEPT ![a] = card]
    /\ UNCHANGED <<h, lastSent, flushes>>

\* A notification puts a scorecard into the buffer and flushes when it is time.
LEMMA NotifyCases ==
  ASSUME NEW a \in Apps, Notify(a)
  PROVE  /\ ~h[a].sending
         /\ \E card \in Cards :
               /\ card # 0
               /\ noted' = [noted EXCEPT ![a] = card]
               /\ \/ ShouldFlush(Home[a]) /\ Flush(a, card)
                  \/ ~ShouldFlush(Home[a]) /\ Keep(a, card)
         /\ UNCHANGED <<now, shown, cut, failures>>
<1>1. PICK card \in 1..MaxCards :
         /\ noted' = [noted EXCEPT ![a] = card]
         /\ AddAndMaybeFlush(a, card)
  BY DEF Notify
<1>2. card \in Cards /\ card # 0
  BY DigestAssumption DEF Cards
<1> QED BY <1>1, <1>2 DEF Notify, AddAndMaybeFlush, Flush, Keep

\* A scorecard keeps the types, whether it is buffered or leads to a digest.
LEMMA NotifyTypes == ASSUME DigestTypeOK, NEW a \in Apps, Notify(a) PROVE DigestTypeOK'
<1>1. PICK card \in Cards :
         /\ card # 0
         /\ noted' = [noted EXCEPT ![a] = card]
         /\ \/ ShouldFlush(Home[a]) /\ Flush(a, card)
            \/ ~ShouldFlush(Home[a]) /\ Keep(a, card)
  BY NotifyCases
<1>2. /\ UNCHANGED <<now, shown, cut, failures>>
      /\ Home[a] \in Namespaces
  BY NotifyCases, AppsAssumption
<1> DEFINE full == [buffer EXCEPT ![a] = card]
<1>3. full \in Digest /\ full[a] = card
  BY DEF DigestTypeOK, Digest
<1>4. noted' \in [Apps -> Cards]
  BY <1>1 DEF DigestTypeOK
<1>5. CASE Keep(a, card)
  BY <1>2, <1>3, <1>4, <1>5 DEF DigestTypeOK, Keep, InDigest, OfHome
<1>6. CASE Flush(a, card)
  <2> HIDE DEF full
  <2>1. /\ h' = [h EXCEPT ![a] = [sending |-> TRUE, since |-> now,
                                 digest |-> OfNamespace(full, Home[a])]]
        /\ buffer' = Without(full, Home[a])
        /\ lastSent' = [lastSent EXCEPT ![Home[a]] = now]
        /\ flushes' = [flushes EXCEPT ![Home[a]] = Append(@, now)]
    BY <1>6 DEF Flush, full
  <2>2. [sending |-> TRUE, since |-> now, digest |-> OfNamespace(full, Home[a])] \in Handler
    BY <1>2, <1>3, DigestParts DEF DigestTypeOK, Handler
  <2>3. h' \in [Apps -> Handler]
    BY <2>1, <2>2 DEF DigestTypeOK
  <2>4. \A b \in Apps : h'[b].sending => InDigest(b, b)' /\ OfHome(b)'
    <3> TAKE b \in Apps
    <3>1. CASE b # a
      BY <2>1, <3>1 DEF DigestTypeOK, InDigest, OfHome
    <3>2. CASE b = a
      <4>1. h'[a].digest = OfNamespace(full, Home[a])
        BY <2>1 DEF DigestTypeOK
      <4> QED BY <1>1, <1>3, <3>2, <4>1 DEF InDigest, OfHome, OfNamespace
    <3> QED BY <3>1, <3>2
  <2>5. buffer' \in Digest
    BY <1>2, <1>3, <2>1, DigestParts
  <2>6. lastSent' \in [Namespaces -> Nat] /\ flushes' \in [Namespaces -> Seq(Nat)]
    BY <1>2, <2>1 DEF DigestTypeOK
  <2> QED BY <1>2, <1>4, <2>3, <2>4, <2>5, <2>6 DEF DigestTypeOK
<1> QED BY <1>1, <1>5, <1>6

\* Every action keeps the types.
LEMMA DigestTypeStep == ASSUME DigestTypeOK, [DigestNext]_digestVars PROVE DigestTypeOK'
<1>1. CASE UNCHANGED digestVars
  BY <1>1 DEF DigestTypeOK, digestVars, InDigest, OfHome
<1>2. CASE DigestTick
  BY <1>2 DEF DigestTypeOK, DigestTick, InDigest, OfHome
<1>3. ASSUME NEW a \in Apps, Deliver(a) \/ Lose(a) PROVE DigestTypeOK'
  <2>1. h' = [h EXCEPT ![a] = Resting] /\ ~Resting.sending
    BY <1>3 DEF Deliver, Arrives, Lose, Resting
  <2>2. h' \in [Apps -> Handler]
    BY <2>1, RestingType DEF DigestTypeOK
  <2>3. \A b \in Apps : h'[b].sending => InDigest(b, b)' /\ OfHome(b)'
    <3>1. \A b \in Apps : h'[b].sending => h'[b] = h[b] /\ h[b].sending
      BY <2>1 DEF DigestTypeOK
    <3> QED BY <3>1 DEF DigestTypeOK, InDigest, OfHome
  <2>4. h[a].digest \in [Apps -> Cards]
    BY DEF DigestTypeOK, Handler, Digest
  <2>5. shown' \in [Apps -> Cards] /\ cut' \in [Apps -> Cards]
    BY <1>3, <2>4 DEF DigestTypeOK, Deliver, Arrives, Lose
  <2>6. failures' \in 0..MaxFailures
    BY <1>3, DigestAssumption DEF DigestTypeOK, Deliver, Arrives, Lose
  <2> QED BY <1>3, <2>2, <2>3, <2>5, <2>6 DEF DigestTypeOK, Deliver, Arrives, Lose
<1> QED BY <1>1, <1>2, <1>3, NotifyTypes DEF DigestNext

\* Every variable keeps its type; a digest that is being sent shows the app
\* whose handler sends it, and no app of another namespace.
THEOREM DigestTypes == DigestSpec => []DigestTypeOK
<1>1. DigestInit => DigestTypeOK
  <2> SUFFICES ASSUME DigestInit PROVE DigestTypeOK
    OBVIOUS
  <2>1. h \in [Apps -> Handler] /\ \A a \in Apps : ~h[a].sending
    BY RestingType DEF DigestInit, Resting
  <2>2. Start \in Nat /\ MaxFailures \in Nat /\ 0 \in Cards
    BY TimesAssumption, DigestAssumption DEF Start, Cards
  <2> QED BY <2>1, <2>2 DEF DigestInit, DigestTypeOK, Digest, Nothing
<1>2. DigestTypeOK /\ [DigestNext]_digestVars => DigestTypeOK'
  BY DigestTypeStep
<1> QED BY <1>1, <1>2, PTL DEF DigestSpec

----------------------------------------------------------------------------
(* NamespaceDigest: digests of a namespace are spaced *)

\* The mark is no earlier than any flush and no later than the clock.
MarkInv ==
    \A n \in Namespaces :
        /\ lastSent[n] <= now
        /\ \A i \in 1..Len(flushes[n]) : flushes[n][i] <= lastSent[n]

SpacingInv == MarkInv /\ DigestSpacing

\* A flush that is due comes an interval after the last one, and is the last one now.
LEMMA FlushSpacing ==
  ASSUME DigestTypeOK, SpacingInv, NEW a \in Apps, NEW card, UNCHANGED now,
         ShouldFlush(Home[a]), Flush(a, card)
  PROVE  SpacingInv'
<1> DEFINE n == Home[a]
           s == flushes[n]
<1>1. n \in Namespaces /\ s \in Seq(Nat) /\ now \in Nat /\ Interval \in Nat
  BY AppsAssumption, TimesAssumption DEF DigestTypeOK
<1>2. /\ now >= lastSent[n] + Interval
      /\ lastSent[n] \in Nat
      /\ \A i \in 1..Len(s) : s[i] <= lastSent[n] /\ s[i] \in Nat
  BY <1>1 DEF SpacingInv, MarkInv, ShouldFlush, DigestTypeOK
<1>3. /\ lastSent'[n] = now /\ flushes'[n] = Append(s, now)
      /\ \A m \in Namespaces \ {n} :
            lastSent'[m] = lastSent[m] /\ flushes'[m] = flushes[m]
  BY <1>1 DEF Flush, DigestTypeOK
<1> HIDE DEF n, s
<1>4. /\ Len(Append(s, now)) = Len(s) + 1
      /\ Append(s, now)[Len(s) + 1] = now
      /\ \A i \in 1..Len(s) : Append(s, now)[i] = s[i]
      /\ Len(s) \in Nat
  BY <1>1
<1>5. MarkInv'
  <2>1. \A i \in 1..Len(Append(s, now)) : Append(s, now)[i] <= now
    BY <1>1, <1>2, <1>4
  <2>2. \A m \in Namespaces : lastSent'[m] <= now
    BY <1>1, <1>3 DEF SpacingInv, MarkInv
  <2>3. \A m \in Namespaces : \A i \in 1..Len(flushes'[m]) :
           flushes'[m][i] <= lastSent'[m]
    BY <1>1, <1>3, <2>1 DEF SpacingInv, MarkInv
  <2> QED BY <2>2, <2>3 DEF MarkInv
<1>6. DigestSpacing'
  <2>1. \A i, j \in 1..Len(Append(s, now)) :
           i < j => Append(s, now)[j] >= Append(s, now)[i] + Interval
    <3> SUFFICES ASSUME NEW i \in 1..(Len(s) + 1), NEW j \in 1..(Len(s) + 1), i < j
                 PROVE  Append(s, now)[j] >= Append(s, now)[i] + Interval
      BY <1>4
    <3>1. i \in 1..Len(s)
      BY <1>4
    <3>2. CASE j = Len(s) + 1
      BY <1>1, <1>2, <1>4, <3>1, <3>2
    <3>3. CASE j \in 1..Len(s)
      BY <1>1, <1>4, <3>1, <3>3 DEF SpacingInv, DigestSpacing, s
    <3> QED BY <1>4, <3>2, <3>3
  <2> QED BY <1>1, <1>3, <2>1 DEF SpacingInv, DigestSpacing
<1> QED BY <1>5, <1>6 DEF SpacingInv

\* No action brings two digests of a namespace closer together.
LEMMA SpacingStep == ASSUME DigestTypeOK, SpacingInv, [DigestNext]_digestVars PROVE SpacingInv'
<1>1. CASE UNCHANGED <<lastSent, flushes>> /\ now' \in {now, now + 1}
  <2>1. now \in Nat /\ \A n \in Namespaces : lastSent[n] \in Nat
    BY DEF DigestTypeOK
  <2> QED BY <1>1, <2>1 DEF SpacingInv, MarkInv, DigestSpacing
<1>2. ASSUME NEW a \in Apps, Notify(a) PROVE SpacingInv'
  BY <1>1, <1>2, NotifyCases, FlushSpacing DEF Keep
<1> QED BY <1>1, <1>2 DEF DigestNext, DigestTick, Deliver, Arrives, Lose, digestVars

\* No namespace is ever sent more than one digest per interval, with any number
\* of handlers and any digests lost.
THEOREM SpacingHolds == DigestSpec => []DigestSpacing
<1>1. DigestInit => SpacingInv
  BY TimesAssumption DEF DigestInit, SpacingInv, MarkInv, DigestSpacing, Start
<1>2. DigestTypeOK /\ SpacingInv /\ [DigestNext]_digestVars => SpacingInv'
  BY SpacingStep
<1>3. SpacingInv => DigestSpacing
  BY DEF SpacingInv
<1> QED BY <1>1, <1>2, <1>3, DigestTypes, PTL DEF DigestSpec
----------------------------------------------------------------------------
(* NamespaceDigest: nothing is forgotten *)

\* A digest is sent within the interval of its flush: no two digests of a
\* namespace are on their way at once.
FlightInv ==
    \A a \in Apps : h[a].sending =>
        /\ h[a].since = lastSent[Home[a]]
        /\ now <= h[a].since + Patience
        /\ \A b \in Apps : h[b].sending /\ Home[b] = Home[a] => b = a

\* The buffer holds the latest scorecard of an app or none; a digest shows
\* the latest, unless that is in the buffer already.
LatestInv ==
    \A b \in Apps :
        /\ buffer[b] \in {0, noted[b]}
        /\ \A a \in Apps : h[a].sending /\ InDigest(a, b) =>
              noted[b] \in {buffer[b], h[a].digest[b]}

ForgetInv == FlightInv /\ LatestInv /\ failures = MaxFailures /\ NothingForgotten

\* A digest that is due finds none of its namespace on its way.
LEMMA NoneOnItsWay ==
  ASSUME DigestTypeOK, FlightInv, NEW a \in Apps, ShouldFlush(Home[a]), NEW b \in Apps,
         h[b].sending
  PROVE  Home[b] # Home[a]
<1>1. Home[a] \in Namespaces /\ Home[b] \in Namespaces
  BY AppsAssumption
<1>2. /\ now \in Nat /\ lastSent[Home[b]] \in Nat
      /\ Patience \in Nat /\ Interval \in Nat /\ Patience < Interval
  BY <1>1, TimesAssumption DEF DigestTypeOK
<1>3. now <= lastSent[Home[b]] + Patience
  BY DEF FlightInv
<1> QED BY <1>2, <1>3 DEF ShouldFlush

\* A scorecard that is buffered is not forgotten.
LEMMA KeepForgets ==
  ASSUME DigestTypeOK, ForgetInv, NEW a \in Apps, NEW card \in Cards, card # 0,
         noted' = [noted EXCEPT ![a] = card], Keep(a, card),
         UNCHANGED <<now, shown, cut, failures>>
  PROVE  ForgetInv'
<1>1. FlightInv'
  BY DEF ForgetInv, FlightInv, Keep
<1>2. /\ noted'[a] = card /\ buffer'[a] = card
      /\ \A b \in Apps \ {a} : noted'[b] = noted[b] /\ buffer'[b] = buffer[b]
      /\ h' = h
  BY DEF DigestTypeOK, Keep, Digest
<1>3. LatestInv'
  BY <1>2 DEF ForgetInv, LatestInv, InDigest
<1>4. NothingForgotten'
  BY <1>2 DEF ForgetInv, NothingForgotten, Crowded
<1> QED BY <1>1, <1>3, <1>4 DEF ForgetInv

\* A digest takes along what the buffer holds of its namespace.
LEMMA FlushForgets ==
  ASSUME DigestTypeOK, ForgetInv, NEW a \in Apps, NEW card \in Cards, card # 0,
         ~h[a].sending,
         noted' = [noted EXCEPT ![a] = card], ShouldFlush(Home[a]), Flush(a, card),
         UNCHANGED <<now, shown, cut, failures>>
  PROVE  ForgetInv'
<1> DEFINE full == [buffer EXCEPT ![a] = card]
           n == Home[a]
<1>1. /\ n \in Namespaces /\ now \in Nat /\ Patience \in Nat
      /\ \A b \in Apps : Home[b] \in Namespaces
  BY AppsAssumption, TimesAssumption DEF DigestTypeOK
<1>2. /\ noted'[a] = card
      /\ \A b \in Apps \ {a} : noted'[b] = noted[b]
      /\ full \in Digest /\ full[a] = card
      /\ \A b \in Apps \ {a} : full[b] = buffer[b]
  BY DEF DigestTypeOK, Digest
<1> HIDE DEF full
<1>3. /\ h'[a] = [sending |-> TRUE, since |-> now, digest |-> OfNamespace(full, n)]
      /\ \A b \in Apps \ {a} : h'[b] = h[b]
      /\ buffer' = Without(full, n)
      /\ lastSent'[n] = now
      /\ \A m \in Namespaces \ {n} : lastSent'[m] = lastSent[m]
  BY <1>1 DEF DigestTypeOK, Flush, full
<1>4. \A b \in Apps \ {a} : h[b].sending => Home[b] # n
  BY NoneOnItsWay DEF ForgetInv
<1>5. FlightInv'
  <2> SUFFICES ASSUME NEW b \in Apps, h'[b].sending
               PROVE  /\ h'[b].since = lastSent'[Home[b]]
                      /\ now <= h'[b].since + Patience
                      /\ \A c \in Apps : h'[c].sending /\ Home[c] = Home[b] => c = b
    BY DEF FlightInv
  <2>1. CASE b = a
    BY <1>1, <1>3, <1>4, <2>1
  <2>2. CASE b # a
    <3>1. h'[b] = h[b] /\ Home[b] # n
      BY <1>3, <1>4, <2>2
    <3>2. lastSent'[Home[b]] = lastSent[Home[b]]
      BY <1>1, <1>3, <3>1
    <3> QED BY <1>3, <3>1, <3>2 DEF ForgetInv, FlightInv
  <2> QED BY <2>1, <2>2
<1>6. \A b \in Apps : full[b] \in {0, noted'[b]}
  BY <1>2 DEF ForgetInv, LatestInv
<1>7. LatestInv'
  <2> SUFFICES ASSUME NEW b \in Apps
               PROVE  /\ buffer'[b] \in {0, noted'[b]}
                      /\ \A c \in Apps : h'[c].sending /\ h'[c].digest[b] # 0 =>
                            noted'[b] \in {buffer'[b], h'[c].digest[b]}
    BY DEF LatestInv, InDigest
  <2>1. buffer'[b] \in {0, noted'[b]}
    BY <1>3, <1>6 DEF Without
  <2>2. ASSUME h'[a].digest[b] # 0 PROVE noted'[b] = h'[a].digest[b]
    BY <1>3, <1>6, <2>2 DEF OfNamespace
  <2>3. ASSUME NEW c \in Apps \ {a}, h'[c].sending, h'[c].digest[b] # 0
        PROVE  noted'[b] \in {buffer'[b], h'[c].digest[b]}
    <3>1. Home[b] # n /\ h'[c] = h[c]
      BY <1>3, <1>4, <2>3 DEF DigestTypeOK, OfHome, InDigest
    <3>2. buffer'[b] = buffer[b] /\ noted'[b] = noted[b]
      BY <1>2, <1>3, <3>1 DEF Without
    <3> QED BY <2>3, <3>1, <3>2 DEF ForgetInv, LatestInv, InDigest
  <2> QED BY <2>1, <2>2, <2>3
<1>8. NothingForgotten'
  <2> SUFFICES ASSUME NEW b \in Apps, noted'[b] # 0
               PROVE  \/ buffer'[b] = noted'[b]
                      \/ \E c \in Apps : h'[c].sending /\ h'[c].digest[b] = noted'[b]
                      \/ shown'[b] = noted'[b]
                      \/ Crowded(Home[b]) /\ cut'[b] = noted'[b]
    BY DEF NothingForgotten, Crowded
  <2>1. CASE full[b] = noted'[b] /\ Home[b] = n
    BY <1>3, <2>1 DEF OfNamespace
  <2>2. CASE full[b] = noted'[b] /\ Home[b] # n
    BY <1>3, <2>2 DEF Without
  <2>3. CASE full[b] # noted'[b]
    <3>1. b # a /\ noted'[b] = noted[b] /\ buffer[b] # noted[b]
      BY <1>2, <2>3
    <3>2. \/ \E c \in Apps : h[c].sending /\ h[c].digest[b] = noted[b]
          \/ shown[b] = noted[b]
          \/ Crowded(Home[b]) /\ cut[b] = noted[b]
      BY <2>3, <3>1 DEF ForgetInv, NothingForgotten
    <3> QED BY <1>3, <3>1, <3>2
  <2> QED BY <2>1, <2>2, <2>3
<1> QED BY <1>5, <1>7, <1>8 DEF ForgetInv

\* A digest that is cut is that of a crowded namespace.
LEMMA CutIsCrowded ==
  ASSUME DigestTypeOK, NEW a \in Apps, h[a].sending, NEW whole \in Lines(a),
         NEW b \in Members(a) \ whole
  PROVE  Crowded(Home[b])
<1> DEFINE home == {c \in Apps : Home[c] = Home[a]}
<1>1. whole \subseteq Members(a) /\ Cardinality(whole) >= Room
  BY DEF Lines
<1>2. Members(a) \subseteq home /\ Home[b] = Home[a]
  BY DEF DigestTypeOK, OfHome, Members
<1>3. IsFiniteSet(home)
  BY AppsAssumption, FS_Subset
<1>4. whole \subseteq home /\ whole # home
  BY <1>1, <1>2
<1>5. Cardinality(whole) < Cardinality(home) /\ Cardinality(whole) \in Nat
  BY <1>3, <1>4, FS_Subset, FS_CardinalityType
<1>6. Cardinality(home) \in Nat
  BY <1>3, FS_CardinalityType
<1> HIDE DEF home
<1>7. Cardinality(home) > Room
  BY <1>1, <1>5, <1>6, AppsAssumption
<1> QED BY <1>2, <1>7 DEF Crowded, home

\* What a digest that arrives shows, or was cut by, is the latest, or the latest is in
\* the buffer.
LEMMA DeliverForgets ==
  ASSUME DigestTypeOK, ForgetInv, NEW a \in Apps, Deliver(a)
  PROVE  ForgetInv'
<1>1. PICK whole \in Lines(a) : Arrives(a, whole)
  BY DEF Deliver
<1>2. /\ ~h'[a].sending
      /\ \A b \in Apps \ {a} : h'[b] = h[b]
      /\ UNCHANGED <<now, noted, buffer, lastSent, failures>>
  BY <1>1 DEF DigestTypeOK, Deliver, Arrives, Resting
<1>3. FlightInv'
  BY <1>2 DEF ForgetInv, FlightInv
<1>4. LatestInv'
  BY <1>2 DEF ForgetInv, LatestInv, InDigest
<1>5. NothingForgotten'
  <2> SUFFICES ASSUME NEW b \in Apps, noted[b] # 0
               PROVE  \/ buffer[b] = noted[b]
                      \/ \E c \in Apps : h'[c].sending /\ h'[c].digest[b] = noted[b]
                      \/ shown'[b] = noted[b]
                      \/ Crowded(Home[b]) /\ cut'[b] = noted[b]
    BY <1>2 DEF NothingForgotten, Crowded
  <2>1. /\ shown'[b] = IF b \in whole THEN h[a].digest[b] ELSE shown[b]
        /\ cut'[b] = IF b \in Members(a) \ whole THEN h[a].digest[b] ELSE cut[b]
    BY <1>1 DEF Arrives
  <2>2. CASE b \in Members(a)
    <3>1. noted[b] \in {buffer[b], h[a].digest[b]}
      BY <2>2 DEF ForgetInv, LatestInv, Deliver, Members
    <3>2. b \in whole \/ Crowded(Home[b])
      BY <2>2, CutIsCrowded DEF Deliver
    <3> QED BY <2>1, <2>2, <3>1, <3>2
  <2>3. CASE b \notin Members(a)
    <3>1. shown'[b] = shown[b] /\ cut'[b] = cut[b] /\ h[a].digest[b] # noted[b]
      BY <2>1, <2>3 DEF Members, InDigest, Lines
    <3> QED BY <1>2, <3>1 DEF ForgetInv, NothingForgotten
  <2> QED BY <2>2, <2>3
<1> QED BY <1>2, <1>3, <1>4, <1>5 DEF ForgetInv

\* Time alone forgets nothing.
LEMMA TickForgets == ASSUME DigestTypeOK, ForgetInv, DigestTick PROVE ForgetInv'
<1>1. FlightInv'
  <2>1. \A a \in Apps : h[a].sending => now + 1 <= h[a].since + Patience
    <3>1. \A a \in Apps : h[a].since \in Nat
      BY DEF DigestTypeOK, Handler
    <3> QED BY <3>1, TimesAssumption DEF DigestTick, DigestTypeOK
  <2> QED BY <2>1 DEF ForgetInv, FlightInv, DigestTick
<1> QED
  BY <1>1 DEF ForgetInv, LatestInv, NothingForgotten, Crowded, DigestTick, InDigest

\* As long as no message is lost, no action forgets a scorecard.
LEMMA ForgetStep ==
  ASSUME DigestTypeOK, ForgetInv, [DigestNext]_digestVars, (failures = MaxFailures)'
  PROVE  ForgetInv'
<1>1. CASE UNCHANGED digestVars
  BY <1>1 DEF ForgetInv, FlightInv, LatestInv, NothingForgotten, Crowded, digestVars, InDigest
<1>2. ASSUME NEW a \in Apps, Notify(a) PROVE ForgetInv'
  BY <1>2, NotifyCases, KeepForgets, FlushForgets
<1>3. ASSUME NEW a \in Apps, Lose(a) PROVE FALSE
  BY <1>3, DigestAssumption DEF Lose, ForgetInv
<1> QED BY <1>1, <1>2, <1>3, DeliverForgets, TickForgets DEF DigestNext

\* A digest once lost stays lost.
LEMMA DeliveredBefore ==
  ASSUME DigestTypeOK, [DigestNext]_digestVars, failures' = MaxFailures
  PROVE  failures = MaxFailures
<1>1. failures \in Nat /\ failures <= MaxFailures /\ MaxFailures \in Nat
  BY DigestAssumption DEF DigestTypeOK
<1>2. failures' <= failures
  BY <1>1 DEF DigestNext, DigestTick, Notify, Deliver, Arrives, Lose, digestVars
<1> QED BY <1>1, <1>2

\* As long as Slack took every digest, no scorecard is forgotten and none is
\* overtaken by an older one, however the handlers of a namespace interleave: in a
\* namespace whose apps fit into one digest at all, in another unless a digest was cut.
\* That Slack's timeouts are shorter than the interval is what it rests on.
THEOREM NothingIsForgotten == DigestSpec => []NothingForgotten
<1> DEFINE Inv == failures = MaxFailures => ForgetInv
<1>1. DigestInit => Inv
  BY DEF DigestInit, ForgetInv, FlightInv, LatestInv, NothingForgotten, Nothing, Resting
<1>2. DigestTypeOK /\ Inv /\ [DigestNext]_digestVars => Inv'
  BY ForgetStep, DeliveredBefore
<1>3. Inv => NothingForgotten
  BY DEF ForgetInv, NothingForgotten
<1> HIDE DEF Inv
<1> QED BY <1>1, <1>2, <1>3, DigestTypes, PTL DEF DigestSpec
=============================================================================
