------------------------- MODULE PaperTradingProofs -------------------------
(***************************************************************************)
(* PaperTrading for every number of requests, failing calls and restarts   *)
(* and every threshold of the write breaker: no request is executed twice  *)
(* and no answer of the route is false.                                    *)
(***************************************************************************)
EXTENDS PaperTrading, TLAPS

\* The executor handles an instruction (_dispatch to _ack).
Working == at \in {"lookup", "spec", "ticker", "post", "sent", "ack"}

\* While it does it knows which, and otherwise it has none; a POST is only made
\* with the write breaker closed, and an ack has a status (_signed_post, _ack).
Shape ==
  /\ Working <=> current # None
  /\ at = "sent" => ~writeOpen
  /\ at = "ack" => verdict # None

Typing == TypeOK /\ Shape

-----------------------------------------------------------------------------
(* Types                                                                   *)

\* A sequence that grows by a member of the set stays one over the set (the inbox).
LEMMA AppendIsTyped ==
  ASSUME NEW S, NEW s \in Seq(S), NEW m \in S
  PROVE  Append(s, m) \in Seq(S) /\ <<>> \in Seq(S)
  OBVIOUS

\* A message that is delivered is put behind the others (Pub/Sub).
LEMMA DeliveredIsTyped ==
  ASSUME TypeOK, NEW m \in Messages PROVE Delivered(m) \in Seq(Messages)
  BY DEF TypeOK, Delivered

\* The head of the inbox is a message, and the rest are messages (run).
LEMMA InboxTaken ==
  ASSUME TypeOK, inbox # <<>>
  PROVE  /\ Head(inbox) \in Messages /\ Tail(inbox) \in Seq(Messages)
         /\ Head(inbox)[2] \in Orders
         /\ Head(inbox) = <<Head(inbox)[1], Head(inbox)[2]>>
<1>1. Head(inbox) \in Messages /\ Tail(inbox) \in Seq(Messages)
  BY DEF TypeOK
<1> QED
  BY <1>1 DEF Messages

\* What the exchange makes of a POST keeps the types (_do_post).
LEMMA PostIsTyped == ASSUME Typing, Post PROVE Typing'
<1> USE OrdersAssumption, BoundAssumption
<1>1. current \in Orders /\ at = "post"
  BY DEF Post, Typing, TypeOK, Shape, Working
<1>2. exchange' \in [Orders -> Nat]
  <2>1. exchange \in [Orders -> Nat]
    BY DEF Typing, TypeOK
  <2>2. UNCHANGED exchange \/ exchange' = [exchange EXCEPT ![current] = @ + 1]
    BY DEF Post
  <2> QED
    BY <2>1, <2>2
<1>3. faults' \in 0..MaxFaults /\ restarts' \in 0..MaxRestarts
  BY DEF Post, Typing, TypeOK, Fail, budget
<1>4. CASE writeOpen
  BY <1>1, <1>2, <1>3, <1>4
     DEF Post, Typing, TypeOK, Shape, Working, Acknowledged, client, Steps, Statuses, None
<1>5. CASE ~writeOpen
  <2>1. at' = "sent" /\ UNCHANGED <<inbox, current, verdict, request, mailbox, client, acked>>
    BY <1>5 DEF Post
  <2>2. reply' \in Replies
    BY <1>5 DEF Post, Replies
  <2> QED
    BY <1>1, <1>2, <1>3, <1>5, <2>1, <2>2
       DEF Typing, TypeOK, Shape, Working, client, Steps, None
<1> QED
  BY <1>4, <1>5

\* The breaker counts up to its threshold and then is open (_signed_post).
LEMMA ReceiveIsTyped == ASSUME Typing, Receive PROVE Typing'
<1> USE FailMaxAssumption
<1>1. current # None /\ ~writeOpen /\ at = "sent"
  BY DEF Receive, Typing, Shape, Working
<1>2. strikes \in 0..FailMax /\ strikes # FailMax
  BY <1>1 DEF Typing, TypeOK
<1>3. /\ UNCHANGED <<inbox, current, request, mailbox, exchange, acked, budget, demoWrites>>
      /\ at' = "ack" /\ verdict' \in {"executed", "failed"} /\ reply' = None
  <2>1. UNCHANGED demoWrites
    BY DEF Receive, Limited
  <2>2. UNCHANGED <<inbox, current, request, mailbox, exchange, acked, budget>>
    BY DEF Receive
  <2>3. verdict' = "executed" \/ verdict' = "failed"
    BY DEF Receive
  <2>4. at' = "ack" /\ reply' = None
    BY DEF Receive
  <2> QED
    BY <2>1, <2>2, <2>3, <2>4
<1>4. strikes' \in 0..FailMax /\ (strikes' = FailMax => writeOpen')
  <2>1. CASE reply = "ok"
    BY <1>2, <2>1 DEF Receive
  <2>2. CASE reply = "limited"
    BY <1>2, <2>2 DEF Receive, Limited
  <2>3. CASE reply \in {"refused", "lost"}
    <3>1. strikes' = strikes + 1
      BY <2>3 DEF Receive
    <3>2. writeOpen' = Opens(strikes')
      BY <2>3 DEF Receive
    <3>3. strikes' \in 0..FailMax
      BY <1>2, <3>1
    <3>4. strikes' = FailMax => Opens(strikes')
      BY <3>3 DEF Opens
    <3> QED
      BY <3>2, <3>3, <3>4, Zenon
  <2> QED
    BY <2>1, <2>2, <2>3 DEF Receive
<1>5. readOpen' \in BOOLEAN /\ writeOpen' \in BOOLEAN /\ rested' \in BOOLEAN
  <2>1. CASE reply = "ok"
    BY <2>1 DEF Receive, Typing, TypeOK
  <2>2. CASE reply = "limited"
    BY <2>2 DEF Receive, Limited
  <2>3. CASE reply \in {"refused", "lost"}
    <3>1. writeOpen' = Opens(strikes') /\ rested' = FALSE /\ UNCHANGED readOpen
      BY <2>3 DEF Receive
    <3>2. Opens(strikes') \in BOOLEAN
      BY DEF Opens
    <3>3. readOpen' \in BOOLEAN /\ rested' \in BOOLEAN
      BY <3>1 DEF Typing, TypeOK
    <3> QED
      BY <3>1, <3>2, <3>3, Zenon
  <2> QED
    BY <2>1, <2>2, <2>3 DEF Receive
<1>6. TypeOK'
  BY <1>3, <1>4, <1>5 DEF Typing, TypeOK, budget, Statuses, Steps
<1>7. Shape'
  BY <1>1, <1>3 DEF Shape, Working, None
<1> QED
  BY <1>6, <1>7 DEF Typing

\* An ack that is published keeps the types (_ack).
LEMMA AcknowledgeIsTyped == ASSUME Typing, Acknowledge PROVE Typing'
<1> USE OrdersAssumption, BoundAssumption
<1>1. current \in Orders /\ at = "ack" /\ verdict \in Statuses
  BY DEF Acknowledge, Typing, TypeOK, Shape, Working
<1>2. mailbox' \in [Orders -> Statuses \cup {None}] /\ acked' \subseteq Orders
  <2>1. mailbox \in [Orders -> Statuses \cup {None}] /\ acked \subseteq Orders
    BY DEF Typing, TypeOK
  <2>2. UNCHANGED <<mailbox, acked>> \/ Delivery
    BY DEF Acknowledge
  <2> QED
    BY <1>1, <2>1, <2>2 DEF Delivery
<1>3. inbox' \in Seq(Messages)
  <2>1. inbox \in Seq(Messages)
    BY DEF Typing, TypeOK
  <2>2. <<"ack", current>> \in Messages
    BY <1>1 DEF Messages
  <2>3. inbox' = Append(inbox, <<"ack", current>>) \/ inbox' = <<>>
    BY DEF Acknowledge, Die
  <2>4. Append(inbox, <<"ack", current>>) \in Seq(Messages) /\ <<>> \in Seq(Messages)
    BY <2>1, <2>2, AppendIsTyped
  <2> QED
    BY <2>3, <2>4
<1>4. /\ UNCHANGED <<request, exchange, client>>
      /\ at' \in {"listen", "dead"} /\ current' = None /\ verdict' = None
      /\ reply' \in {reply, None}
  BY DEF Acknowledge, Die
<1>5. faults' \in 0..MaxFaults /\ restarts' \in 0..MaxRestarts
  BY DEF Acknowledge, Typing, TypeOK, Fail, budget
<1>6. TypeOK'
  BY <1>2, <1>3, <1>4, <1>5 DEF Typing, TypeOK, client, Steps
<1>7. Shape'
  BY <1>4 DEF Shape, Working
<1> QED
  BY <1>6, <1>7 DEF Typing

\* Being refused a read opens both breakers or leaves them, and may be a failure
\* (_signed_get).
LEMMA RefusedIsTyped ==
  ASSUME Typing, Refused
  PROVE  /\ readOpen' \in BOOLEAN /\ writeOpen' \in BOOLEAN /\ rested' \in BOOLEAN
         /\ UNCHANGED <<demoWrites, strikes>>
         /\ strikes' = FailMax => writeOpen'
         /\ faults' \in 0..MaxFaults /\ restarts' \in 0..MaxRestarts
<1>1. UNCHANGED client \/ Limited
  BY DEF Refused
<1>2. faults' \in 0..MaxFaults /\ restarts' \in 0..MaxRestarts
  BY BoundAssumption DEF Refused, Fail, budget, Typing, TypeOK
<1>3. CASE UNCHANGED client
  BY <1>2, <1>3 DEF client, Typing, TypeOK
<1>4. CASE Limited
  BY <1>2, <1>4 DEF Limited
<1> QED
  BY <1>1, <1>3, <1>4

\* The inductive form of the type invariant.
LEMMA TypingHolds == Spec => []Typing
<1>1. Init => Typing
  <2> SUFFICES ASSUME Init PROVE Typing
    OBVIOUS
  <2>1. strikes \in 0..FailMax /\ strikes # FailMax
    BY FailMaxAssumption DEF Init
  <2>2. inbox \in Seq(Messages)
    BY DEF Init
  <2>4. readOpen \in BOOLEAN /\ writeOpen \in BOOLEAN /\ rested \in BOOLEAN
    BY DEF Init
  <2>5. TypeOK
    BY <2>1, <2>2, <2>4, BoundAssumption DEF Init, TypeOK, Steps, None
  <2>3. Shape
    BY DEF Init, Shape, Working
  <2> QED
    BY <2>5, <2>3 DEF Typing
<1>2. Typing /\ [Next]_vars => Typing'
  <2> SUFFICES ASSUME Typing, [Next]_vars PROVE Typing'
    OBVIOUS
  <2> USE FailMaxAssumption, BoundAssumption, OrdersAssumption
      DEF Typing, TypeOK, Shape, Working, client, budget, Steps, None
  <2>1. CASE UNCHANGED vars
    BY <2>1 DEF vars
  <2>2. ASSUME NEW o \in Orders, Submit(o) PROVE Typing'
    BY <2>2 DEF Submit, Answered, Statuses
  <2>3. ASSUME NEW o \in Orders, Publish(o) PROVE Typing'
    <3>1. <<"instruction", o>> \in Messages
      BY DEF Messages
    <3>2. inbox' \in Seq(Messages)
      BY <2>3, <3>1, DeliveredIsTyped DEF Publish
    <3>3. request' \in [Orders -> {"new", "subscribed", "waiting"} \cup Answered]
      BY <2>3 DEF Publish, Answered
    <3> QED
      BY <2>3, <3>2, <3>3 DEF Publish, Fail
  <2>4. ASSUME NEW o \in Orders, Answer(o) PROVE Typing'
    BY <2>4 DEF Answer, Answered, Fail
  <2>5. ASSUME NEW o \in Orders, TimeOut(o) PROVE Typing'
    BY <2>5 DEF TimeOut, Answered
  <2>6. CASE Subscribe
    <3>1. CASE Goto("listen") /\ UNCHANGED budget
      BY <2>6, <3>1 DEF Subscribe, Goto
    <3>2. CASE Fail /\ Die
      BY <2>6, <3>2, AppendIsTyped DEF Subscribe, Fail, Die
    <3> QED
      BY <2>6, <3>1, <3>2 DEF Subscribe
  <2>7. CASE Take
    <3>1. inbox # <<>>
      BY <2>7 DEF Take
    <3>2. inbox' \in Seq(Messages) /\ Head(inbox)[2] \in Orders
      BY <2>7, <3>1, InboxTaken DEF Take
    <3> QED
      BY <2>7, <3>2 DEF Take
  <2>8. CASE Dispatch
    BY <2>8 DEF Dispatch, Acknowledged, Goto, Statuses
  <2>9. CASE ReadSpec
    <3>1. CASE ~readOpen /\ Goto("ticker") /\ UNCHANGED <<client, budget>>
      BY <2>9, <3>1 DEF ReadSpec, Goto
    <3>2. CASE Refused /\ Goto("ticker")
      BY <2>9, <3>2, RefusedIsTyped DEF ReadSpec, Goto
    <3>3. CASE Fail /\ Die /\ UNCHANGED client
      BY <2>9, <3>3 DEF ReadSpec, Fail, Die
    <3> QED
      BY <2>9, <3>1, <3>2, <3>3 DEF ReadSpec
  <2>10. CASE ReadTicker
    <3>1. CASE Goto("post") /\ ~readOpen /\ UNCHANGED <<client, budget>>
      BY <2>10, <3>1 DEF ReadTicker, Goto
    <3>2. CASE Die /\ UNCHANGED <<client, budget>>
      BY <2>10, <3>2 DEF ReadTicker, Die
    <3>3. CASE Refused /\ Die
      BY <2>10, <3>3, RefusedIsTyped DEF ReadTicker, Die
    <3>4. CASE Fail /\ Die /\ UNCHANGED client
      BY <2>10, <3>4 DEF ReadTicker, Fail, Die
    <3> QED
      BY <2>10, <3>1, <3>2, <3>3, <3>4 DEF ReadTicker
  <2>11. CASE Post
    BY <2>11, PostIsTyped
  <2>12. CASE Receive
    BY <2>12, ReceiveIsTyped
  <2>13. CASE Acknowledge
    BY <2>13, AcknowledgeIsTyped
  <2>14. CASE LoseConnection
    <3>1. CASE Die
      BY <2>14, <3>1, AppendIsTyped DEF LoseConnection, Fail, Die
    <3>2. CASE inbox' = <<>> /\ UNCHANGED <<at, current, verdict, reply>>
      BY <2>14, <3>2, AppendIsTyped DEF LoseConnection, Fail
    <3> QED
      BY <2>14, <3>1, <3>2 DEF LoseConnection
  <2>15. CASE BreakerRests
    BY <2>15 DEF BreakerRests
  <2>16. CASE Stop
    BY <2>16 DEF Stop, Answered
  <2>17. CASE Start
    <3>1. strikes' \in 0..FailMax /\ strikes' # FailMax
      BY <2>17 DEF Start
    <3>2. TypeOK'
      BY <2>17, <3>1 DEF Start
    <3>3. Shape'
      BY <2>17 DEF Start
    <3> QED
      BY <3>2, <3>3
  <2> QED
    BY <2>1, <2>2, <2>3, <2>4, <2>5, <2>6, <2>7, <2>8, <2>9, <2>10, <2>11, <2>12,
       <2>13, <2>14, <2>15, <2>16, <2>17 DEF Next, Executor
<1> QED
  BY <1>1, <1>2, PTL DEF Spec

\* Every variable keeps its type; the breaker opens at its threshold
\* (submit_paper_trade, PaperTradeExecutor, BitgetExecutionClient).
THEOREM TypeCorrect == Spec => []TypeOK
  BY TypingHolds, PTL DEF Typing

-----------------------------------------------------------------------------
(* One order, and true answers                                             *)

\* An instruction waits on the executor's subscription (Pub/Sub).
Queued(o) == \E i \in 1..Len(inbox) : inbox[i] = <<"instruction", o>>

\* No instruction waits there twice (submit_paper_trade publishes it once).
OnceQueued ==
  \A o \in Orders : \A i, j \in 1..Len(inbox) :
    inbox[i] = <<"instruction", o>> /\ inbox[j] = <<"instruction", o>> => i = j

\* The route has published the instruction and told nobody how it went.
Awaiting(o) == request[o] \in {"waiting", "pending", "error"}

Untouched(o) == mailbox[o] = None /\ exchange[o] = 0

\* What waits in the queue was not handled before (run, _dispatch).
QueueIsFresh ==
  \A o \in Orders : Queued(o) => Awaiting(o) /\ Untouched(o) /\ current # o

\* What was not published is known to nobody (_publish_and_wait_for_ack).
UnpublishedIsUnknown ==
  \A o \in Orders : request[o] \in {"new", "subscribed"} => Untouched(o)

\* A status that agrees with the exchange.
Tells(status, o) ==
  /\ status = "executed" => exchange[o] = 1
  /\ status \in {"accepted", "rejected"} => exchange[o] = 0

\* The instruction being handled has put no order there before its POST, and one
\* at most after it; the verdict agrees (_dispatch, _process_bitget_result).
HandledOnce ==
  \A o \in Orders : current = o =>
    /\ Awaiting(o) /\ mailbox[o] = None
    /\ at \in {"lookup", "spec", "ticker", "post"} => exchange[o] = 0
    /\ at = "sent" /\ reply = "ok" => exchange[o] = 1
    /\ at = "ack" => Tells(verdict, o)

\* An ack that has arrived agrees with the exchange (_await_ack).
MailIsTrue == \A o \in Orders : Tells(mailbox[o], o)

Once ==
  /\ OnceQueued /\ QueueIsFresh /\ UnpublishedIsUnknown /\ HandledOnce
  /\ MailIsTrue /\ AtMostOneOrder /\ AnswersAreTrue

\* Nothing waits in an empty queue (Die, Stop).
LEMMA QueueEmptied ==
  ASSUME inbox' = <<>>
  PROVE  OnceQueued' /\ \A o \in Orders : ~Queued(o)'
  BY DEF OnceQueued, Queued

\* Taking the first message takes at most its instruction (Take).
LEMMA QueueTaken ==
  ASSUME TypeOK, OnceQueued, inbox # <<>>, inbox' = Tail(inbox)
  PROVE  /\ OnceQueued'
         /\ \A o \in Orders : Queued(o)' => Queued(o)
         /\ \A o \in Orders :
              Head(inbox) = <<"instruction", o>> => Queued(o) /\ ~Queued(o)'
<1>1. inbox \in Seq(Messages) /\ Len(inbox) \in Nat \ {0}
  BY DEF TypeOK
<1>2. /\ Len(inbox') = Len(inbox) - 1
      /\ \A i \in 1..Len(inbox') : inbox'[i] = inbox[i + 1]
  BY <1>1
<1>3. \A i \in 1..Len(inbox') : i + 1 \in 1..Len(inbox) /\ i + 1 # 1
  BY <1>1, <1>2
<1>4. OnceQueued'
  <2> SUFFICES ASSUME NEW o \in Orders, NEW i \in 1..Len(inbox'), NEW j \in 1..Len(inbox'),
                      inbox'[i] = <<"instruction", o>>, inbox'[j] = <<"instruction", o>>
               PROVE  i = j
    BY DEF OnceQueued
  <2>1. i + 1 = j + 1
    BY <1>2, <1>3 DEF OnceQueued
  <2> QED
    BY <2>1, <1>1, <1>2
<1>5. \A o \in Orders : Queued(o)' => Queued(o)
  BY <1>2, <1>3 DEF Queued
<1>6. ASSUME NEW p \in Orders, Head(inbox) = <<"instruction", p>>
      PROVE  Queued(p) /\ ~Queued(p)'
  <2>1. 1 \in 1..Len(inbox) /\ inbox[1] = <<"instruction", p>>
    BY <1>1, <1>6
  <2>2. Queued(p)
    BY <2>1 DEF Queued
  <2>3. ASSUME NEW i \in 1..Len(inbox'), inbox'[i] = <<"instruction", p>> PROVE FALSE
    <3>1. i + 1 \in 1..Len(inbox) /\ i + 1 # 1 /\ inbox[i + 1] = <<"instruction", p>>
      BY <1>2, <1>3, <2>3
    <3> QED
      BY <3>1, <2>1 DEF OnceQueued
  <2> QED
    BY <2>2, <2>3 DEF Queued
<1> QED
  BY <1>4, <1>5, <1>6

\* Putting a message behind the others adds at most its instruction, which did not
\* wait there before (Publish, Acknowledge).
LEMMA QueueGrown ==
  ASSUME TypeOK, OnceQueued, NEW m \in Messages, inbox' = Append(inbox, m),
         \A o \in Orders : m = <<"instruction", o>> => ~Queued(o)
  PROVE  /\ OnceQueued'
         /\ \A o \in Orders : Queued(o)' => Queued(o) \/ m = <<"instruction", o>>
<1>1. inbox \in Seq(Messages) /\ Len(inbox) \in Nat
  BY DEF TypeOK
<1>2. /\ Len(inbox') = Len(inbox) + 1 /\ inbox'[Len(inbox) + 1] = m
      /\ \A i \in 1..Len(inbox) : inbox'[i] = inbox[i]
  BY <1>1
<1>3. \A i \in 1..Len(inbox') : i \in 1..Len(inbox) \/ i = Len(inbox) + 1
  BY <1>1, <1>2
<1>4. \A o \in Orders : Queued(o)' => Queued(o) \/ m = <<"instruction", o>>
  BY <1>2, <1>3 DEF Queued
<1>5. OnceQueued'
  <2> SUFFICES ASSUME NEW o \in Orders, NEW i \in 1..Len(inbox'), NEW j \in 1..Len(inbox'),
                      inbox'[i] = <<"instruction", o>>, inbox'[j] = <<"instruction", o>>
               PROVE  i = j
    BY DEF OnceQueued
  <2>1. CASE m = <<"instruction", o>>
    <3>1. \A k \in 1..Len(inbox) : inbox[k] # <<"instruction", o>>
      BY <2>1 DEF Queued
    <3>2. i = Len(inbox) + 1 /\ j = Len(inbox) + 1
      BY <3>1, <1>2, <1>3
    <3> QED
      BY <3>2
  <2>2. CASE m # <<"instruction", o>>
    <3>1. i \in 1..Len(inbox) /\ j \in 1..Len(inbox)
      BY <2>2, <1>2, <1>3
    <3> QED
      BY <3>1, <1>2 DEF OnceQueued
  <2> QED
    BY <2>1, <2>2
<1> QED
  BY <1>4, <1>5

\* A step of a route other than a publication changes only its own request, and
\* answers no instruction that waits or is handled (submit_paper_trade).
LEMMA RequestMoves ==
  ASSUME Typing, Once, NEW p \in Orders, NEW r,
         request' = [request EXCEPT ![p] = r],
         UNCHANGED <<mailbox, inbox, at, current, verdict, reply, exchange>>,
         \/ r = "subscribed" /\ request[p] = "new"
         \/ r \in {"rejected", "error"} /\ request[p] = "new"
         \/ r = "error" /\ request[p] \in {"subscribed", "waiting"}
         \/ r = "pending" /\ request[p] = "waiting"
         \/ r = mailbox[p] /\ request[p] = "waiting" /\ mailbox[p] # None
  PROVE  Once'
<1>1. /\ request'[p] = r
      /\ \A o \in Orders \ {p} : request'[o] = request[o]
  BY DEF Typing, TypeOK
<1>2. \A o \in Orders : Queued(o)' <=> Queued(o)
  BY DEF Queued
<1>3. OnceQueued' /\ AtMostOneOrder' /\ MailIsTrue'
  BY DEF Once, OnceQueued, AtMostOneOrder, MailIsTrue, Tells
<1>4. \/ ~Queued(p) /\ current # p
      \/ r \in {"error", "pending"}
  BY DEF Once, QueueIsFresh, HandledOnce, Awaiting, Untouched
<1>5. QueueIsFresh'
  BY <1>1, <1>2, <1>4 DEF Once, QueueIsFresh, Awaiting, Untouched
<1>6. HandledOnce'
  BY <1>1, <1>4 DEF Once, HandledOnce, Awaiting, Tells
<1>7. UnpublishedIsUnknown'
  <2>1. r \in {"new", "subscribed"} => Untouched(p)
    BY DEF Once, UnpublishedIsUnknown, Typing, TypeOK, Statuses, None
  <2> QED
    BY <1>1, <2>1 DEF Once, UnpublishedIsUnknown, Untouched
<1>8. AnswersAreTrue'
  <2>1. Tells(r, p)
    BY DEF Once, UnpublishedIsUnknown, Untouched, MailIsTrue, Tells
  <2> QED
    BY <1>1, <2>1 DEF Once, AnswersAreTrue, Tells
<1> QED
  BY <1>3, <1>5, <1>6, <1>7, <1>8 DEF Once

\* A step that leaves requests, acks and the exchange alone and no instruction
\* behind keeps the invariant (Subscribe, LoseConnection, Die).
LEMMA QueueLost ==
  ASSUME Once, inbox' = <<>>, UNCHANGED <<request, mailbox, exchange>>,
         current' = None \/ UNCHANGED <<current, at, reply, verdict>>
  PROVE  Once'
<1> USE OrdersAssumption DEF None
<1>1. OnceQueued' /\ QueueIsFresh'
  BY QueueEmptied DEF QueueIsFresh
<1>2. UnpublishedIsUnknown' /\ MailIsTrue' /\ AtMostOneOrder' /\ AnswersAreTrue'
  BY DEF Once, UnpublishedIsUnknown, Untouched, MailIsTrue, AtMostOneOrder, AnswersAreTrue, Tells
<1>3. HandledOnce'
  BY DEF Once, HandledOnce, Awaiting, Tells
<1> QED
  BY <1>1, <1>2, <1>3 DEF Once

\* The executor goes on with the instruction it has, without a call to the
\* exchange that counts (Dispatch, ReadSpec, ReadTicker).
LEMMA HandlingGoesOn ==
  ASSUME Once, UNCHANGED <<request, mailbox, exchange, inbox, current>>,
         at \in {"lookup", "spec", "ticker", "post"},
         \/ at' \in {"spec", "ticker", "post"}
         \/ at' = "ack" /\ verdict' \in {"rejected", "accepted", "failed"}
  PROVE  Once'
<1>1. \A o \in Orders : Queued(o)' <=> Queued(o)
  BY DEF Queued
<1>2. OnceQueued' /\ AtMostOneOrder' /\ MailIsTrue' /\ AnswersAreTrue'
  BY DEF Once, OnceQueued, AtMostOneOrder, MailIsTrue, AnswersAreTrue, Tells
<1>3. QueueIsFresh' /\ UnpublishedIsUnknown'
  BY <1>1 DEF Once, QueueIsFresh, UnpublishedIsUnknown, Awaiting, Untouched
<1>4. HandledOnce'
  BY DEF Once, HandledOnce, Awaiting, Tells
<1> QED
  BY <1>2, <1>3, <1>4 DEF Once

\* What is published for the first time was neither handled nor answered
\* (_publish_and_wait_for_ack).
LEMMA PublishKeepsOnce ==
  ASSUME Typing, Once, NEW p \in Orders, Publish(p) PROVE Once'
<1>1. CASE UNCHANGED inbox /\ request' = [request EXCEPT ![p] = "error"]
  BY <1>1, RequestMoves DEF Publish
<1>2. ASSUME inbox' = Append(inbox, <<"instruction", p>>), NEW r \in {"waiting", "error"},
             request' = [request EXCEPT ![p] = r]
      PROVE  Once'
  <2>1. /\ request'[p] = r
        /\ \A o \in Orders \ {p} : request'[o] = request[o]
        /\ UNCHANGED <<mailbox, exchange, current, at, verdict, reply>>
    BY <1>2 DEF Typing, TypeOK, Publish
  <2>2. ~Queued(p) /\ current # p /\ Untouched(p)
    BY DEF Publish, Once, QueueIsFresh, HandledOnce, UnpublishedIsUnknown, Awaiting
  <2>3. <<"instruction", p>> \in Messages
    BY DEF Messages
  <2>4. OnceQueued' /\ \A o \in Orders \ {p} : Queued(o)' => Queued(o)
    <3>1. \A o \in Orders : <<"instruction", p>> = <<"instruction", o>> => ~Queued(o)
      BY <2>2
    <3>2. OnceQueued' /\ \A o \in Orders : Queued(o)' => Queued(o) \/ <<"instruction", p>> = <<"instruction", o>>
      BY <1>2, <2>3, <3>1, QueueGrown DEF Typing, Once
    <3> QED
      BY <3>2
  <2>5. QueueIsFresh'
    BY <2>1, <2>2, <2>4 DEF Once, QueueIsFresh, Awaiting, Untouched
  <2>6. UnpublishedIsUnknown' /\ HandledOnce'
    BY <2>1, <2>2 DEF Once, UnpublishedIsUnknown, HandledOnce, Awaiting, Untouched, Tells
  <2>7. MailIsTrue' /\ AtMostOneOrder' /\ AnswersAreTrue'
    BY <2>1, <2>2 DEF Once, MailIsTrue, AtMostOneOrder, AnswersAreTrue, Tells
  <2> QED
    BY <2>4, <2>5, <2>6, <2>7 DEF Once
<1>3. CASE UNCHANGED inbox /\ request' = [request EXCEPT ![p] = "waiting"]
  <2>1. /\ request'[p] = "waiting"
        /\ \A o \in Orders \ {p} : request'[o] = request[o]
        /\ UNCHANGED <<mailbox, exchange, current, at, verdict, reply>>
    BY <1>3 DEF Typing, TypeOK, Publish
  <2>2. \A o \in Orders : Queued(o)' <=> Queued(o)
    BY <1>3 DEF Queued
  <2>3. current # p
    BY DEF Publish, Once, HandledOnce, Awaiting
  <2>4. OnceQueued'
    BY <1>3 DEF Once, OnceQueued
  <2>5. QueueIsFresh' /\ UnpublishedIsUnknown' /\ HandledOnce'
    BY <2>1, <2>2, <2>3
       DEF Once, QueueIsFresh, UnpublishedIsUnknown, HandledOnce, Awaiting, Untouched, Tells
  <2>6. MailIsTrue' /\ AtMostOneOrder' /\ AnswersAreTrue'
    BY <2>1 DEF Once, MailIsTrue, AtMostOneOrder, AnswersAreTrue, Tells
  <2> QED
    BY <2>4, <2>5, <2>6 DEF Once
<1> QED
  BY <1>1, <1>2, <1>3 DEF Publish, Delivered

\* What is taken was not handled before (_handle_message, _dispatch).
LEMMA TakeKeepsOnce == ASSUME Typing, Once, Take PROVE Once'
<1> USE OrdersAssumption DEF None
<1>1. inbox # <<>> /\ inbox' = Tail(inbox) /\ at = "listen" /\ current = None
  BY DEF Take, Typing, Shape, Working
<1>2. /\ OnceQueued'
      /\ \A o \in Orders : Queued(o)' => Queued(o)
      /\ \A o \in Orders : Head(inbox) = <<"instruction", o>> => Queued(o) /\ ~Queued(o)'
  BY <1>1, QueueTaken DEF Typing, Once
<1>3. UNCHANGED <<request, mailbox, exchange, verdict, reply>>
  BY DEF Take
<1>4. \/ UNCHANGED <<at, current>>
      \/ at' = "lookup" /\ \E o \in Orders : current' = o /\ Head(inbox) = <<"instruction", o>>
  BY <1>1, InboxTaken DEF Take, Typing
<1>5. UnpublishedIsUnknown' /\ MailIsTrue' /\ AtMostOneOrder' /\ AnswersAreTrue'
  BY <1>3 DEF Once, UnpublishedIsUnknown, Untouched, MailIsTrue, AtMostOneOrder, AnswersAreTrue, Tells
<1>6. QueueIsFresh'
  BY <1>1, <1>2, <1>3, <1>4 DEF Once, QueueIsFresh, Awaiting, Untouched
<1>7. HandledOnce'
  BY <1>1, <1>2, <1>3, <1>4 DEF Once, HandledOnce, QueueIsFresh, Awaiting, Untouched
<1> QED
  BY <1>2, <1>5, <1>6, <1>7 DEF Once

\* The one POST of an instruction puts at most one order on the exchange, and
\* none of anybody else (_do_post).
LEMMA PostKeepsOnce == ASSUME Typing, Once, Post PROVE Once'
<1>1. /\ current \in Orders /\ exchange[current] = 0 /\ at = "post"
      /\ UNCHANGED <<request, mailbox, inbox, current>>
  BY DEF Post, Typing, TypeOK, Shape, Working, Once, HandledOnce, Acknowledged
<1>2. CASE writeOpen
  BY <1>2, <1>1, HandlingGoesOn DEF Post, Acknowledged
<1>3. CASE ~writeOpen
  <2>1. /\ at' = "sent"
        /\ \A o \in Orders \ {current} : exchange'[o] = exchange[o]
        /\ exchange'[current] \in {0, 1}
        /\ reply' = "ok" => exchange'[current] = 1
    BY <1>1, <1>3 DEF Post, Typing, TypeOK
  <2>2. /\ Awaiting(current) /\ mailbox[current] = None
        /\ ~Queued(current)
    BY <1>1 DEF Once, HandledOnce, QueueIsFresh
  <2>3. \A o \in Orders : Queued(o)' <=> Queued(o)
    BY <1>1 DEF Queued
  <2>4. OnceQueued' /\ AtMostOneOrder'
    BY <1>1, <2>1 DEF Once, OnceQueued, AtMostOneOrder
  <2>5. QueueIsFresh'
    BY <1>1, <2>1, <2>2, <2>3 DEF Once, QueueIsFresh, Awaiting, Untouched
  <2>6. UnpublishedIsUnknown' /\ AnswersAreTrue'
    BY <1>1, <2>1, <2>2 DEF Once, UnpublishedIsUnknown, AnswersAreTrue, Awaiting, Untouched
  <2>7. MailIsTrue'
    BY <1>1, <2>1, <2>2 DEF Once, MailIsTrue, Tells, None
  <2>8. HandledOnce'
    BY <1>1, <2>1, <2>2 DEF Once, HandledOnce, Awaiting
  <2> QED
    BY <2>4, <2>5, <2>6, <2>7, <2>8 DEF Once
<1> QED
  BY <1>2, <1>3

\* The verdict is "executed" only on an answer of success (_process_bitget_result).
LEMMA ReceiveKeepsOnce == ASSUME Typing, Once, Receive PROVE Once'
<1>1. /\ at = "sent" /\ at' = "ack"
      /\ verdict' = IF reply = "ok" THEN "executed" ELSE "failed"
      /\ UNCHANGED <<request, mailbox, inbox, current, exchange>>
  BY DEF Receive
<1>2. \A o \in Orders : Queued(o)' <=> Queued(o)
  BY <1>1 DEF Queued
<1>3. OnceQueued' /\ AtMostOneOrder' /\ MailIsTrue' /\ AnswersAreTrue'
  BY <1>1 DEF Once, OnceQueued, AtMostOneOrder, MailIsTrue, AnswersAreTrue, Tells
<1>4. QueueIsFresh' /\ UnpublishedIsUnknown'
  BY <1>1, <1>2 DEF Once, QueueIsFresh, UnpublishedIsUnknown, Awaiting, Untouched
<1>5. HandledOnce'
  BY <1>1 DEF Once, HandledOnce, Awaiting, Tells
<1> QED
  BY <1>3, <1>4, <1>5 DEF Once

\* The ack that arrives agrees with the exchange, and its instruction is done
\* with (_ack).
LEMMA AcknowledgeKeepsOnce == ASSUME Typing, Once, Acknowledge PROVE Once'
<1> USE OrdersAssumption DEF None
<1>1. /\ current \in Orders /\ at = "ack" /\ current' = None
      /\ UNCHANGED <<request, exchange>>
  BY DEF Acknowledge, Die, Typing, TypeOK, Shape, Working
<1>2. ~Queued(current) /\ Awaiting(current) /\ Tells(verdict, current)
  BY <1>1 DEF Once, QueueIsFresh, HandledOnce
<1>3. /\ \A o \in Orders \ {current} : mailbox'[o] = mailbox[o]
      /\ mailbox'[current] \in {mailbox[current], verdict}
  <2>1. mailbox \in [Orders -> Statuses \cup {None}]
    BY DEF Typing, TypeOK
  <2>2. UNCHANGED mailbox \/ Delivery
    BY DEF Acknowledge
  <2> QED
    BY <1>1, <2>1, <2>2 DEF Delivery
<1>4. OnceQueued' /\ \A o \in Orders : Queued(o)' => Queued(o)
  <2>1. CASE inbox' = <<>>
    BY <2>1, QueueEmptied
  <2>2. CASE inbox' = Append(inbox, <<"ack", current>>)
    <3>1. <<"ack", current>> \in Messages /\ \A o \in Orders : <<"ack", current>> # <<"instruction", o>>
      BY <1>1 DEF Messages
    <3> QED
      BY <2>2, <3>1, QueueGrown DEF Typing, Once
  <2> QED
    BY <2>1, <2>2 DEF Acknowledge, Die
<1>5. QueueIsFresh'
  BY <1>1, <1>2, <1>3, <1>4 DEF Once, QueueIsFresh, Awaiting, Untouched
<1>6. HandledOnce'
  BY <1>1 DEF HandledOnce
<1>7. UnpublishedIsUnknown'
  BY <1>1, <1>2, <1>3 DEF Once, UnpublishedIsUnknown, Awaiting, Untouched
<1>8. MailIsTrue' /\ AtMostOneOrder' /\ AnswersAreTrue'
  BY <1>1, <1>2, <1>3 DEF Once, MailIsTrue, AtMostOneOrder, AnswersAreTrue, Tells
<1> QED
  BY <1>4, <1>5, <1>6, <1>7, <1>8 DEF Once

\* The inductive form of the two properties.
LEMMA OnceHolds == Spec => []Once
<1>1. Init => Once
  <2> SUFFICES ASSUME Init PROVE Once
    OBVIOUS
  <2>1. Len(inbox) = 0 /\ current = None
    BY DEF Init
  <2>2. OnceQueued /\ \A o \in Orders : ~Queued(o)
    BY <2>1 DEF OnceQueued, Queued
  <2> QED
    BY <2>1, <2>2, OrdersAssumption
       DEF Init, Once, QueueIsFresh, UnpublishedIsUnknown, HandledOnce, MailIsTrue,
           AtMostOneOrder, AnswersAreTrue, Untouched, Tells, None
<1>2. Typing /\ Once /\ [Next]_vars => Once'
  <2> SUFFICES ASSUME Typing, Once, [Next]_vars PROVE Once'
    OBVIOUS
  <2>1. CASE UNCHANGED <<request, mailbox, inbox, at, current, verdict, reply, exchange>>
    BY <2>1 DEF Once, OnceQueued, Queued, QueueIsFresh, UnpublishedIsUnknown, HandledOnce,
       MailIsTrue, AtMostOneOrder, AnswersAreTrue, Awaiting, Untouched, Tells
  <2>2. ASSUME NEW o \in Orders, Submit(o) PROVE Once'
    BY <2>2, RequestMoves DEF Submit
  <2>3. ASSUME NEW o \in Orders, Publish(o) PROVE Once'
    BY <2>3, PublishKeepsOnce
  <2>4. ASSUME NEW o \in Orders, Answer(o) PROVE Once'
    BY <2>4, RequestMoves DEF Answer
  <2>5. ASSUME NEW o \in Orders, TimeOut(o) PROVE Once'
    BY <2>5, RequestMoves DEF TimeOut
  <2>6. CASE Subscribe
    <3>1. current = None
      BY <2>6 DEF Subscribe, Typing, Shape, Working
    <3>2. CASE Die
      BY <2>6, <3>2, QueueLost DEF Subscribe, Die
    <3>3. CASE Goto("listen")
      BY <2>6, <3>1, <3>3, OrdersAssumption
         DEF Subscribe, Goto, Once, OnceQueued, Queued, QueueIsFresh, UnpublishedIsUnknown,
             HandledOnce, MailIsTrue, AtMostOneOrder, AnswersAreTrue, Awaiting, Untouched,
             Tells, None
    <3> QED
      BY <2>6, <3>2, <3>3 DEF Subscribe
  <2>7. CASE Take
    BY <2>7, TakeKeepsOnce
  <2>8. CASE Dispatch
    BY <2>8, HandlingGoesOn DEF Dispatch, Acknowledged, Goto
  <2>9. CASE ReadSpec
    BY <2>9, HandlingGoesOn, QueueLost DEF ReadSpec, Goto, Die
  <2>10. CASE ReadTicker
    BY <2>10, HandlingGoesOn, QueueLost DEF ReadTicker, Goto, Die
  <2>11. CASE Post
    BY <2>11, PostKeepsOnce
  <2>12. CASE Receive
    BY <2>12, ReceiveKeepsOnce
  <2>13. CASE Acknowledge
    BY <2>13, AcknowledgeKeepsOnce
  <2>14. CASE LoseConnection
    BY <2>14, QueueLost DEF LoseConnection, Die
  <2>15. CASE BreakerRests
    BY <2>15, <2>1 DEF BreakerRests
  <2>16. CASE Stop
    <3>1. inbox' = <<>> /\ current' = None /\ UNCHANGED <<mailbox, exchange>>
      BY <2>16 DEF Stop
    <3>2. \A o \in Orders : request'[o] \in {request[o], "lost"}
      BY <2>16 DEF Stop, Typing, TypeOK
    <3>3. OnceQueued' /\ QueueIsFresh' /\ HandledOnce'
      BY <3>1, QueueEmptied, OrdersAssumption DEF QueueIsFresh, HandledOnce, None
    <3> QED
      BY <3>1, <3>2, <3>3
         DEF Once, UnpublishedIsUnknown, Untouched, MailIsTrue, AtMostOneOrder, AnswersAreTrue, Tells
  <2>17. CASE Start
    <3>1. current = None
      BY <2>17 DEF Start, Typing, Shape, Working
    <3> QED
      BY <2>17, <3>1, OrdersAssumption
         DEF Start, Once, OnceQueued, Queued, QueueIsFresh, UnpublishedIsUnknown,
             HandledOnce, MailIsTrue, AtMostOneOrder, AnswersAreTrue, Awaiting, Untouched,
             Tells, None
  <2> QED
    BY <2>1, <2>2, <2>3, <2>4, <2>5, <2>6, <2>7, <2>8, <2>9, <2>10, <2>11, <2>12,
       <2>13, <2>14, <2>15, <2>16, <2>17 DEF Next, Executor, vars
<1> QED
  BY <1>1, <1>2, TypingHolds, PTL DEF Spec

\* However answers are lost and whenever the process restarts, one request puts at
\* most one order on the exchange (submit_paper_trade, _dispatch, _do_post).
THEOREM NoSecondOrder == Spec => []AtMostOneOrder
  BY OnceHolds, PTL DEF Once

\* "executed" is on the exchange, "accepted" and "rejected" are not, for every
\* interleaving of the routes, the executor and its restarts (_await_ack).
THEOREM AnswersTellTheTruth == Spec => []AnswersAreTrue
  BY OnceHolds, PTL DEF Once

-----------------------------------------------------------------------------
(* The contract                                                            *)

\* The routes that have not answered yet (submit_paper_trade).
Unanswered == {"new", "subscribed", "waiting"}

\* What the request was told, for somebody who does not see the route work.
Said == [o \in Orders |-> IF request[o] \in Unanswered THEN "open" ELSE request[o]]

Promised == Contract!TNext \/ UNCHANGED <<Said, exchange>>

\* The steps of the contract, in the words of this module.
LEMMA ContractSteps ==
  /\ \A o \in Orders :
       /\ Said[o] \in {"open", "pending", "error"} /\ exchange[o] = 0
       /\ exchange' = [exchange EXCEPT ![o] = 1] /\ Said' = Said
       => Contract!Place(o)
  /\ \A o \in Orders, a \in Statuses \cup {"pending", "error"} :
       /\ Said[o] = "open" /\ Tells(a, o)
       /\ Said' = [Said EXCEPT ![o] = a] /\ exchange' = exchange
       => Contract!Reply(o)
  /\ \A S \in SUBSET Orders :
       /\ \A o \in S : Said[o] = "open"
       /\ Said' = [o \in Orders |-> IF o \in S THEN "lost" ELSE Said[o]]
       /\ exchange' = exchange
       => Contract!Lose(S)
  BY DEF Contract!Place, Contract!Reply, Contract!Lose, Contract!TrueNow, Contract!Final,
         Said, Unanswered, Tells, Statuses

\* A route that goes on without answering shows nothing (Submit, Publish).
LEMMA RouteGoesOn ==
  ASSUME Typing, NEW o \in Orders, NEW r \in Unanswered, request[o] \in Unanswered,
         request' = [request EXCEPT ![o] = r], UNCHANGED exchange
  PROVE  Promised
<1>1. Said' = Said
  BY DEF Said, Typing, TypeOK
<1> QED
  BY <1>1 DEF Promised

\* A route that answers says what is so, once (Submit, Publish, Answer, TimeOut).
LEMMA RouteAnswers ==
  ASSUME Typing, NEW o \in Orders, NEW a \in Statuses \cup {"pending", "error"},
         request[o] \in Unanswered, Tells(a, o),
         request' = [request EXCEPT ![o] = a], UNCHANGED exchange
  PROVE  Promised
<1>1. Said[o] = "open"
  BY DEF Said
<1>2. Said' = [Said EXCEPT ![o] = a]
  BY DEF Said, Unanswered, Statuses, Typing, TypeOK
<1> QED
  BY <1>1, <1>2, ContractSteps DEF Promised, Contract!TNext

\* The POST is the one step that places an order, and only for a request that was
\* told nothing definite (_do_post).
LEMMA PostImplements == ASSUME Typing, Once, Post PROVE Promised
<1>1. /\ current \in Orders /\ exchange[current] = 0 /\ Awaiting(current)
      /\ UNCHANGED request
  BY DEF Post, Typing, TypeOK, Shape, Working, Once, HandledOnce, Acknowledged
<1>2. Said' = Said /\ Said[current] \in {"open", "pending", "error"}
  BY <1>1 DEF Said, Unanswered, Awaiting
<1>3. UNCHANGED exchange \/ exchange' = [exchange EXCEPT ![current] = 1]
  <2>1. UNCHANGED exchange \/ exchange' = [exchange EXCEPT ![current] = @ + 1]
    BY DEF Post
  <2> QED
    BY <1>1, <2>1
<1>4. CASE UNCHANGED exchange
  BY <1>2, <1>4 DEF Promised
<1>5. CASE exchange' = [exchange EXCEPT ![current] = 1]
  <2>1. Contract!Place(current)
    BY <1>1, <1>2, <1>5, ContractSteps
  <2> QED
    BY <1>1, <2>1 DEF Promised, Contract!TNext
<1> QED
  BY <1>3, <1>4, <1>5

\* A process that stops answers none of the requests it had taken (Stop).
LEMMA StopImplements == ASSUME Typing, Stop PROVE Promised
<1>0. PICK S \in SUBSET Orders : S = {o \in Orders : request[o] \in {"subscribed", "waiting"}}
  OBVIOUS
<1>1. /\ request' = [o \in Orders |-> IF o \in S THEN "lost" ELSE request[o]]
      /\ exchange' = exchange
  BY <1>0 DEF Stop
<1>2. \A o \in S : Said[o] = "open"
  BY <1>0 DEF Said, Unanswered
<1>3. Said' = [o \in Orders |-> IF o \in S THEN "lost" ELSE Said[o]]
  BY <1>1 DEF Said, Unanswered
<1>4. Contract!Lose(S)
  BY <1>1, <1>2, <1>3, ContractSteps
<1> QED
  BY <1>4 DEF Promised, Contract!TNext

\* Every step is a step of the contract or none.
LEMMA NextImplements == ASSUME Typing, Once, [Next]_vars PROVE Promised
<1>1. CASE UNCHANGED <<request, exchange>>
  BY <1>1 DEF Promised, Said
<1>2. ASSUME NEW o \in Orders, Submit(o) PROVE Promised
  <2>1. Tells("rejected", o) /\ Tells("error", o)
    BY <1>2 DEF Submit, Once, UnpublishedIsUnknown, Untouched, Tells
  <2> QED
    BY <1>2, <2>1, RouteGoesOn, RouteAnswers DEF Submit, Unanswered, Statuses
<1>3. ASSUME NEW o \in Orders, Publish(o) PROVE Promised
  BY <1>3, RouteGoesOn, RouteAnswers DEF Publish, Unanswered, Tells
<1>4. ASSUME NEW o \in Orders, Answer(o) PROVE Promised
  <2>1. mailbox[o] \in Statuses \cup {None} /\ Tells(mailbox[o], o)
    BY DEF Typing, TypeOK, Once, MailIsTrue
  <2> QED
    BY <1>4, <2>1, RouteAnswers DEF Answer, Unanswered, Tells
<1>5. ASSUME NEW o \in Orders, TimeOut(o) PROVE Promised
  BY <1>5, RouteAnswers DEF TimeOut, Unanswered, Tells
<1>6. CASE Executor /\ ~Post
  BY <1>1, <1>6 DEF Executor, Subscribe, Take, Dispatch, ReadSpec, ReadTicker, Receive, Acknowledge
<1>7. CASE LoseConnection \/ BreakerRests \/ Start
  BY <1>1, <1>7 DEF LoseConnection, BreakerRests, Start
<1> QED
  BY <1>1, <1>2, <1>3, <1>4, <1>5, <1>6, <1>7, PostImplements, StopImplements
     DEF Next, Executor, vars

\* Every run of route, executor, breakers and restarts keeps the contract: at most
\* one order per request, one answer, true when it is given, and no order after a
\* definite answer or a restart (submit_paper_trade, PaperTradeExecutor.run).
THEOREM PaperTradingKeepsContract == Spec => KeepsOrderContract
<1>1. Init => Contract!TInit
  BY DEF Init, Contract!TInit
<1>2. Typing /\ Once /\ [Next]_vars => [Contract!TNext]_(Contract!tvars)
  BY NextImplements DEF Promised, Contract!tvars, Said, Unanswered
<1> QED
  BY <1>1, <1>2, TypingHolds, OnceHolds, PTL DEF Spec, KeepsOrderContract, Contract!TSpec

-----------------------------------------------------------------------------
(* What was taken is finished                                              *)

\* How far the handling of an instruction has come (_dispatch, _place, _signed_post).
Progress(step) ==
  IF step = "lookup" THEN 1
  ELSE IF step = "spec" THEN 2
  ELSE IF step = "ticker" THEN 3
  ELSE IF step = "post" THEN 4
  ELSE IF step = "sent" THEN 5
  ELSE IF step = "ack" THEN 6
  ELSE 7

\* An instruction that was taken is dropped by nobody: every step of the executor
\* brings it nearer to its acknowledgement, nothing takes it back or puts another
\* in its place, and it is let go only with its acknowledgement published, unless
\* the executor dies or the process stops (run, _dispatch, _process_bitget_result).
HandledForward ==
  [][current # None =>
       /\ at \in {"lookup", "spec", "ticker", "post", "sent", "ack"}
       /\ current' \in {current, None}
       /\ current' = None => current \in acked' \/ at' \in {"dead", "down"}
       /\ Progress(at') >= Progress(at)
       /\ Executor => Progress(at') > Progress(at)]_vars

THEOREM InstructionsGoForward == Spec => HandledForward
<1>1. Typing /\ [Next]_vars =>
        [current # None =>
           /\ at \in {"lookup", "spec", "ticker", "post", "sent", "ack"}
           /\ current' \in {current, None}
           /\ current' = None => current \in acked' \/ at' \in {"dead", "down"}
           /\ Progress(at') >= Progress(at)
           /\ Executor => Progress(at') > Progress(at)]_vars
  <2> DEFINE Forward ==
        /\ current' \in {current, None}
        /\ current' = None => current \in acked' \/ at' \in {"dead", "down"}
        /\ Progress(at') >= Progress(at)
        /\ Executor => Progress(at') > Progress(at)
  <2> SUFFICES ASSUME Typing, Next, current # None
               PROVE  at \in {"lookup", "spec", "ticker", "post", "sent", "ack"} /\ Forward
    OBVIOUS
  <2>1. at \in {"lookup", "spec", "ticker", "post", "sent", "ack"}
    BY DEF Typing, TypeOK, Shape, Working
  <2>2. CASE Executor
    <3>1. CASE Take \/ Subscribe
      BY <2>1, <3>1 DEF Take, Subscribe
    <3>2. CASE Dispatch
      BY <3>2 DEF Dispatch, Acknowledged, Goto, Progress
    <3>3. CASE ReadSpec
      BY <3>3 DEF ReadSpec, Goto, Die, Progress
    <3>4. CASE ReadTicker
      BY <3>4 DEF ReadTicker, Goto, Die, Progress
    <3>5. CASE Post
      BY <3>5 DEF Post, Acknowledged, Progress
    <3>6. CASE Receive
      BY <3>6 DEF Receive, Progress
    <3>7. CASE Acknowledge
      <4>1. /\ at = "ack" /\ current' = None /\ at' \in {"listen", "dead"}
            /\ at' = "listen" => current \in acked'
        BY <3>7 DEF Acknowledge, Delivery, Die
      <4> QED
        BY <4>1 DEF Progress
    <3> QED
      BY <2>2, <3>1, <3>2, <3>3, <3>4, <3>5, <3>6, <3>7 DEF Executor
  <2>3. ASSUME ~Executor PROVE Forward
    <3>1. \/ UNCHANGED <<at, current>>
          \/ current' = None /\ at' = "down"
      BY <2>1, <2>3 DEF Next, Submit, Publish, Answer, TimeOut, LoseConnection, BreakerRests,
                        Stop, Start
    <3> QED
      BY <2>1, <2>3, <3>1 DEF Progress
  <2> QED
    BY <2>1, <2>2, <2>3
<1> QED
  BY <1>1, TypingHolds, PTL DEF Spec, HandledForward

-----------------------------------------------------------------------------
(* The breaker that does not close                                         *)

\* A write breaker that is open stays open, however long it has rested and whatever
\* is ordered, until the process is started again; while it is open every order
\* that reaches the POST is answered "failed" without a call (_do_post, _signed_post).
OpenIsForever ==
  [][writeOpen /\ at # "down" =>
       /\ writeOpen'
       /\ at = "post" /\ at' # at => at' = "down" \/ (at' = "ack" /\ verdict' = "failed")
       /\ UNCHANGED exchange]_vars

\* That is for every fail_max and every number of faults: what OpenBreakerCloses asks
\* for cannot happen.
THEOREM BreakerNeverCloses == Spec => OpenIsForever
<1>1. Typing /\ [Next]_vars =>
        [writeOpen /\ at # "down" =>
           /\ writeOpen'
           /\ at = "post" /\ at' # at => at' = "down" \/ (at' = "ack" /\ verdict' = "failed")
           /\ UNCHANGED exchange]_vars
  <2> SUFFICES ASSUME Typing, Next, writeOpen, at # "down"
               PROVE  /\ writeOpen'
                      /\ at = "post" /\ at' # at => at' = "down" \/ (at' = "ack" /\ verdict' = "failed")
                      /\ UNCHANGED exchange
    OBVIOUS
  <2>0. at # "sent"
    BY DEF Typing, Shape
  <2>1. writeOpen'
    BY <2>0 DEF Next, Submit, Publish, Answer, TimeOut, Executor, Subscribe, Take, Dispatch, ReadSpec,
           ReadTicker, Refused, Limited, Post, Receive, Acknowledge, LoseConnection,
           BreakerRests, Stop, Start, client
  <2>2. UNCHANGED exchange
    BY <2>0 DEF Next, Submit, Publish, Answer, TimeOut, Executor, Subscribe, Take, Dispatch, ReadSpec,
           ReadTicker, Post, Receive, Acknowledge, LoseConnection, BreakerRests, Stop, Start
  <2>3. ASSUME at = "post", at' # at
        PROVE  at' = "down" \/ (at' = "ack" /\ verdict' = "failed")
    <3>1. Post \/ Stop
      BY <2>3 DEF Next, Submit, Publish, Answer, TimeOut, Executor, Subscribe, Take, Dispatch,
             ReadSpec, ReadTicker, Receive, Acknowledge, LoseConnection, BreakerRests, Start
    <3> QED
      BY <3>1 DEF Post, Acknowledged, Stop
  <2> QED
    BY <2>1, <2>2, <2>3
<1> QED
  BY <1>1, TypingHolds, PTL DEF Spec, OpenIsForever

=============================================================================
