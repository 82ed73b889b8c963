--------------------------- MODULE PaperTrading ---------------------------
(***************************************************************************)
(* A paper trade from the route that submits it to the exchange and back:  *)
(* atlas/routes/paper_trade.py publishes an instruction on Redis Pub/Sub   *)
(* and waits briefly for an acknowledgement; the PaperTradeExecutor of     *)
(* prometheus/services/paper_trade_executor.py takes one instruction at a  *)
(* time and places it through prometheus/execution/bitget_client.py, whose *)
(* two circuit breakers stand between the process and the exchange.      *)
(***************************************************************************)
EXTENDS Naturals, Sequences, FiniteSets

CONSTANTS
  Orders,       \* order_id of every request, a fresh uuid each
  FailMax,      \* consecutive failed writes that open the write breaker
  MaxFaults,    \* bound: calls to the exchange or to Redis that go wrong
  MaxRestarts   \* bound: restarts of the backend process

ASSUME FailMaxAssumption == FailMax \in Nat \ {0}
ASSUME BoundAssumption == MaxFaults \in Nat /\ MaxRestarts \in Nat
ASSUME OrdersAssumption == "none" \notin Orders

VARIABLES
  request,    \* where each request is, or what it was answered
  mailbox,    \* the ack the route has received and not yet returned
  inbox,      \* messages on the executor's subscription
  at,         \* where the executor is
  current,    \* the instruction it is handling
  verdict,    \* status of the ack it is about to publish
  reply,      \* what the exchange makes of the POST in flight
  exchange,   \* orders the exchange has accepted for each order_id
  demoWrites, \* paper_trade_dry_run is off and bitget_demo_write_enabled on
  readOpen,   \* the bitget_read breaker is open
  writeOpen,  \* the bitget_write breaker is open
  rested,     \* its reset_timeout has passed since
  strikes,    \* consecutive failed writes it has counted
  acked,      \* history: orders whose ack was published
  faults, restarts

client   == <<demoWrites, readOpen, writeOpen, rested, strikes>>
budget   == <<faults, restarts>>
vars     == <<request, mailbox, inbox, at, current, verdict, reply, exchange,
              client, acked, budget>>

-----------------------------------------------------------------------------
None     == "none"
Statuses == {"accepted", "rejected", "executed", "failed"}
Answered == Statuses \cup {"pending", "error", "lost"}
Messages == {"instruction", "ack"} \X Orders
Steps    == {"down", "dead", "starting", "listen", "lookup", "spec", "ticker", "post", "sent", "ack"}
Replies  == {"ok", "refused", "limited", "lost"}

TypeOK ==
  /\ request \in [Orders -> {"new", "subscribed", "waiting"} \cup Answered]
  /\ mailbox \in [Orders -> Statuses \cup {None}]
  /\ inbox \in Seq(Messages)
  /\ at \in Steps
  /\ current \in Orders \cup {None}
  /\ verdict \in Statuses \cup {None}
  /\ reply \in Replies \cup {None}
  /\ exchange \in [Orders -> Nat]
  /\ demoWrites \in BOOLEAN
  /\ readOpen \in BOOLEAN /\ writeOpen \in BOOLEAN /\ rested \in BOOLEAN
  /\ strikes \in 0..FailMax /\ (strikes = FailMax => writeOpen)
  /\ acked \subseteq Orders
  /\ faults \in 0..MaxFaults /\ restarts \in 0..MaxRestarts

Init ==
  /\ request = [o \in Orders |-> "new"]
  /\ mailbox = [o \in Orders |-> None]
  /\ inbox = <<>>
  /\ at = "starting" /\ current = None /\ verdict = None /\ reply = None
  /\ exchange = [o \in Orders |-> 0]
  /\ demoWrites \in BOOLEAN
  /\ readOpen = FALSE /\ writeOpen = FALSE /\ rested = FALSE /\ strikes = 0
  /\ acked = {}
  /\ faults = 0 /\ restarts = 0

Fail == faults < MaxFaults /\ faults' = faults + 1 /\ UNCHANGED restarts

Subscribed == at \notin {"down", "dead", "starting"}

\* PUBLISH reaches the executor only while it is subscribed.
Delivered(m) == IF Subscribed THEN Append(inbox, m) ELSE inbox

-----------------------------------------------------------------------------
(* submit_paper_trade *)

\* _lookup_demo_symbol, then SUBSCRIBE to the ack channel of this order.  Without
\* the symbol cache the answer is 503.
Submit(o) ==
  /\ request[o] = "new"
  /\ \E r \in {"rejected", "error", "subscribed"} : request' = [request EXCEPT ![o] = r]
  /\ UNCHANGED <<mailbox, inbox, at, current, verdict, reply, exchange, client, acked, budget>>

\* PUBLISH.  When it raises, the instruction may have been delivered or not.
Publish(o) ==
  /\ request[o] = "subscribed"
  /\ \/ /\ request' = [request EXCEPT ![o] = "waiting"]
        /\ inbox' = Delivered(<<"instruction", o>>)
        /\ UNCHANGED budget
     \/ /\ Fail
        /\ request' = [request EXCEPT ![o] = "error"]
        /\ inbox' \in {inbox, Delivered(<<"instruction", o>>)}
  /\ UNCHANGED <<mailbox, at, current, verdict, reply, exchange, client, acked>>

\* _listen_first: the ack, or the loss of the subscription.
Answer(o) ==
  /\ request[o] = "waiting"
  /\ \/ /\ mailbox[o] # None
        /\ request' = [request EXCEPT ![o] = mailbox[o]]
        /\ UNCHANGED budget
     \/ Fail /\ request' = [request EXCEPT ![o] = "error"]
  /\ UNCHANGED <<mailbox, inbox, at, current, verdict, reply, exchange, client, acked>>

\* wait_for gives up, also on an ack that has arrived and was not read yet.
TimeOut(o) ==
  /\ request[o] = "waiting"
  /\ request' = [request EXCEPT ![o] = "pending"]
  /\ UNCHANGED <<mailbox, inbox, at, current, verdict, reply, exchange, client, acked, budget>>

-----------------------------------------------------------------------------
(* PaperTradeExecutor.run: one message at a time *)

\* An exception leaves run(): nobody starts it again.
Die ==
  /\ at' = "dead"
  /\ inbox' = <<>> /\ current' = None /\ verdict' = None /\ reply' = None

Goto(step) == at' = step /\ UNCHANGED <<inbox, current, verdict, reply>>

\* PSUBSCRIBE.  The routes are served before it is done.
Subscribe ==
  /\ at = "starting"
  /\ \/ Goto("listen") /\ UNCHANGED budget
     \/ Fail /\ Die
  /\ UNCHANGED <<request, mailbox, exchange, client, acked>>

\* The connection of the subscription breaks: listen() raises, or it connects and
\* subscribes again without what was published meanwhile.
LoseConnection ==
  /\ at = "listen"
  /\ Fail
  /\ \/ Die
     \/ inbox' = <<>> /\ UNCHANGED <<at, current, verdict, reply>>
  /\ UNCHANGED <<request, mailbox, exchange, client, acked>>

\* Mutation: what does not decode is rejected, and the reject is an ack.
Take_RejectsAcks ==
  /\ at = "listen" /\ inbox # <<>>
  /\ inbox' = Tail(inbox)
  /\ current' = Head(inbox)[2]
  /\ IF Head(inbox)[1] = "ack" THEN at' = "ack" /\ verdict' = "rejected"
                               ELSE at' = "lookup" /\ UNCHANGED verdict
  /\ UNCHANGED <<request, mailbox, reply, exchange, client, acked, budget>>

\* The pattern of the subscription matches the executor's own acks: they do not
\* decode as instructions and are dropped.
Take ==
  /\ at = "listen" /\ inbox # <<>>
  /\ inbox' = Tail(inbox)
  /\ \/ /\ Head(inbox)[1] = "ack"
        /\ UNCHANGED <<at, current>>
     \/ /\ Head(inbox)[1] = "instruction"
        /\ at' = "lookup" /\ current' = Head(inbox)[2]
  /\ UNCHANGED <<request, mailbox, verdict, reply, exchange, client, acked, budget>>

Acknowledged(status) ==
  at' = "ack" /\ verdict' = status /\ UNCHANGED <<inbox, current, reply>>

\* _dispatch: the demo universe may have changed since the route looked.
Dispatch ==
  /\ at = "lookup"
  /\ \/ Acknowledged("rejected")
     \/ ~demoWrites /\ Acknowledged("accepted")
     \/ demoWrites /\ Goto("spec")
  /\ UNCHANGED <<request, mailbox, exchange, client, acked, budget>>

\* _signed_get answers, refuses (None) or raises; an open breaker refuses, and
\* being rate limited opens both breakers.
Limited ==
  /\ readOpen' = TRUE /\ writeOpen' = TRUE /\ rested' = FALSE
  /\ UNCHANGED <<demoWrites, strikes>>

Refused ==
  \/ readOpen /\ UNCHANGED <<client, budget>>
  \/ ~readOpen /\ Fail /\ (Limited \/ UNCHANGED client)

\* get_contract_spec: conservative defaults when it is refused.
ReadSpec ==
  /\ at = "spec"
  /\ \/ ~readOpen /\ Goto("ticker") /\ UNCHANGED <<client, budget>>
     \/ Refused /\ Goto("ticker")
     \/ ~readOpen /\ Fail /\ Die /\ UNCHANGED client
  /\ UNCHANGED <<request, mailbox, exchange, acked>>

\* get_ticker and the size: a refused ticker has price zero, and a notional below a
\* tenth of the minimum is an InsufficientSizeError; both leave run().
ReadTicker ==
  /\ at = "ticker"
  /\ \/ ~readOpen /\ (Goto("post") \/ Die) /\ UNCHANGED <<client, budget>>
     \/ Refused /\ Die
     \/ ~readOpen /\ Fail /\ Die /\ UNCHANGED client
  /\ UNCHANGED <<request, mailbox, exchange, acked>>

\* _signed_post.  An open breaker fails the order without a call; otherwise the
\* exchange accepts it, or not, and the answer may be lost on its way back.
Post ==
  /\ at = "post"
  /\ \/ /\ writeOpen
        /\ Acknowledged("failed")
        /\ UNCHANGED <<exchange, faults, restarts>>
     \/ /\ ~writeOpen
        /\ at' = "sent" /\ UNCHANGED <<inbox, current, verdict>>
        /\ \/ /\ reply' = "ok" /\ UNCHANGED budget
              /\ exchange' = [exchange EXCEPT ![current] = @ + 1]
           \/ /\ reply' = "lost" /\ Fail
              /\ exchange' = [exchange EXCEPT ![current] = @ + 1]
           \/ /\ reply' \in {"refused", "limited", "lost"} /\ Fail
              /\ UNCHANGED exchange
  /\ UNCHANGED <<request, mailbox, client, acked>>

\* Mutation: the order is sent again when no answer came.
Receive_Retries ==
  /\ at = "sent"
  /\ reply' = None
  /\ IF reply = "lost" THEN at' = "post" /\ UNCHANGED verdict
     ELSE at' = "ack" /\ verdict' = IF reply = "ok" THEN "executed" ELSE "failed"
  /\ UNCHANGED <<inbox, current, request, mailbox, exchange, client, acked, budget>>

\* Mutation: result.success is not looked at.
Receive_Trusting ==
  /\ at = "sent"
  /\ reply' = None
  /\ at' = "ack" /\ verdict' = "executed"
  /\ UNCHANGED <<inbox, current, request, mailbox, exchange, client, acked, budget>>

\* Mutation: one failure more than fail_max is waited for.
Opens_Late(count) == count > FailMax

Opens(count) == count >= FailMax

\* The breaker is told of the result, and the result decides the ack.
Receive ==
  /\ at = "sent"
  /\ reply' = None
  /\ at' = "ack" /\ verdict' = IF reply = "ok" THEN "executed" ELSE "failed"
  /\ \/ /\ reply = "ok"
        /\ strikes' = 0 /\ UNCHANGED <<demoWrites, readOpen, writeOpen, rested>>
     \/ /\ reply = "limited" /\ Limited
     \/ /\ reply \in {"refused", "lost"}
        /\ strikes' = strikes + 1
        /\ writeOpen' = Opens(strikes') /\ rested' = FALSE
        /\ UNCHANGED <<demoWrites, readOpen>>
  /\ UNCHANGED <<inbox, current, request, mailbox, exchange, acked, budget>>

\* _ack: PUBLISH to the channel of the order, and so to the own subscription.
Delivery ==
  /\ mailbox' = IF request[current] = "waiting" /\ mailbox[current] = None
                  THEN [mailbox EXCEPT ![current] = verdict] ELSE mailbox
  /\ acked' = acked \cup {current}

\* Mutation: a failed order is logged and not acknowledged.
Acknowledge_Silent ==
  /\ at = "ack"
  /\ at' = "listen" /\ current' = None /\ verdict' = None
  /\ IF verdict = "failed" THEN UNCHANGED <<mailbox, acked, inbox>>
                           ELSE Delivery /\ inbox' = Append(inbox, <<"ack", current>>)
  /\ UNCHANGED <<request, reply, exchange, client, budget>>

Acknowledge ==
  /\ at = "ack"
  /\ \/ /\ Delivery
        /\ inbox' = Append(inbox, <<"ack", current>>)
        /\ at' = "listen" /\ current' = None /\ verdict' = None
        /\ UNCHANGED <<reply, budget>>
     \/ /\ Fail /\ Die                          \* PUBLISH raises
        /\ Delivery \/ UNCHANGED <<mailbox, acked>>
  /\ UNCHANGED <<request, exchange, client>>

-----------------------------------------------------------------------------
(* The backend process *)

\* reset_timeout of the write breaker.  Its state does not change by itself.
BreakerRests ==
  /\ writeOpen /\ ~rested
  /\ rested' = TRUE
  /\ UNCHANGED <<request, mailbox, inbox, at, current, verdict, reply, exchange,
                 demoWrites, readOpen, writeOpen, strikes, acked, budget>>

\* The process is stopped or killed, at any await; the routes it serves go too.
Stop ==
  /\ at # "down"
  /\ restarts < MaxRestarts /\ restarts' = restarts + 1
  /\ at' = "down"
  /\ inbox' = <<>> /\ current' = None /\ verdict' = None /\ reply' = None
  /\ request' = [o \in Orders |-> IF request[o] \in {"subscribed", "waiting"} THEN "lost"
                                                                            ELSE request[o]]
  /\ UNCHANGED <<mailbox, exchange, client, acked, faults>>

\* _start_paper_trade_executor: settings are read, and the breakers are new.
Start ==
  /\ at = "down"
  /\ at' = "starting"
  /\ demoWrites' \in BOOLEAN
  /\ readOpen' = FALSE /\ writeOpen' = FALSE /\ rested' = FALSE /\ strikes' = 0
  /\ UNCHANGED <<request, mailbox, inbox, current, verdict, reply, exchange, acked, budget>>

-----------------------------------------------------------------------------
Executor ==
  \/ Subscribe
  \/ Take
  \/ Dispatch
  \/ ReadSpec
  \/ ReadTicker
  \/ Post
  \/ Receive
  \/ Acknowledge

Next ==
  \/ \E o \in Orders : Submit(o) \/ Publish(o) \/ Answer(o) \/ TimeOut(o)
  \/ Executor \/ LoseConnection
  \/ BreakerRests \/ Stop \/ Start

Spec == Init /\ [][Next]_vars

\* The executor's coroutine runs, the routes finish and a stopped process is
\* started again; nobody is obliged to submit.
Fairness ==
  /\ WF_vars(Executor) /\ WF_vars(Start)
  /\ \A o \in Orders : WF_vars(Publish(o)) /\ WF_vars(Answer(o) \/ TimeOut(o))

FairSpec == Spec /\ Fairness

-----------------------------------------------------------------------------
(* Properties *)

\* However answers are lost and whenever the process restarts, one request puts at
\* most one order on the exchange (the order carries no clientOid that could tell
\* a second one apart, _build_plan_request).
AtMostOneOrder == \A o \in Orders : exchange[o] <= 1

\* What the route answers is so: "executed" is on the exchange, "accepted" and
\* "rejected" are not and will not be (submit_paper_trade); "failed", "pending" and
\* an error promise nothing.
AnswersAreTrue ==
  \A o \in Orders : /\ request[o] = "executed" => exchange[o] = 1
                    /\ request[o] \in {"accepted", "rejected"} => exchange[o] = 0

\* The executor does not answer its own acks, which run() is subscribed to as well:
\* once the requests cease, it comes to rest.
AcksDoNotEcho == <>[](inbox = <<>> /\ current = None)

\* An instruction the executor has taken is acknowledged, unless the executor
\* dies or the process stops first (_dispatch, _process_bitget_result).
TakenIsAcked ==
  \A o \in Orders : current = o ~> (o \in acked \/ at \in {"dead", "down"})

\* Session 22B: a rate limit opens the breaker for 30 seconds; an order that comes
\* later is sent to the exchange (_signed_post).
OpenBreakerCloses ==
  [][at = "post" /\ at' # "down" /\ writeOpen /\ rested => at' # "ack"]_vars

-----------------------------------------------------------------------------
(* The contract this module implements.                                    *)

Contract == INSTANCE OrderContract WITH
  answer <- [o \in Orders |-> IF request[o] \in {"new", "subscribed", "waiting"}
                             THEN "open" ELSE request[o]],
  placed <- exchange

\* Every run of route, executor and client is a run of the contract: one order at
\* most, one answer, true when it is given, and no order after a definite one
\* (submit_paper_trade, PaperTradeExecutor.run).
KeepsOrderContract == Contract!TSpec

=============================================================================
