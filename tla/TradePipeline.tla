--------------------------- MODULE TradePipeline ---------------------------
(***************************************************************************)
(* One evaluation of an asset by TradeOrchestrator: five timeframe gates,  *)
(* the entry decision of a language model, the request to PROMETHEUS, the  *)
(* wait for its fill, and the review of the position by two models with    *)
(* exits at T+30 and T+60.  PROMETHEUS and the models are external.  The   *)
(* atomic steps are the stretches between two awaits of the coroutine.     *)
(***************************************************************************)
EXTENDS Integers, Sequences

CONSTANTS Scores,    \* raw scores each of the five gates may have, on the 220-point scale
          Clarity    \* direction confidences a gate may have, in percent

ASSUME TradeAssumption ==
  Scores \in [1..5 -> SUBSET (0..220)] /\ Clarity \subseteq 0..100

VARIABLES
  pc,         \* where the coroutine is
  gates,      \* the gates evaluated, in the order of TIMEFRAME_ORDER
  lm,         \* the model's entry decision
  request,    \* the execution request as published
  fill,       \* what PROMETHEUS did: "none", "filled", "taken" by the poll
  deepseek,   \* the review tasks: "off", "running", "cancelled", or how they ended
  mistral,
  exits,      \* the close instructions published, in order
  unsent,     \* a close instruction could not be published
  remaining,  \* position_remaining, in percent
  outcome     \* the audit's outcome

review == <<deepseek, mistral, exits, unsent, remaining>>
vars == <<pc, gates, lm, request, fill, review, outcome>>

-----------------------------------------------------------------------------
(* The gates.                                                              *)

Timeframes == <<"daily", "4hr", "1hr", "15min", "5min">>
MinScore == <<60, 50, 120, 110, 100>>
MinClarity == <<65, 60, 55, 50, 50>>
Sides == {"LONG", "SHORT"}

Gate == [score : 0..220, direction : Sides]

\* What the nth gate is found to be: a cached score, or the one of a cache miss.
Found(n) == [score : Scores[n], direction : Sides \cup {"NEUTRAL"}, clarity : Clarity,
             ranging : BOOLEAN]
CacheMiss == [score |-> 0, direction |-> "NEUTRAL", clarity |-> 0, ranging |-> TRUE]

\* Mutant: a lower timeframe need not agree with the daily one.
EvaluateGate_AnyDirection(n, g) ==
  /\ g.score >= MinScore[n]
  /\ n = 1 => ~g.ranging
  /\ g.clarity >= MinClarity[n]
  /\ g.direction # "NEUTRAL"

EvaluateGate(n, g) ==
  /\ g.score >= MinScore[n]
  /\ n = 1 => ~g.ranging
  /\ g.clarity >= MinClarity[n]
  /\ g.direction # "NEUTRAL"
  /\ n > 1 => g.direction = gates[1].direction

TimeframeBonus ==
  IF \A i, j \in 1..3 : gates[i].direction = gates[j].direction THEN 15 ELSE -10

\* Mutant: the total is not capped.
FinalScore_Uncapped == gates[3].score + TimeframeBonus

FinalScore ==
  LET total == gates[3].score + TimeframeBonus IN IF total > 220 THEN 220 ELSE total

SizePct(score) == IF score >= 180 THEN 5 ELSE IF score >= 150 THEN 3 ELSE 2
Leverage(score) == SizePct(score)

-----------------------------------------------------------------------------
NoRequest == [direction |-> "none", score |-> 0, size |-> 0, leverage |-> 0]

Verdicts == {"HOLD", "EXIT"}
TaskStates == {"off", "running", "cancelled", "error", "timeout"} \cup Verdicts

TypeOK ==
  /\ pc \in {"gates", "lm", "publish", "fill", "delete", "deepseek", "partial",
             "both", "close", "done"}
  /\ gates \in Seq(Gate) /\ Len(gates) <= 5
  /\ lm \in {"none", "SKIP"} \cup Sides
  /\ request \in {NoRequest} \cup
       [direction : Sides, score : 120..220, size : {2, 3, 5}, leverage : {2, 3, 5}]
  /\ fill \in {"none", "filled", "taken"}
  /\ deepseek \in TaskStates /\ mistral \in TaskStates
  /\ exits \in Seq({"partial", "full"})
  /\ unsent \in BOOLEAN
  /\ remaining \in {0, 50, 100}
  /\ outcome \in {"none", "gate_fail", "lm_skip", "execution_timeout", "error",
                  "lost", "HOLD", "EXIT", "TIMEOUT"}

Init ==
  /\ pc = "gates" /\ gates = <<>> /\ lm = "none" /\ request = NoRequest
  /\ fill = "none" /\ deepseek = "off" /\ mistral = "off"
  /\ exits = <<>> /\ unsent = FALSE /\ remaining = 100
  /\ outcome = "none"

\* The coroutine returns its audit.
End(o) == pc' = "done" /\ outcome' = o

-----------------------------------------------------------------------------
(* Gate chain, entry decision, request.                                    *)

EvaluateNext ==
  /\ pc = "gates"
  /\ LET n == Len(gates) + 1 IN
     \E g \in Found(n) \cup {CacheMiss} :
       IF EvaluateGate(n, g)
       THEN /\ gates' = Append(gates, [score |-> g.score, direction |-> g.direction])
            /\ pc' = IF n = 5 THEN "lm" ELSE "gates"
            /\ UNCHANGED outcome
       ELSE End("gate_fail") /\ UNCHANGED gates
  /\ UNCHANGED <<lm, request, fill, review>>

\* A cached entry lacks a field, or the audit cannot be made: except Exception.
GateRaises ==
  /\ pc = "gates" /\ End("error")
  /\ UNCHANGED <<gates, lm, request, fill, review>>

\* A time-out, an error or an answer outside LONG, SHORT, SKIP is no answer.
EntryDecision ==
  /\ pc = "lm"
  /\ \E d \in Sides \cup {"SKIP", "none"} :
       /\ lm' = d
       /\ IF d \in Sides THEN pc' = "publish" /\ UNCHANGED outcome ELSE End("lm_skip")
  /\ UNCHANGED <<gates, request, fill, review>>

PublishRequest ==
  request' = [direction |-> lm, score |-> FinalScore,
              size |-> SizePct(FinalScore), leverage |-> Leverage(FinalScore)]

RequestExecution ==
  /\ pc = "publish" /\ PublishRequest
  /\ pc' = "fill"
  /\ UNCHANGED <<gates, lm, fill, review, outcome>>

\* PUBLISH raises; PROMETHEUS may have heard it.
RequestFails ==
  /\ pc = "publish" /\ End("error")
  /\ PublishRequest \/ UNCHANGED request
  /\ UNCHANGED <<gates, lm, fill, review>>

\* PROMETHEUS fills and leaves polaris:fills:{run_id}, in its own time.
PrometheusFills ==
  /\ request # NoRequest /\ fill = "none"
  /\ fill' = "filled"
  /\ UNCHANGED <<pc, gates, lm, request, review, outcome>>

\* A poll finds the fill; it is deleted next.
PollFill ==
  /\ pc = "fill" /\ fill = "filled"
  /\ pc' = "delete" /\ fill' = "taken"
  /\ UNCHANGED <<gates, lm, request, review, outcome>>

FillTimesOut ==
  /\ pc = "fill" /\ End("execution_timeout")
  /\ UNCHANGED <<gates, lm, request, fill, review>>

\* GET or DELETE fails, or the fill lacks a field.
FillRaises ==
  /\ pc \in {"fill", "delete"} /\ End("error")
  /\ UNCHANGED <<gates, lm, request, fill, review>>

\* The key is deleted and the review begins by asking DeepSeek.
BeginReview ==
  /\ pc = "delete"
  /\ pc' = "deepseek" /\ deepseek' = "running"
  /\ UNCHANGED <<gates, lm, request, fill, mistral, exits, unsent, remaining, outcome>>

-----------------------------------------------------------------------------
(* The review.                                                             *)

\* A reviewer answers, its call fails or times out.
DeepSeekEnds ==
  /\ deepseek = "running"
  /\ deepseek' \in Verdicts \cup {"error", "timeout"}
  /\ UNCHANGED <<pc, gates, lm, request, fill, mistral, exits, unsent, remaining, outcome>>

MistralEnds ==
  /\ mistral = "running"
  /\ mistral' \in Verdicts \cup {"error", "timeout"}
  /\ UNCHANGED <<pc, gates, lm, request, fill, deepseek, exits, unsent, remaining, outcome>>

\* _publish_close: a failed PUBLISH is logged and swallowed; it may have been
\* heard all the same.
PublishClose(kind) ==
  \/ exits' = Append(exits, kind) /\ UNCHANGED unsent
  \/ exits' \in {exits, Append(exits, kind)} /\ unsent' = TRUE

\* _apply_verdict: the instruction, then the report.
Instruct(v) == IF v = "HOLD" THEN UNCHANGED <<exits, unsent>> ELSE PublishClose("full")

Apply(v) ==
  /\ Instruct(v) /\ End(v)
  /\ remaining' = IF v = "HOLD" THEN remaining ELSE 0

\* wait_for(shield(deepseek), 30) returns or raises what the task ended with.
DeepSeekReviews ==
  /\ pc = "deepseek" /\ deepseek \in Verdicts
  /\ Apply(deepseek)
  /\ UNCHANGED <<gates, lm, request, fill, deepseek, mistral>>

\* Any exception but a time-out leaves review() and ends the evaluation: the
\* call failed, or the report of its verdict has a confidence that is no number.
DeepSeekRaises ==
  /\ pc = "deepseek" /\ End("error")
  /\ \/ deepseek = "error" /\ UNCHANGED <<exits, unsent>>
     \/ deepseek \in Verdicts /\ Instruct(deepseek)
  /\ UNCHANGED <<gates, lm, request, fill, deepseek, mistral, remaining>>

\* Its own time-out, or T+30: the partial exit is on its way.
PartialTimeout ==
  /\ pc = "deepseek" /\ deepseek \in {"running", "timeout"}
  /\ pc' = "partial"
  /\ UNCHANGED <<gates, lm, request, fill, review, outcome>>

\* Mutant: what could not be sent is not counted as sold.
PartialExit_Whole ==
  /\ pc = "partial" /\ PublishClose("partial")
  /\ remaining' = 100 /\ mistral' = "running" /\ pc' = "both"
  /\ UNCHANGED <<gates, lm, request, fill, deepseek, outcome>>

\* The partial exit is published and Mistral is asked.  A DeepSeek that has
\* ended by now is not waited for any more: its verdict is not read.
PartialExit ==
  /\ pc = "partial" /\ PublishClose("partial")
  /\ remaining' = 50 /\ mistral' = "running" /\ pc' = "both"
  /\ deepseek' = IF deepseek = "running" THEN "running" ELSE "off"
  /\ UNCHANGED <<gates, lm, request, fill, outcome>>

\* task.cancel, unless it has ended.
Cancelled(t) == IF t = "running" THEN "cancelled" ELSE t

\* asyncio.wait returns with a verdict of one of the two: whichever the set of
\* finished tasks yields first.  The other is cancelled if it still runs.
FirstVerdict ==
  /\ pc = "both"
  /\ \E t \in {deepseek, mistral} \cap Verdicts : Apply(t)
  /\ deepseek' = Cancelled(deepseek) /\ mistral' = Cancelled(mistral)
  /\ UNCHANGED <<gates, lm, request, fill>>

\* The report of that verdict raises: the position is closed as after a failure,
\* whether it was to be held or has just been closed.
FirstVerdictRaises ==
  /\ pc = "both" /\ pc' = "close"
  /\ \E t \in {deepseek, mistral} \cap Verdicts : Instruct(t)
  /\ deepseek' = Cancelled(deepseek) /\ mistral' = Cancelled(mistral)
  /\ UNCHANGED <<gates, lm, request, fill, remaining, outcome>>

\* Mutant: when both reviewers fail the position is left to itself.
BothFail_Waits ==
  /\ pc = "both" /\ {deepseek, mistral} \subseteq {"error", "timeout", "off"}
  /\ End("error")
  /\ UNCHANGED <<gates, lm, request, fill, review>>

\* Mutant: the window has no end.
BothFail_Forever ==
  /\ pc = "both" /\ {deepseek, mistral} \cap {"error", "timeout"} # {}
  /\ pc' = "close"
  /\ deepseek' = Cancelled(deepseek) /\ mistral' = Cancelled(mistral)
  /\ UNCHANGED <<gates, lm, request, fill, exits, unsent, remaining, outcome>>

\* The task picked has failed, or T+60: both are cancelled.
BothFail ==
  /\ pc = "both"
  /\ {deepseek, mistral} \cap {"error", "timeout"} # {} \/ "running" \in {deepseek, mistral}
  /\ pc' = "close"
  /\ deepseek' = Cancelled(deepseek) /\ mistral' = Cancelled(mistral)
  /\ UNCHANGED <<gates, lm, request, fill, exits, unsent, remaining, outcome>>

FullExit ==
  /\ pc = "close"
  /\ End("TIMEOUT") /\ PublishClose("full") /\ remaining' = 0
  /\ UNCHANGED <<gates, lm, request, fill, deepseek, mistral>>

\* The process ends.
Restart ==
  /\ pc # "done" /\ End("lost")
  /\ deepseek' = Cancelled(deepseek) /\ mistral' = Cancelled(mistral)
  /\ UNCHANGED <<gates, lm, request, fill, exits, unsent, remaining>>

-----------------------------------------------------------------------------
Orchestrator ==
  \/ EvaluateNext \/ GateRaises \/ EntryDecision \/ RequestExecution \/ RequestFails
  \/ PollFill \/ FillTimesOut \/ FillRaises \/ BeginReview
  \/ DeepSeekReviews \/ DeepSeekRaises \/ PartialTimeout \/ PartialExit
  \/ FirstVerdict \/ FirstVerdictRaises \/ BothFail \/ FullExit

Next == Orchestrator \/ PrometheusFills \/ DeepSeekEnds \/ MistralEnds \/ Restart

\* The waits for models and for PROMETHEUS have time-outs of their own; the calls of
\* Redis (publish, get, delete) end by the socket time-out of its client.
Spec == Init /\ [][Next]_vars /\ WF_vars(Orchestrator)

-----------------------------------------------------------------------------
(* Properties.                                                             *)

\* An execution request is earned by five gates that were open together: each
\* met its minimum score, all pointed one way, and size and leverage are those of
\* the capped total.
EarnedRequest ==
  request # NoRequest =>
    /\ Len(gates) = 5
    /\ \A i \in 1..5 : gates[i].score >= MinScore[i]
    /\ \A i \in 1..5 : gates[i].direction = gates[1].direction
    /\ request.score = FinalScore
    /\ request.score >= 120
    /\ LET tier == IF request.score >= 180 THEN 5 ELSE IF request.score >= 150 THEN 3 ELSE 2
       IN  request.size = tier /\ request.leverage = tier

\* The report adds up: unless a publication failed, what it says remains is what
\* the published exits leave.
ReportAddsUp ==
  outcome \in {"HOLD", "EXIT", "TIMEOUT"} /\ ~unsent =>
    remaining = IF \E i \in 1..Len(exits) : exits[i] = "full" THEN 0
                ELSE IF exits = <<"partial">> THEN 50 ELSE 100

\* Once the partial exit is due, the position is never left to itself: the
\* evaluation ends with a reviewer's HOLD or an instruction to close it,
\* however the reviewers fail, unless the instruction cannot be sent or the
\* process ends.
AfterPartialWatched ==
  (outcome \notin {"none", "HOLD", "lost"} /\ remaining < 100) =>
    unsent \/ \E i \in 1..Len(exits) : exits[i] = "full"

\* Every evaluation ends, whoever never answers.
EvaluationEnds == <>(pc = "done")

\* "DeepSeek R1 primary, Mistral Large fallback, staged timeout exits": when the
\* primary reviewer fails with an error, the fallback is asked or the position is
\* closed (PositionReviewer.review).
FallbackIsAsked ==
  deepseek = "error" /\ pc = "done" /\ outcome # "lost" =>
    mistral # "off" \/ unsent \/ \E i \in 1..Len(exits) : exits[i] = "full"

\* A fill that was picked up ends in a verdict to hold or an attempt to close
\* (evaluate_and_trade, PositionReviewer.review).
FillIsReviewed ==
  fill = "taken" /\ outcome \notin {"none", "HOLD", "lost"} =>
    unsent \/ \E i \in 1..Len(exits) : exits[i] = "full"
=============================================================================
