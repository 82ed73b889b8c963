------------------------ MODULE TradePipelineProofs ------------------------
(***************************************************************************)
(* TradePipeline for every set of scores and confidences: a request is     *)
(* earned by five open gates, the report adds up, and a position whose     *)
(* partial exit was due is not left to itself.                             *)
(***************************************************************************)
EXTENDS TradePipeline, SequenceTheorems, TLAPS

\* The gates evaluated so far were open together (_evaluate_gate).
GatesOpen ==
  \A i \in 1..Len(gates) :
    gates[i].score >= MinScore[i] /\ gates[i].direction = gates[1].direction

\* Nothing is asked of PROMETHEUS before five gates and a decision (evaluate).
BeforeRequest ==
  /\ pc = "gates" => Len(gates) < 5
  /\ pc \notin {"gates", "done"} => Len(gates) = 5
  /\ pc = "publish" => lm \in Sides
  /\ pc \in {"gates", "lm", "publish"} => request = NoRequest

Earned == TypeOK /\ GatesOpen /\ BeforeRequest /\ EarnedRequest

Closed == \E i \in 1..Len(exits) : exits[i] = "full"

\* What has been sold when, on the way to the outcome (review).
Selling ==
  /\ pc \in {"gates", "lm", "publish", "fill", "delete", "deepseek", "partial"} =>
       exits = <<>> /\ ~unsent /\ remaining = 100
  /\ pc \in {"both", "close"} => remaining = 50
  /\ pc = "both" => unsent \/ exits = <<"partial">>
  /\ pc = "close" => unsent \/ exits = <<"partial">> \/ Closed
  /\ pc # "done" <=> outcome = "none"

Watched == Selling /\ ReportAddsUp /\ AfterPartialWatched

-----------------------------------------------------------------------------
(* What the gates earn                                                     *)

\* The record that is appended for an open gate is a gate (_evaluate_gate).
LEMMA GateIsTyped ==
  ASSUME NEW n \in 1..5, NEW g \in Found(n) \cup {CacheMiss}, EvaluateGate(n, g)
  PROVE  [score |-> g.score, direction |-> g.direction] \in Gate
<1>1. g.direction # "NEUTRAL"
  BY DEF EvaluateGate
<1>2. g \in Found(n)
  BY <1>1 DEF CacheMiss
<1>3. Scores[n] \subseteq 0..220
  BY TradeAssumption
<1> QED
  BY <1>1, <1>2, <1>3 DEF Found, Gate

\* Five gates that agree earn the bonus, so that the total is one of a request
\* (_calculate_final_score, _determine_size_pct).
LEMMA RequestIsTyped ==
  ASSUME TypeOK, GatesOpen, Len(gates) = 5
  PROVE  /\ FinalScore \in 120..220
         /\ SizePct(FinalScore) \in {2, 3, 5} /\ Leverage(FinalScore) \in {2, 3, 5}
<1>1. \A i \in 1..5 : gates[i] \in Gate
  <2>1. gates \in Seq(Gate)
    BY DEF TypeOK
  <2>2. ASSUME NEW i \in 1..Len(gates) PROVE gates[i] \in Gate
    BY <2>1, <2>2, ElementOfSeq
  <2> QED
    BY <2>2
<1>2. TimeframeBonus = 15
  BY DEF GatesOpen, TimeframeBonus
<1>3. gates[3].score \in 0..220 /\ gates[3].score >= 120
  <2>1. gates[3].score \in 0..220
    BY <1>1 DEF Gate
  <2>2. gates[3].score >= MinScore[3]
    BY DEF GatesOpen
  <2>3. MinScore[3] = 120
    BY DEF MinScore
  <2> QED
    BY <2>1, <2>2, <2>3
<1>4. FinalScore \in 120..220
  BY <1>2, <1>3 DEF FinalScore
<1> QED
  BY <1>4 DEF SizePct, Leverage

\* A gate that opens agrees with the others, and the fifth ends the chain
\* (_run_gate_chain).
LEMMA EvaluateNextEarns == ASSUME Earned, EvaluateNext PROVE Earned'
<1> DEFINE n == Len(gates) + 1
<1>1. gates \in Seq(Gate) /\ n \in 1..5 /\ request = NoRequest
  BY DEF EvaluateNext, Earned, TypeOK, BeforeRequest
<1>2. PICK g \in Found(n) \cup {CacheMiss} :
       IF EvaluateGate(n, g)
       THEN /\ gates' = Append(gates, [score |-> g.score, direction |-> g.direction])
            /\ pc' = IF n = 5 THEN "lm" ELSE "gates"
            /\ UNCHANGED outcome
       ELSE End("gate_fail") /\ UNCHANGED gates
  BY DEF EvaluateNext
<1>3. UNCHANGED <<lm, request, fill, deepseek, mistral, exits, unsent, remaining>>
  BY DEF EvaluateNext, review
<1>4. CASE EvaluateGate(n, g)
  <2> DEFINE r == [score |-> g.score, direction |-> g.direction]
  <2>1. r \in Gate
    BY <1>1, <1>4, GateIsTyped
  <2>2. gates' \in Seq(Gate) /\ Len(gates') = n /\ gates' = Append(gates, r)
    BY <1>1, <1>2, <1>4, <2>1
  <2>3. r.score >= MinScore[n] /\ (n > 1 => r.direction = gates[1].direction)
    BY <1>4 DEF EvaluateGate
  <2>4. GatesOpen'
    <3>1. \A i \in 1..Len(gates) : gates'[i] = gates[i]
      BY <1>1, <2>2
    <3>2. gates'[n] = r
      BY <1>1, <2>2
    <3>3. gates'[1].direction = IF n > 1 THEN gates[1].direction ELSE r.direction
      BY <1>1, <3>1, <3>2
    <3>4. \A i \in 1..n : gates'[i].score >= MinScore[i]
      BY <1>1, <2>3, <3>1, <3>2 DEF Earned, GatesOpen
    <3>5. \A i \in 1..n : gates'[i].direction = gates'[1].direction
      BY <1>1, <2>3, <3>1, <3>2, <3>3 DEF Earned, GatesOpen
    <3> QED
      BY <2>2, <3>4, <3>5 DEF GatesOpen
  <2>5. pc' = (IF n = 5 THEN "lm" ELSE "gates") /\ UNCHANGED outcome
    BY <1>2, <1>4
  <2>6. TypeOK'
    BY <1>1, <1>3, <2>2, <2>5 DEF Earned, TypeOK
  <2>7. BeforeRequest' /\ EarnedRequest'
    BY <1>1, <1>3, <2>2, <2>5 DEF BeforeRequest, EarnedRequest
  <2> QED
    BY <2>4, <2>6, <2>7 DEF Earned
<1>5. CASE ~EvaluateGate(n, g)
  <2>1. End("gate_fail") /\ UNCHANGED gates
    BY <1>2, <1>5
  <2> QED
    BY <1>1, <1>3, <2>1
       DEF Earned, TypeOK, GatesOpen, BeforeRequest, EarnedRequest, End
<1> QED
  BY <1>4, <1>5

\* Whatever leaves the gates, the decision and the request alone keeps what they earned.
LEMMA OthersKeepEarned ==
  ASSUME Earned, UNCHANGED <<gates, request>>, TypeOK',
         pc' # "gates", pc' # "done" => Len(gates) = 5,
         pc' = "publish" => lm' \in Sides,
         pc' \in {"lm", "publish"} => request = NoRequest
  PROVE  Earned'
<1>1. FinalScore' = FinalScore
  BY DEF FinalScore, TimeframeBonus
<1> QED
  BY <1>1 DEF Earned, GatesOpen, BeforeRequest, EarnedRequest

\* The request carries the capped total, the size and the leverage (_publish_request).
LEMMA PublishEarns ==
  ASSUME Earned, pc = "publish", PublishRequest,
         UNCHANGED <<gates, lm, fill, deepseek, mistral, exits, unsent, remaining>>,
         \/ pc' = "fill" /\ UNCHANGED outcome
         \/ End("error")
  PROVE  Earned'
<1>1. Len(gates) = 5 /\ lm \in Sides
  BY DEF Earned, BeforeRequest
<1>2. FinalScore \in 120..220 /\ SizePct(FinalScore) \in {2, 3, 5} /\ Leverage(FinalScore) \in {2, 3, 5}
  BY <1>1, RequestIsTyped DEF Earned
<1>3. FinalScore' = FinalScore
  BY DEF FinalScore, TimeframeBonus
<1>4. request' \in [direction : Sides, score : 120..220, size : {2, 3, 5}, leverage : {2, 3, 5}]
  BY <1>1, <1>2 DEF PublishRequest
<1>5. pc' \in {"fill", "done"} /\ outcome' \in {outcome, "error"}
  BY DEF End
<1>6. TypeOK'
  BY <1>4, <1>5 DEF Earned, TypeOK
<1>7. EarnedRequest'
  BY <1>1, <1>2, <1>3 DEF Earned, GatesOpen, EarnedRequest, PublishRequest, SizePct, Leverage
<1> QED
  BY <1>1, <1>5, <1>6, <1>7 DEF Earned, GatesOpen, BeforeRequest

\* A close instruction keeps the types (_publish_close).
LEMMA CloseIsTyped ==
  ASSUME TypeOK, NEW k \in {"partial", "full"}, PublishClose(k)
  PROVE  exits' \in Seq({"partial", "full"}) /\ unsent' \in BOOLEAN
<1>1. exits \in Seq({"partial", "full"}) /\ unsent \in BOOLEAN
  BY DEF TypeOK
<1>2. Append(exits, k) \in Seq({"partial", "full"})
  BY <1>1
<1>3. exits' \in {exits, Append(exits, k)} /\ unsent' \in {unsent, TRUE}
  BY DEF PublishClose
<1>4. exits' \in Seq({"partial", "full"})
  BY <1>1, <1>2, <1>3
<1> QED
  BY <1>1, <1>3, <1>4, Zenon

\* A verdict's instruction keeps them too (_apply_verdict).
LEMMA InstructIsTyped ==
  ASSUME TypeOK, NEW v \in Verdicts, Instruct(v)
  PROVE  exits' \in Seq({"partial", "full"}) /\ unsent' \in BOOLEAN
<1>1. CASE v = "HOLD"
  BY <1>1 DEF Instruct, TypeOK
<1>2. CASE v # "HOLD"
  BY <1>2, CloseIsTyped DEF Instruct
<1> QED
  BY <1>1, <1>2

\* The review and the waits leave what was earned alone (BracketOrderReviewer).
LEMMA ReviewKeepsEarned ==
  ASSUME Earned, UNCHANGED <<gates, request, lm>>,
         pc \notin {"gates", "lm", "publish"},
         fill' \in {"none", "filled", "taken"},
         pc' \in {"fill", "delete", "deepseek", "partial", "both", "close", "done"},
         deepseek' \in TaskStates, mistral' \in TaskStates,
         exits' \in Seq({"partial", "full"}), unsent' \in BOOLEAN,
         remaining' \in {0, 50, 100},
         outcome' \in {outcome, "execution_timeout", "error", "lost", "HOLD", "EXIT", "TIMEOUT"},
         pc' # "done" => Len(gates) = 5
  PROVE  Earned'
<1>1. TypeOK'
  <2>1. unsent' \in BOOLEAN
    OBVIOUS
  <2>2. /\ gates' \in Seq(Gate) /\ Len(gates') <= 5
        /\ lm' \in {"none", "SKIP"} \cup Sides
        /\ request' \in {NoRequest} \cup
             [direction : Sides, score : 120..220, size : {2, 3, 5}, leverage : {2, 3, 5}]
    BY DEF Earned, TypeOK
  <2>3. outcome' \in {"none", "gate_fail", "lm_skip", "execution_timeout", "error",
                      "lost", "HOLD", "EXIT", "TIMEOUT"}
    BY DEF Earned, TypeOK
  <2>4. pc' \in {"gates", "lm", "publish", "fill", "delete", "deepseek", "partial",
                 "both", "close", "done"}
    OBVIOUS
  <2> QED
    BY <2>1, <2>2, <2>3, <2>4, Zenon DEF TypeOK
<1> QED
  BY <1>1, OthersKeepEarned

\* The types, the gates and what they earn hold throughout.
LEMMA EarnedHolds == Spec => []Earned
<1>1. Init => Earned
  <2> SUFFICES ASSUME Init PROVE Earned
    OBVIOUS
  <2>1. gates = <<>> /\ exits = <<>> /\ unsent = FALSE /\ request = NoRequest
    BY DEF Init
  <2>2. gates \in Seq(Gate) /\ Len(gates) = 0 /\ exits \in Seq({"partial", "full"})
    BY <2>1
  <2>3. TypeOK
    <3>1. unsent \in BOOLEAN
      BY <2>1
    <3>2. Len(gates) <= 5
      BY <2>2
    <3>3. remaining = 100 /\ remaining \in {0, 50, 100}
      BY Zenon DEF Init
    <3> QED
      BY <2>2, <3>1, <3>2, <3>3, Zenon DEF Init, TypeOK, TaskStates
  <2>4. GatesOpen /\ EarnedRequest
    BY <2>1, <2>2 DEF GatesOpen, EarnedRequest
  <2> QED
    BY <2>2, <2>3, <2>4 DEF Init, Earned, BeforeRequest
<1>2. Earned /\ [Next]_vars => Earned'
  <2> SUFFICES ASSUME Earned, [Next]_vars PROVE Earned'
    OBVIOUS
  <2>1. TypeOK /\ BeforeRequest /\ EarnedRequest
    BY DEF Earned
  <2>2. CASE UNCHANGED vars
    BY <2>2 DEF vars, review, Earned, TypeOK, GatesOpen, BeforeRequest, EarnedRequest,
                FinalScore, TimeframeBonus
  <2>3. CASE EvaluateNext
    BY <2>3, EvaluateNextEarns
  <2>4. CASE GateRaises
    <3>1. TypeOK'
      BY <2>1, <2>4 DEF GateRaises, End, review, TypeOK
    <3> QED
      BY <2>4, <3>1, OthersKeepEarned DEF GateRaises, End
  <2>5. CASE EntryDecision
    <3>1. PICK d \in Sides \cup {"SKIP", "none"} :
            /\ lm' = d
            /\ IF d \in Sides THEN pc' = "publish" /\ UNCHANGED outcome ELSE End("lm_skip")
      BY <2>5 DEF EntryDecision
    <3>2. UNCHANGED <<gates, request, fill, deepseek, mistral, exits, unsent, remaining>>
      BY <2>5 DEF EntryDecision, review
    <3>3. Len(gates) = 5 /\ request = NoRequest
      BY <2>1, <2>5 DEF EntryDecision, BeforeRequest
    <3>4. \/ pc' = "publish" /\ lm' \in Sides
          \/ pc' = "done"
      BY <3>1 DEF End
    <3>5. outcome' \in {outcome, "lm_skip"}
      BY <3>1 DEF End
    <3>6. TypeOK'
      BY <2>1, <3>1, <3>2, <3>4, <3>5 DEF TypeOK
    <3> QED
      BY <3>2, <3>3, <3>4, <3>6, OthersKeepEarned
  <2>6. CASE RequestExecution
    BY <2>6, PublishEarns DEF RequestExecution, review
  <2>7. CASE RequestFails
    <3>1. CASE PublishRequest
      BY <2>7, <3>1, PublishEarns DEF RequestFails, review
    <3>2. CASE UNCHANGED request
      <4>1. TypeOK'
        BY <2>1, <2>7, <3>2 DEF RequestFails, End, review, TypeOK
      <4> QED
        BY <2>7, <3>2, <4>1, OthersKeepEarned DEF RequestFails, End
    <3> QED
      BY <2>7, <3>1, <3>2 DEF RequestFails
  <2>8. CASE PrometheusFills
    <3>1. UNCHANGED <<pc, gates, lm, request, deepseek, mistral, exits, unsent, remaining, outcome>>
      BY <2>8 DEF PrometheusFills, review
    <3>2. fill' = "filled"
      BY <2>8 DEF PrometheusFills
    <3> QED
      BY <2>1, <3>1, <3>2 DEF Earned, TypeOK, GatesOpen, BeforeRequest, EarnedRequest,
                        FinalScore, TimeframeBonus
  <2>9. CASE PollFill \/ FillTimesOut \/ FillRaises \/ BeginReview
    <3>1. UNCHANGED <<gates, request, lm, mistral, exits, unsent, remaining>>
      BY <2>9 DEF PollFill, FillTimesOut, FillRaises, BeginReview, review
    <3>2. fill' \in {"none", "filled", "taken"} /\ deepseek' \in TaskStates
      BY <2>1, <2>9 DEF PollFill, FillTimesOut, FillRaises, BeginReview, review, TypeOK, TaskStates
    <3>3. pc \in {"fill", "delete"} /\ pc' \in {"delete", "deepseek", "done"}
      BY <2>9 DEF PollFill, FillTimesOut, FillRaises, BeginReview, End
    <3>4. outcome' \in {outcome, "execution_timeout", "error"}
      BY <2>9 DEF PollFill, FillTimesOut, FillRaises, BeginReview, End
    <3>5. Len(gates) = 5
      BY <2>1, <3>3 DEF BeforeRequest
    <3>6. /\ mistral' \in TaskStates /\ remaining' \in {0, 50, 100}
          /\ exits' \in Seq({"partial", "full"}) /\ unsent' \in BOOLEAN
      BY <2>1, <3>1 DEF TypeOK
    <3> QED
      BY <3>1, <3>2, <3>3, <3>4, <3>5, <3>6, ReviewKeepsEarned
  <2>10. CASE DeepSeekEnds \/ MistralEnds
    <3>1. UNCHANGED <<pc, gates, lm, request, fill, exits, unsent, remaining, outcome>>
      BY <2>10 DEF DeepSeekEnds, MistralEnds
    <3>2. deepseek' \in TaskStates /\ mistral' \in TaskStates
      BY <2>1, <2>10 DEF DeepSeekEnds, MistralEnds, TypeOK, TaskStates
    <3> QED
      BY <2>1, <3>1, <3>2 DEF Earned, TypeOK, GatesOpen, BeforeRequest, EarnedRequest,
                              FinalScore, TimeframeBonus
  <2>11. CASE DeepSeekReviews \/ DeepSeekRaises \/ FirstVerdict \/ FirstVerdictRaises
    <3>2. exits' \in Seq({"partial", "full"}) /\ unsent' \in BOOLEAN
      <4>1. (\E v \in Verdicts : Instruct(v)) \/ UNCHANGED <<exits, unsent>>
        BY <2>11 DEF DeepSeekReviews, DeepSeekRaises, FirstVerdict, FirstVerdictRaises, Apply
      <4>2. CASE UNCHANGED <<exits, unsent>>
        BY <2>1, <4>2 DEF TypeOK
      <4> QED
        BY <2>1, <4>1, <4>2, InstructIsTyped
    <3>3. remaining' \in {0, 50, 100}
      BY <2>1, <2>11 DEF DeepSeekReviews, DeepSeekRaises, FirstVerdict, FirstVerdictRaises, Apply, TypeOK
    <3>4. UNCHANGED <<gates, request, lm, fill>>
      BY <2>11 DEF DeepSeekReviews, DeepSeekRaises, FirstVerdict, FirstVerdictRaises
    <3>5. deepseek' \in TaskStates /\ mistral' \in TaskStates
      BY <2>1, <2>11 DEF DeepSeekReviews, DeepSeekRaises, FirstVerdict, FirstVerdictRaises,
                         Cancelled, TypeOK, TaskStates
    <3>6. pc \in {"deepseek", "both"} /\ pc' \in {"close", "done"}
      BY <2>11 DEF DeepSeekReviews, DeepSeekRaises, FirstVerdict, FirstVerdictRaises, Apply, End
    <3>7. outcome' \in {outcome, "error", "HOLD", "EXIT"}
      BY <2>11 DEF DeepSeekReviews, DeepSeekRaises, FirstVerdict, FirstVerdictRaises, Apply, End, Verdicts
    <3>8. Len(gates) = 5 /\ fill' \in {"none", "filled", "taken"}
      BY <2>1, <3>4, <3>6 DEF BeforeRequest, TypeOK
    <3> QED
      BY <3>2, <3>3, <3>4, <3>5, <3>6, <3>7, <3>8, ReviewKeepsEarned
  <2>12. CASE PartialTimeout \/ PartialExit \/ BothFail \/ FullExit
    <3>1. exits' \in Seq({"partial", "full"}) /\ unsent' \in BOOLEAN
      <4>1. (\E k \in {"partial", "full"} : PublishClose(k)) \/ UNCHANGED <<exits, unsent>>
        BY <2>12 DEF PartialTimeout, PartialExit, BothFail, FullExit, review
      <4>2. CASE UNCHANGED <<exits, unsent>>
        BY <2>1, <4>2 DEF TypeOK
      <4> QED
        BY <2>1, <4>1, <4>2, CloseIsTyped
    <3>2. remaining' \in {0, 50, 100}
      BY <2>1, <2>12 DEF PartialTimeout, PartialExit, BothFail, FullExit, review, TypeOK
    <3>3. UNCHANGED <<gates, request, lm, fill>>
      BY <2>12 DEF PartialTimeout, PartialExit, BothFail, FullExit
    <3>4. deepseek' \in TaskStates /\ mistral' \in TaskStates
      BY <2>1, <2>12 DEF PartialTimeout, PartialExit, BothFail, FullExit, review,
                         Cancelled, TypeOK, TaskStates
    <3>5. /\ pc \in {"deepseek", "partial", "both", "close"}
          /\ pc' \in {"partial", "both", "close", "done"}
      BY <2>12 DEF PartialTimeout, PartialExit, BothFail, FullExit, End
    <3>6. outcome' \in {outcome, "TIMEOUT"}
      BY <2>12 DEF PartialTimeout, PartialExit, BothFail, FullExit, End
    <3>7. Len(gates) = 5 /\ fill' \in {"none", "filled", "taken"}
      BY <2>1, <3>3, <3>5 DEF BeforeRequest, TypeOK
    <3> QED
      BY <3>1, <3>2, <3>3, <3>4, <3>5, <3>6, <3>7, ReviewKeepsEarned
  <2>13. CASE Restart
    <3>1. TypeOK'
      BY <2>1, <2>13 DEF Restart, End, Cancelled, TypeOK, TaskStates
    <3> QED
      BY <2>13, <3>1, OthersKeepEarned DEF Restart, End
  <2> QED
    BY <2>2, <2>3, <2>4, <2>5, <2>6, <2>7, <2>8, <2>9, <2>10, <2>11, <2>12, <2>13
       DEF Next, Orchestrator
<1> QED
  BY <1>1, <1>2, PTL DEF Spec

\* Every variable keeps its type through an evaluation (TradeOrchestrator).
THEOREM TypeCorrect == Spec => []TypeOK
  BY EarnedHolds, PTL DEF Earned

\* No interleaving of fills, answers and failures publishes a request that five
\* agreeing gates have not earned (_run_gate_chain, _publish_request).
THEOREM RequestIsEarned == Spec => []EarnedRequest
  BY EarnedHolds, PTL DEF Earned

-----------------------------------------------------------------------------
(* What is sold and reported                                               *)

\* What has been published stays published (_publish_close).
LEMMA ClosedStays ==
  ASSUME TypeOK, NEW k \in {"partial", "full"}, PublishClose(k)
  PROVE  /\ Closed => Closed'
         /\ k = "full" => unsent' \/ Closed'
         /\ unsent' \/ exits' = Append(exits, k)
         /\ unsent => unsent'
<1>1. exits \in Seq({"partial", "full"}) /\ Len(exits) \in Nat
  BY DEF TypeOK
<1>2. /\ Len(Append(exits, k)) = Len(exits) + 1
      /\ \A i \in 1..Len(exits) : Append(exits, k)[i] = exits[i]
      /\ Append(exits, k)[Len(exits) + 1] = k
  BY <1>1
<1>3. exits' = Append(exits, k) => (Closed => Closed') /\ (k = "full" => Closed')
  BY <1>1, <1>2 DEF Closed
<1>4. exits' = exits => (Closed => Closed')
  BY DEF Closed
<1>5. CASE exits' = Append(exits, k) /\ UNCHANGED unsent
  BY <1>3, <1>5
<1>6. CASE exits' \in {exits, Append(exits, k)} /\ unsent' = TRUE
  BY <1>3, <1>4, <1>6
<1> QED
  BY <1>5, <1>6 DEF PublishClose

\* A verdict's instruction: to hold leaves everything, to exit closes (_apply_verdict).
LEMMA InstructCloses ==
  ASSUME TypeOK, NEW v \in Verdicts, Instruct(v)
  PROVE  \/ v = "HOLD" /\ UNCHANGED <<exits, unsent>>
         \/ v = "EXIT" /\ (unsent' \/ Closed')
<1>1. CASE v = "HOLD"
  BY <1>1 DEF Instruct
<1>2. CASE v = "EXIT"
  <2>1. PublishClose("full")
    BY <1>2 DEF Instruct
  <2> QED
    BY <1>2, <2>1, ClosedStays
<1> QED
  BY <1>1, <1>2 DEF Verdicts

\* Before the first exit is due nothing is sold (evaluate, review).
LEMMA NothingSold ==
  ASSUME Watched, UNCHANGED <<exits, unsent, remaining>>,
         pc \in {"gates", "lm", "publish", "fill", "delete", "deepseek", "partial"},
         \/ /\ pc' \in {"gates", "lm", "publish", "fill", "delete", "deepseek", "partial"}
            /\ UNCHANGED outcome
         \/ pc' = "done" /\ outcome' \in {"gate_fail", "lm_skip", "execution_timeout", "error", "lost"}
  PROVE  Watched'
<1>1. exits = <<>> /\ ~unsent /\ remaining = 100
  BY DEF Watched, Selling
<1> QED
  BY <1>1 DEF Watched, Selling, ReportAddsUp, AfterPartialWatched

\* An evaluation that ends with the position closed, and says so (_apply_verdict, review).
LEMMA EndsClosed ==
  ASSUME pc' = "done", outcome' \in {"EXIT", "TIMEOUT"}, remaining' = 0, unsent' \/ Closed'
  PROVE  Watched'
BY DEF Watched, Selling, ReportAddsUp, AfterPartialWatched, Closed

\* A verdict of one reviewer that is carried out and reported (_apply_verdict).
LEMMA ApplyIsReported ==
  ASSUME TypeOK, Watched, pc \in {"deepseek", "both"}, NEW v \in Verdicts, Apply(v)
  PROVE  Watched'
<1>1. Instruct(v) /\ pc' = "done" /\ outcome' = v
  BY DEF Apply, End
<1>2. CASE v = "HOLD"
  <2>1. UNCHANGED <<exits, unsent, remaining>>
    BY <1>2 DEF Apply, Instruct
  <2>2. \/ unsent
        \/ exits = <<>> /\ remaining = 100
        \/ exits = <<"partial">> /\ remaining = 50
    BY DEF Watched, Selling
  <2>3. CASE unsent
    BY <1>1, <1>2, <2>1, <2>3 DEF Watched, Selling, ReportAddsUp, AfterPartialWatched
  <2>4. CASE exits = <<>> /\ remaining = 100
    <3>1. ~ \E i \in 1..Len(exits) : exits[i] = "full"
      BY <2>4
    <3> QED
      BY <1>1, <1>2, <2>1, <2>4, <3>1 DEF Watched, Selling, ReportAddsUp, AfterPartialWatched
  <2>5. CASE exits = <<"partial">> /\ remaining = 50
    <3>1. ~ \E i \in 1..Len(exits) : exits[i] = "full"
      BY <2>5
    <3> QED
      BY <1>1, <1>2, <2>1, <2>5, <3>1 DEF Watched, Selling, ReportAddsUp, AfterPartialWatched
  <2> QED
    BY <2>2, <2>3, <2>4, <2>5
<1>3. CASE v = "EXIT"
  <2>1. unsent' \/ Closed'
    BY <1>1, <1>3, InstructCloses
  <2>2. remaining' = 0
    BY <1>3 DEF Apply
  <2> QED
    BY <1>1, <1>3, <2>1, <2>2, EndsClosed
<1> QED
  BY <1>2, <1>3 DEF Verdicts

\* The report and the watch hold throughout.
LEMMA WatchedHolds == Spec => []Watched
<1>1. Init => Watched
  BY DEF Init, Watched, Selling, ReportAddsUp, AfterPartialWatched
<1>2. TypeOK /\ Watched /\ [Next]_vars => Watched'
  <2> SUFFICES ASSUME TypeOK, Watched, [Next]_vars PROVE Watched'
    OBVIOUS
  <2>1. CASE UNCHANGED <<pc, exits, unsent, remaining, outcome>>
    BY <2>1 DEF Watched, Selling, ReportAddsUp, AfterPartialWatched, Closed
  <2>2. CASE EvaluateNext \/ GateRaises \/ EntryDecision
    <3>1. UNCHANGED <<exits, unsent, remaining>> /\ pc \in {"gates", "lm"}
      BY <2>2 DEF EvaluateNext, GateRaises, EntryDecision, review
    <3>2. \/ pc' \in {"gates", "lm", "publish"} /\ UNCHANGED outcome
          \/ pc' = "done" /\ outcome' \in {"gate_fail", "lm_skip", "error"}
      BY <2>2 DEF EvaluateNext, GateRaises, EntryDecision, End
    <3> QED
      BY <3>1, <3>2, NothingSold
  <2>3. CASE RequestExecution \/ RequestFails \/ PollFill \/ FillTimesOut \/ FillRaises \/ BeginReview
    <3>1. UNCHANGED <<exits, unsent, remaining>> /\ pc \in {"publish", "fill", "delete"}
      BY <2>3 DEF RequestExecution, RequestFails, PollFill, FillTimesOut, FillRaises,
                  BeginReview, review
    <3>2. \/ pc' \in {"fill", "delete", "deepseek"} /\ UNCHANGED outcome
          \/ pc' = "done" /\ outcome' \in {"error", "execution_timeout"}
      BY <2>3 DEF RequestExecution, RequestFails, PollFill, FillTimesOut, FillRaises,
                  BeginReview, review, End
    <3> QED
      BY <3>1, <3>2, NothingSold
  <2>4. CASE PrometheusFills \/ DeepSeekEnds \/ MistralEnds
    BY <2>1, <2>4 DEF PrometheusFills, DeepSeekEnds, MistralEnds, review
  <2>5. CASE DeepSeekReviews
    <3>1. deepseek \in Verdicts /\ Apply(deepseek) /\ pc = "deepseek"
      BY <2>5 DEF DeepSeekReviews
    <3> QED
      BY <3>1, ApplyIsReported
  <2>6. CASE DeepSeekRaises
    <3>1. pc = "deepseek" /\ pc' = "done" /\ outcome' = "error" /\ UNCHANGED remaining
      BY <2>6 DEF DeepSeekRaises, End
    <3>2. remaining = 100
      BY <3>1 DEF Watched, Selling
    <3> QED
      BY <3>1, <3>2 DEF Watched, Selling, ReportAddsUp, AfterPartialWatched
  <2>7. CASE PartialTimeout
    <3>1. /\ UNCHANGED <<exits, unsent, remaining, outcome>>
          /\ pc = "deepseek" /\ pc' = "partial"
      BY <2>7 DEF PartialTimeout, review
    <3> QED
      BY <3>1, NothingSold
  <2>8. CASE PartialExit
    <3>1. pc = "partial" /\ pc' = "both" /\ remaining' = 50 /\ PublishClose("partial")
          /\ UNCHANGED outcome
      BY <2>8 DEF PartialExit
    <3>2. exits = <<>> /\ outcome = "none"
      BY <3>1 DEF Watched, Selling
    <3>3. unsent' \/ exits' = <<"partial">>
      BY <3>1, <3>2, ClosedStays
    <3> QED
      BY <3>1, <3>2, <3>3 DEF Watched, Selling, ReportAddsUp, AfterPartialWatched
  <2>9. CASE FirstVerdict
    <3>1. pc = "both" /\ \E t \in {deepseek, mistral} \cap Verdicts : Apply(t)
      BY <2>9 DEF FirstVerdict
    <3> QED
      BY <3>1, ApplyIsReported
  <2>10. CASE FirstVerdictRaises
    <3>1. /\ pc = "both" /\ pc' = "close" /\ UNCHANGED <<remaining, outcome>>
          /\ \E t \in {deepseek, mistral} \cap Verdicts : Instruct(t)
      BY <2>10 DEF FirstVerdictRaises
    <3>2. PICK t \in Verdicts : Instruct(t)
      BY <3>1
    <3>3. \/ UNCHANGED <<exits, unsent>>
          \/ unsent' \/ Closed'
      BY <3>2, InstructCloses
    <3>4. remaining = 50 /\ outcome = "none" /\ (unsent \/ exits = <<"partial">>)
      BY <3>1 DEF Watched, Selling
    <3>5. unsent' \/ exits' = <<"partial">> \/ Closed'
      BY <3>3, <3>4
    <3> QED
      BY <3>1, <3>4, <3>5 DEF Watched, Selling, ReportAddsUp, AfterPartialWatched
  <2>11. CASE BothFail
    <3>1. /\ pc = "both" /\ pc' = "close"
          /\ UNCHANGED <<exits, unsent, remaining, outcome>>
      BY <2>11 DEF BothFail
    <3> QED
      BY <3>1 DEF Watched, Selling, ReportAddsUp, AfterPartialWatched, Closed
  <2>12. CASE FullExit
    <3>1. /\ PublishClose("full") /\ remaining' = 0
          /\ pc' = "done" /\ outcome' = "TIMEOUT"
      BY <2>12 DEF FullExit, End
    <3>2. unsent' \/ Closed'
      BY <3>1, ClosedStays
    <3> QED
      BY <3>1, <3>2, EndsClosed
  <2>13. CASE Restart
    <3>1. pc' = "done" /\ outcome' = "lost" /\ UNCHANGED <<exits, unsent, remaining>>
      BY <2>13 DEF Restart, End
    <3> QED
      BY <3>1 DEF Watched, Selling, ReportAddsUp, AfterPartialWatched
  <2> QED
    BY <2>1, <2>2, <2>3, <2>4, <2>5, <2>6, <2>7, <2>8, <2>9, <2>10, <2>11, <2>12, <2>13
       DEF Next, Orchestrator, vars, review
<1> QED
  BY <1>1, <1>2, TypeCorrect, PTL DEF Spec

\* What the report says remains is what the published exits leave, however the
\* reviewers answer, fail or run over their time (ReviewReport, _publish_close).
THEOREM ReportIsRight == Spec => []ReportAddsUp
  BY WatchedHolds, PTL DEF Watched

\* After the partial exit is due an evaluation ends with a HOLD or with an
\* attempt to close, whatever fails (review).
THEOREM PositionIsWatched == Spec => []AfterPartialWatched
  BY WatchedHolds, PTL DEF Watched

-----------------------------------------------------------------------------
(* Every wait can end, and there are few of them                           *)

\* A reviewer that is being asked or has ended: waiting for it ends.
Asked == {"running", "error", "timeout"} \cup Verdicts

\* The coroutine waits for a reviewer only after it has asked it (review).
WaitsForTheAsked ==
  /\ pc = "deepseek" => deepseek \in Asked
  /\ pc = "both" => {deepseek, mistral} \cap Asked # {}

\* A fill that was picked up is left alone, if the evaluation has not lost its
\* process, only before the fallback is asked and with the whole position held.
LeftOnlyEarly ==
  fill = "taken" /\ outcome \notin {"none", "HOLD", "lost"} =>
    \/ unsent
    \/ \E i \in 1..Len(exits) : exits[i] = "full"
    \/ outcome = "error" /\ mistral = "off" /\ remaining = 100

\* Who has been asked, and what was picked up, by when (evaluate, review).
Asking ==
  /\ WaitsForTheAsked
  /\ pc \in {"gates", "lm", "publish", "fill"} => fill # "taken"
  /\ pc \in {"gates", "lm", "publish", "fill", "delete", "deepseek", "partial"} =>
       mistral = "off"
  /\ outcome \in {"gate_fail", "lm_skip", "execution_timeout"} => fill # "taken"
  /\ outcome \in {"EXIT", "TIMEOUT"} => unsent \/ Closed
  /\ outcome = "error" => mistral = "off" /\ remaining = 100

\* A verdict that is carried out ends the evaluation (_apply_verdict).
LEMMA VerdictEnds ==
  ASSUME TypeOK, NEW v \in Verdicts, Apply(v)
  PROVE  /\ pc' = "done" /\ outcome' \in {"HOLD", "EXIT"}
         /\ outcome' = "EXIT" => unsent' \/ Closed'
<1>1. pc' = "done" /\ outcome' = v
  BY DEF Apply, End
<1>0. Instruct(v)
  BY DEF Apply
<1>2. ASSUME v = "EXIT" PROVE unsent' \/ Closed'
  BY <1>0, <1>2, InstructCloses
<1> QED
  BY <1>1, <1>2 DEF Verdicts

LEMMA AskingHolds == Spec => []Asking
<1>1. Init => Asking
  BY DEF Init, Asking, WaitsForTheAsked
<1>2. TypeOK /\ Watched /\ Asking /\ [Next]_vars => Asking'
  <2> SUFFICES ASSUME TypeOK, Watched, Asking, [Next]_vars PROVE Asking'
    OBVIOUS
  <2> USE DEF Asking, WaitsForTheAsked, Asked
  <2>1. CASE UNCHANGED vars
    BY <2>1 DEF vars, review, Closed
  <2>2. CASE EvaluateNext
    <3>1. \/ pc' \in {"lm", "gates"} /\ UNCHANGED outcome
          \/ pc' = "done" /\ outcome' = "gate_fail"
      BY <2>2 DEF EvaluateNext, End
    <3>2. pc = "gates" /\ UNCHANGED <<fill, deepseek, mistral, exits, unsent, remaining>>
      BY <2>2 DEF EvaluateNext, review
    <3> QED
      BY <3>1, <3>2 DEF Closed
  <2>3. CASE GateRaises \/ RequestFails \/ FillRaises
    <3>1. /\ pc \in {"gates", "publish", "fill", "delete"} /\ pc' = "done" /\ outcome' = "error"
          /\ UNCHANGED <<fill, deepseek, mistral, exits, unsent, remaining>>
      BY <2>3 DEF GateRaises, RequestFails, FillRaises, End, review
    <3>2. remaining = 100
      BY <3>1 DEF Watched, Selling
    <3> QED
      BY <3>1, <3>2
  <2>4. CASE EntryDecision \/ RequestExecution \/ FillTimesOut
    <3>1. /\ pc \in {"lm", "publish", "fill"}
          /\ \/ pc' \in {"publish", "fill"} /\ UNCHANGED outcome
             \/ pc' = "done" /\ outcome' \in {"lm_skip", "execution_timeout"}
          /\ UNCHANGED <<fill, deepseek, mistral, exits, unsent, remaining>>
      BY <2>4 DEF EntryDecision, RequestExecution, FillTimesOut, End, review
    <3> QED
      BY <3>1 DEF Closed
  <2>5. CASE PollFill \/ BeginReview
    <3>1. /\ \/ pc' = "delete"
             \/ pc' = "deepseek" /\ deepseek' = "running"
          /\ pc \in {"fill", "delete"}
          /\ UNCHANGED <<mistral, exits, unsent, remaining, outcome>>
      BY <2>5 DEF PollFill, BeginReview, review
    <3>2. outcome = "none"
      BY <3>1 DEF Watched, Selling
    <3> QED
      BY <3>1, <3>2
  <2>6. CASE PrometheusFills \/ DeepSeekEnds \/ MistralEnds
    <3>1. /\ UNCHANGED <<pc, exits, unsent, remaining, outcome>>
          /\ fill' \in {fill, "filled"}
          /\ \/ deepseek' = deepseek
             \/ deepseek = "running" /\ deepseek' \in Verdicts \cup {"error", "timeout"}
          /\ \/ mistral' = mistral
             \/ mistral = "running" /\ mistral' \in Verdicts \cup {"error", "timeout"}
      BY <2>6 DEF PrometheusFills, DeepSeekEnds, MistralEnds, review
    <3> QED
      BY <3>1 DEF Closed
  <2>7. CASE DeepSeekReviews \/ FirstVerdict
    <3>1. \E v \in Verdicts : Apply(v)
      BY <2>7 DEF DeepSeekReviews, FirstVerdict
    <3>2. /\ pc' = "done" /\ outcome' \in {"HOLD", "EXIT"}
          /\ outcome' = "EXIT" => unsent' \/ Closed'
      BY <3>1, VerdictEnds
    <3> QED
      BY <3>2
  <2>8. CASE DeepSeekRaises
    <3>1. pc = "deepseek" /\ pc' = "done" /\ outcome' = "error" /\ UNCHANGED <<mistral, remaining>>
      BY <2>8 DEF DeepSeekRaises, End
    <3>2. remaining = 100
      BY <3>1 DEF Watched, Selling
    <3> QED
      BY <3>1, <3>2
  <2>9. CASE PartialTimeout \/ PartialExit
    <3>1. /\ \/ pc' = "partial" /\ mistral' = mistral
             \/ pc' = "both" /\ mistral' = "running"
          /\ pc \in {"deepseek", "partial"} /\ UNCHANGED outcome
      BY <2>9 DEF PartialTimeout, PartialExit, review
    <3>2. outcome = "none"
      BY <3>1 DEF Watched, Selling
    <3> QED
      BY <3>1, <3>2
  <2>10. CASE FirstVerdictRaises \/ BothFail
    <3>1. pc = "both" /\ pc' = "close" /\ UNCHANGED outcome
      BY <2>10 DEF FirstVerdictRaises, BothFail
    <3>2. outcome = "none"
      BY <3>1 DEF Watched, Selling
    <3> QED
      BY <3>1, <3>2
  <2>11. CASE FullExit
    <3>1. /\ PublishClose("full") /\ pc' = "done" /\ outcome' = "TIMEOUT"
      BY <2>11 DEF FullExit, End
    <3>2. unsent' \/ Closed'
      BY <3>1, ClosedStays
    <3> QED
      BY <3>1, <3>2
  <2>12. CASE Restart
    BY <2>12 DEF Restart, End
  <2> QED
    BY <2>1, <2>2, <2>3, <2>4, <2>5, <2>6, <2>7, <2>8, <2>9, <2>10, <2>11, <2>12
       DEF Next, Orchestrator
<1> QED
  BY <1>1, <1>2, TypeCorrect, WatchedHolds, PTL DEF Spec

\* However the reviewers answer, fail, are cancelled or stay silent, the coroutine
\* never waits for one that was not asked or whose end it has missed (review).
THEOREM EveryWaitCanEnd == Spec => []WaitsForTheAsked
  BY AskingHolds, PTL DEF Asking

\* How far the evaluation has come: thirteen steps lead from the first gate to the
\* audit (evaluate, review).
Stage ==
  IF pc = "gates" THEN Len(gates)
  ELSE IF pc = "lm" THEN 5
  ELSE IF pc = "publish" THEN 6
  ELSE IF pc = "fill" THEN 7
  ELSE IF pc = "delete" THEN 8
  ELSE IF pc = "deepseek" THEN 9
  ELSE IF pc = "partial" THEN 10
  ELSE IF pc = "both" THEN 11
  ELSE IF pc = "close" THEN 12
  ELSE 13

\* The coroutine never returns to a stage it has left, and nobody else takes it
\* back; each reviewer is asked at one stage only, and only the coroutine publishes
\* an instruction, so that thirteen steps at most lead to the audit and no reviewer
\* is asked twice (evaluate, review).
Advances ==
  [][/\ Orchestrator => Stage' > Stage
     /\ Stage \in 0..13 /\ Stage' \in Stage..13
     /\ deepseek # "running" /\ deepseek' = "running" => Stage = 8
     /\ mistral # "running" /\ mistral' = "running" => Stage = 10
     /\ exits' # exits => Stage \in 9..12 /\ Stage' > Stage]_vars

THEOREM EvaluationAdvances == Spec => Advances
<1>1. Earned => Stage \in 0..13
  <2> SUFFICES ASSUME Earned PROVE Stage \in 0..13
    OBVIOUS
  <2>1. pc \in {"gates", "lm", "publish", "fill", "delete", "deepseek", "partial",
                "both", "close", "done"}
    BY DEF Earned, TypeOK
  <2>2. Len(gates) \in 0..13
    <3>1. gates \in Seq(Gate) /\ Len(gates) <= 5
      BY DEF Earned, TypeOK
    <3>2. Len(gates) \in Nat
      BY <3>1, LenProperties
    <3>3. \A n \in Nat : n <= 5 => n \in 0..13
      OBVIOUS
    <3> QED
      BY <3>1, <3>2, <3>3, Zenon
  <2> QED
    BY <2>1, <2>2 DEF Stage
<1>2. /\ Earned /\ Stage \in 0..13
      /\ Earned' /\ (Stage \in 0..13)'
      /\ [Next]_vars
      => [/\ Orchestrator => Stage' > Stage
          /\ Stage \in 0..13 /\ Stage' \in Stage..13
          /\ deepseek # "running" /\ deepseek' = "running" => Stage = 8
          /\ mistral # "running" /\ mistral' = "running" => Stage = 10
          /\ exits' # exits => Stage \in 9..12 /\ Stage' > Stage]_vars
  <2> SUFFICES ASSUME Earned, Stage \in 0..13, Earned', Stage' \in 0..13, Next
               PROVE  /\ Orchestrator => Stage' > Stage
                      /\ Stage' >= Stage
                      /\ deepseek # "running" /\ deepseek' = "running" => Stage = 8
                      /\ mistral # "running" /\ mistral' = "running" => Stage = 10
                      /\ exits' # exits => Stage \in 9..12 /\ Stage' > Stage
    OBVIOUS
  <2>0. Stage \in 0..13 /\ Stage' \in 0..13
    OBVIOUS
  <2>1. EvaluateNext => Stage' > Stage
    <3> SUFFICES ASSUME EvaluateNext PROVE Stage' > Stage
      OBVIOUS
    <3>1. /\ gates \in Seq(Gate) /\ gates' \in Seq(Gate) /\ Len(gates) <= 5 /\ Len(gates') <= 5
      BY DEF Earned, TypeOK
    <3>2. pc = "gates" /\ Stage = Len(gates)
      BY DEF EvaluateNext, Stage
    <3>3. pc = "gates" => Len(gates) < 5
      BY DEF Earned, BeforeRequest
    <3>4. CASE pc' = "done"
      <4>1. Stage' = 13
        BY <3>4 DEF Stage
      <4> QED
        BY <3>1, <3>2, <4>1
    <3>5. CASE /\ \E g : gates' = Append(gates, g)
               /\ pc' = IF Len(gates) + 1 = 5 THEN "lm" ELSE "gates"
      <4>1. Len(gates') = Len(gates) + 1
        BY <3>1, <3>5
      <4>3. Stage' = Len(gates')
        BY <3>5, <4>1 DEF Stage
      <4> QED
        BY <3>1, <3>2, <4>1, <4>3
    <3> QED
      <4>1. \/ pc' = "done"
            \/ /\ \E g : gates' = Append(gates, g)
               /\ pc' = IF Len(gates) + 1 = 5 THEN "lm" ELSE "gates"
        <5>1. PICK h \in Found(Len(gates) + 1) \cup {CacheMiss} :
                IF EvaluateGate(Len(gates) + 1, h)
                THEN /\ gates' = Append(gates, [score |-> h.score, direction |-> h.direction])
                     /\ pc' = IF Len(gates) + 1 = 5 THEN "lm" ELSE "gates"
                     /\ UNCHANGED outcome
                ELSE End("gate_fail") /\ UNCHANGED gates
          BY DEF EvaluateNext
        <5> QED
          BY <5>1 DEF End
      <4> QED
        BY <4>1, <3>4, <3>5
  <2>2. Orchestrator /\ ~EvaluateNext => Stage' > Stage
    <3> SUFFICES ASSUME Orchestrator, ~EvaluateNext PROVE Stage' > Stage
      OBVIOUS
    <3>1. \/ pc = "gates" /\ pc' = "done"
          \/ pc = "lm" /\ pc' \in {"publish", "done"}
          \/ pc = "publish" /\ pc' \in {"fill", "done"}
          \/ pc = "fill" /\ pc' \in {"delete", "done"}
          \/ pc = "delete" /\ pc' \in {"deepseek", "done"}
          \/ pc = "deepseek" /\ pc' \in {"partial", "done"}
          \/ pc = "partial" /\ pc' = "both"
          \/ pc = "both" /\ pc' \in {"close", "done"}
          \/ pc = "close" /\ pc' = "done"
      BY DEF Orchestrator, GateRaises, EntryDecision, RequestExecution, RequestFails,
             PollFill, FillTimesOut, FillRaises, BeginReview, DeepSeekReviews,
             DeepSeekRaises, PartialTimeout, PartialExit, FirstVerdict,
             FirstVerdictRaises, BothFail, FullExit, Apply, End
    <3>2. pc = "gates" => Stage <= 5
      <4>1. gates \in Seq(Gate) /\ Len(gates) <= 5
        BY DEF Earned, TypeOK
      <4> QED
        BY <4>1 DEF Stage
    <3>3. CASE pc = "gates"
      <4>1. Stage' = 13
        BY <3>1, <3>3 DEF Stage
      <4> QED
        BY <2>0, <3>2, <3>3, <4>1
    <3> QED
      BY <3>1, <3>3 DEF Stage
  <2>3. Orchestrator => Stage' > Stage
    BY <2>1, <2>2
  <2>4. PrometheusFills \/ DeepSeekEnds \/ MistralEnds => Stage' = Stage
    <3>1. PrometheusFills \/ DeepSeekEnds \/ MistralEnds => UNCHANGED <<pc, gates>>
      BY DEF PrometheusFills, DeepSeekEnds, MistralEnds
    <3> QED
      BY <3>1 DEF Stage
  <2>5. Restart => Stage' = 13
    BY DEF Restart, End, Stage
  <2>6. deepseek # "running" /\ deepseek' = "running" => Stage = 8
    <3>1. deepseek # "running" /\ deepseek' = "running" => pc = "delete"
      BY DEF Next, Orchestrator, EvaluateNext, GateRaises, EntryDecision, RequestExecution,
             RequestFails, PollFill, FillTimesOut, FillRaises, BeginReview, DeepSeekReviews,
             DeepSeekRaises, PartialTimeout, PartialExit, FirstVerdict, FirstVerdictRaises,
             BothFail, FullExit, PrometheusFills, DeepSeekEnds, MistralEnds, Restart, Cancelled,
             Verdicts, review
    <3> QED
      BY <3>1 DEF Stage
  <2>7. mistral # "running" /\ mistral' = "running" => Stage = 10
    <3>1. mistral # "running" /\ mistral' = "running" => pc = "partial"
      BY DEF Next, Orchestrator, EvaluateNext, GateRaises, EntryDecision, RequestExecution,
             RequestFails, PollFill, FillTimesOut, FillRaises, BeginReview, DeepSeekReviews,
             DeepSeekRaises, PartialTimeout, PartialExit, FirstVerdict, FirstVerdictRaises,
             BothFail, FullExit, PrometheusFills, DeepSeekEnds, MistralEnds, Restart, Cancelled,
             Verdicts, review
    <3> QED
      BY <3>1 DEF Stage
  <2>8. exits' # exits => Stage \in 9..12 /\ Stage' > Stage
    <3>1. exits' # exits => pc \in {"deepseek", "partial", "both", "close"} /\ Orchestrator
      BY DEF Next, Orchestrator, EvaluateNext, GateRaises, EntryDecision, RequestExecution,
             RequestFails, PollFill, FillTimesOut, FillRaises, BeginReview, DeepSeekReviews,
             DeepSeekRaises, PartialTimeout, PartialExit, FirstVerdict, FirstVerdictRaises,
             BothFail, FullExit, PrometheusFills, DeepSeekEnds, MistralEnds, Restart, review
    <3> QED
      BY <2>3, <3>1 DEF Stage
  <2> QED
    BY <2>0, <2>3, <2>4, <2>5, <2>6, <2>7, <2>8 DEF Next
<1> QED
  BY <1>1, <1>2, EarnedHolds, PTL DEF Spec, Advances

\* The instructions a review publishes: the partial exit at most once and before
\* any other, and the full exit at most twice.  It is published twice only when the
\* report of a verdict to exit raises: the position is then closed again.
ExitsInTurn ==
  exits \in {<<>>, <<"partial">>, <<"full">>, <<"partial", "full">>,
            <<"full", "full">>, <<"partial", "full", "full">>}

\* How many instructions there can be by when (review).
Instructed ==
  /\ ExitsInTurn
  /\ pc \in {"gates", "lm", "publish", "fill", "delete", "deepseek", "partial"} => exits = <<>>
  /\ pc = "both" => exits \in {<<>>, <<"partial">>}
  /\ pc = "close" => exits \in {<<>>, <<"partial">>, <<"full">>, <<"partial", "full">>}

\* The full exit comes behind what has been published (_publish_close).
LEMMA FullComesLast ==
  /\ Append(<<>>, "full") = <<"full">>
  /\ Append(<<"partial">>, "full") = <<"partial", "full">>
  /\ Append(<<"full">>, "full") = <<"full", "full">>
  /\ Append(<<"partial", "full">>, "full") = <<"partial", "full", "full">>
<1> DEFINE S == {"partial", "full"}
<1>1. ASSUME NEW s \in Seq(S), NEW t \in Seq(S), Len(t) = Len(s) + 1,
             \A i \in 1..Len(s) : t[i] = s[i], t[Len(s) + 1] = "full"
      PROVE  Append(s, "full") = t
  <2>1. Append(s, "full") \in Seq(S) /\ Len(Append(s, "full")) = Len(t)
    BY <1>1
  <2>2. \A i \in 1..Len(t) : Append(s, "full")[i] = t[i]
    BY <1>1
  <2> QED
    BY <2>1, <2>2, SeqEqual
<1>2. ASSUME NEW x \in S PROVE Append(<<x>>, "full") = <<x, "full">>
  <2> DEFINE s == <<x>>  t == <<x, "full">>
  <2>1. /\ s \in Seq(S) /\ t \in Seq(S) /\ Len(s) = 1 /\ Len(t) = 2
        /\ s[1] = x /\ t[1] = x /\ t[2] = "full"
    OBVIOUS
  <2>2. Len(t) = Len(s) + 1 /\ t[Len(s) + 1] = "full" /\ \A i \in 1..Len(s) : t[i] = s[i]
    BY <2>1
  <2> HIDE DEF s, t, S
  <2>3. Append(s, "full") = t
    BY <1>1, <2>1, <2>2
  <2> QED
    BY <2>3 DEF s, t
<1>3. Append(<<"partial", "full">>, "full") = <<"partial", "full", "full">>
  <2> DEFINE s == <<"partial", "full">>  t == <<"partial", "full", "full">>
  <2>1. /\ s \in Seq(S) /\ t \in Seq(S) /\ Len(s) = 2 /\ Len(t) = 3
        /\ s[1] = t[1] /\ s[2] = t[2] /\ t[3] = "full"
    OBVIOUS
  <2>2. Len(t) = Len(s) + 1 /\ t[Len(s) + 1] = "full" /\ \A i \in 1..Len(s) : t[i] = s[i]
    BY <2>1
  <2> HIDE DEF s, t, S
  <2>3. Append(s, "full") = t
    BY <1>1, <2>1, <2>2
  <2> QED
    BY <2>3 DEF s, t
<1> QED
  BY <1>2, <1>3

\* However publications fail and reports raise, nothing is sold out of turn
\* (_publish_close, _apply_verdict, review).
THEOREM ExitsComeInTurn == Spec => []ExitsInTurn
<1>1. Init => Instructed
  BY DEF Init, Instructed, ExitsInTurn
<1>2. Instructed /\ [Next]_vars => Instructed'
  <2> SUFFICES ASSUME Instructed, [Next]_vars PROVE Instructed'
    OBVIOUS
  <2> USE DEF Instructed, ExitsInTurn
  <2>1. CASE UNCHANGED vars
    BY <2>1 DEF vars, review
  <2>2. CASE UNCHANGED exits /\ (UNCHANGED pc \/ pc' = "done")
    BY <2>2
  <2>3. CASE EvaluateNext \/ EntryDecision \/ RequestExecution \/ PollFill \/ BeginReview
             \/ PartialTimeout
    <3>1. /\ pc \in {"gates", "lm", "publish", "fill", "delete", "deepseek"}
          /\ pc' \in {"gates", "lm", "publish", "fill", "delete", "deepseek", "partial", "done"}
          /\ UNCHANGED exits
      BY <2>3 DEF EvaluateNext, EntryDecision, RequestExecution, PollFill, BeginReview,
                  PartialTimeout, End, review
    <3> QED
      BY <3>1
  <2>4. CASE GateRaises \/ RequestFails \/ FillTimesOut \/ FillRaises \/ Restart
             \/ PrometheusFills \/ DeepSeekEnds \/ MistralEnds
    BY <2>2, <2>4 DEF GateRaises, RequestFails, FillTimesOut, FillRaises, Restart,
                      PrometheusFills, DeepSeekEnds, MistralEnds, End, review
  <2>5. CASE DeepSeekReviews \/ DeepSeekRaises \/ FirstVerdict \/ FirstVerdictRaises
    <3>1. /\ pc \in {"deepseek", "both"} /\ pc' \in {"close", "done"}
          /\ pc' = "close" => pc = "both"
          /\ exits' \in {exits, Append(exits, "full")}
      BY <2>5 DEF DeepSeekReviews, DeepSeekRaises, FirstVerdict, FirstVerdictRaises, Apply,
                  Instruct, PublishClose, End
    <3>2. exits \in {<<>>, <<"partial">>}
      BY <3>1
    <3>3. exits' \in {<<>>, <<"partial">>, <<"full">>, <<"partial", "full">>}
      BY <3>1, <3>2, FullComesLast
    <3> QED
      BY <3>1, <3>3
  <2>6. CASE PartialExit
    <3>1. exits = <<>> /\ pc' = "both" /\ exits' \in {exits, Append(exits, "partial")}
      BY <2>6 DEF PartialExit, PublishClose
    <3>2. exits' \in {<<>>, <<"partial">>}
      BY <3>1
    <3> QED
      BY <3>1, <3>2
  <2>7. CASE BothFail
    BY <2>7 DEF BothFail
  <2>8. CASE FullExit
    <3>1. /\ exits \in {<<>>, <<"partial">>, <<"full">>, <<"partial", "full">>}
          /\ pc' = "done" /\ exits' \in {exits, Append(exits, "full")}
      BY <2>8 DEF FullExit, PublishClose, End
    <3>2. ExitsInTurn'
      BY <3>1, FullComesLast
    <3> QED
      BY <3>1, <3>2
  <2> QED
    BY <2>1, <2>3, <2>4, <2>5, <2>6, <2>7, <2>8 DEF Next, Orchestrator
<1>3. Instructed => ExitsInTurn
  BY DEF Instructed
<1> QED
  BY <1>1, <1>2, <1>3, PTL DEF Spec

\* FillIsReviewed fails in one place only: a fill that was picked up is left without
\* a verdict to hold and without an instruction to close only by an error before the
\* fallback is asked, of the DELETE, the decoding of the fill, the first reviewer or
\* the report of its verdict, and then nothing has been sold (review).
THEOREM OnlyEarlyFailuresLeaveAFill == Spec => []LeftOnlyEarly
<1>1. TypeOK /\ Asking => LeftOnlyEarly
  BY DEF Asking, LeftOnlyEarly, TypeOK, Closed
<1> QED
  BY <1>1, AskingHolds, TypeCorrect, PTL

=============================================================================
