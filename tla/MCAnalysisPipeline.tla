------------------------ MODULE MCAnalysisPipeline ------------------------
(***************************************************************************)
(* AnalysisPipeline with two analysts of their own categories and unequal  *)
(* shares: the heavy one can carry a trade alone, the light one cannot,    *)
(* and together they exceed the scale, as a regime's multipliers can.      *)
(* The runs look at the second cycle: the first raised before it           *)
(* dispatched anything, or it ended with a trade that is still cached,     *)
(* published and shown.                                                    *)
(***************************************************************************)
EXTENDS AnalysisPipeline

CONSTANTS heavy, light

OwnCategory == [a \in {heavy, light} |-> a]
Shares == [a \in {heavy, light} |-> IF a = heavy THEN 75 ELSE 30]

Heat == {[a \in Agents |-> s] : s \in {"WARMING_UP", "READY"}}

Trade1 == Signal(1, "Strong Buy", 100)

\* The first cycle raised in the context enrichment.
AfterFailure ==
  /\ agentState \in Heat /\ simple \in BOOLEAN
  /\ task = [a \in Agents |-> "none"]
  /\ result = [a \in Agents |-> NoResult]
  /\ status = [a \in Agents |-> [cycle |-> 0, shown |-> "absent"]]
  /\ signal = NoSignal /\ cache = NoSignal /\ latest = NoSignal /\ channel = {}

\* The first cycle traded: every agent answered and every write succeeded.
AfterTrade ==
  /\ agentState = [a \in Agents |-> "READY"] /\ simple = FALSE
  /\ task = [a \in Agents |-> "done"]
  /\ result = [a \in Agents |-> IF a = Risk THEN ZeroResult("scored")
                                 ELSE Result("scored", 1, "bullish")]
  /\ status = [a \in Agents |-> [cycle |-> 1, shown |-> "READY"]]
  /\ signal = Trade1 /\ cache = Trade1 /\ latest = Trade1 /\ channel = {Trade1}

SecondCycle ==
  /\ AfterFailure \/ AfterTrade
  /\ pc = "idle" /\ cycle = 1 /\ report = agentState
  /\ pending = {} /\ todo = {} /\ lost = {} /\ failures = 0

MCSpec == SecondCycle /\ [][Next]_vars /\ Fairness

=============================================================================
