-------------------------- MODULE AnalysisPipeline --------------------------
(***************************************************************************)
(* One asset's analysis cycles: PipelineOrchestrator.run fans the agents   *)
(* out as asyncio tasks, waits for them one batch at a time, lets a risk   *)
(* veto cancel what is left, checks quorum, scores, gates the score and    *)
(* hands the signal to the runner, which caches and publishes it.  The     *)
(* atomic steps are the stretches between two awaits.                      *)
(***************************************************************************)
EXTENDS Integers, FiniteSets, FiniteSetsExt

CONSTANTS
  Analysts,            \* the scoring agents
  Risk,                \* the veto-only agent
  Category,            \* Analysts -> category of each
  Share,               \* Analysts -> what a full score of it adds, in points of 100
  MinCategories,       \* QUORUM_MIN_CATEGORIES
  MinTradeScore,       \* settings.min_trade_score, on the 0..100 scale
  Markers,             \* agents on which mark_degraded/mark_failed may be called
  MaxCycles,           \* bound: cycles started
  MaxWriteFailures     \* bound: Redis writes that fail

Agents == Analysts \cup {Risk}

ASSUME PipelineAssumption ==
  /\ IsFiniteSet(Analysts) /\ Analysts # {} /\ Risk \notin Analysts
  /\ Markers \subseteq Agents
  /\ Share \in [Analysts -> Nat]
  /\ MinCategories \in Nat \ {0}
  /\ MinTradeScore \in 1..100
  /\ MaxCycles \in Nat /\ MaxWriteFailures \in Nat

VARIABLES
  agentState,   \* BaseAgent._state
  simple,       \* settings.simple_pipeline_mode
  pc,           \* where the runner's coroutine is
  cycle,        \* number of the cycle
  task,         \* agent -> its asyncio task
  result,       \* agent -> its AgentResult of this cycle
  pending,      \* pending_tasks of _execute_all_concurrently
  todo,         \* agents whose status the coroutine has still to write
  report,       \* agent -> the health its task is about to write
  status,       \* Redis agent:{name}:status, with the cycle that wrote it
  signal,       \* the SignalOutput of the cycle
  cache,        \* Redis polaris:signals:{asset}
  latest,       \* Redis polaris:latest_signal
  channel,      \* the signals PUBLISHed
  failures,     \* Redis writes that failed
  lost          \* agents whose status write failed in this cycle

tasks == <<task, result, report>>
redis == <<status, cache, latest, channel, failures, lost>>

vars == <<agentState, simple, pc, cycle, tasks, pending, todo, signal, redis>>

-----------------------------------------------------------------------------
(* Agent results.  A score is full (1) or empty (0) relative to max_score. *)

Votes == {"bullish", "bearish", "neutral"}

Result(kind, points, vote) == [kind |-> kind, points |-> points, vote |-> vote]
ZeroResult(kind) == Result(kind, 0, "neutral")
NoResult == ZeroResult("none")

Answers == {Result("scored", 1, "bullish"), Result("scored", 1, "bearish"),
            ZeroResult("scored")}

\* The risk agent vetoes when an evaluator sees a drawdown or a tier-4 cascade.
RiskAnswers == {ZeroResult("scored"), ZeroResult("veto")}

Results == [kind : {"none", "scored", "veto", "warmup", "failed", "timeout", "exception"},
            points : 0..1, vote : Votes]

\* A signal: the fields the gates and the subscribers look at.
Signal(c, d, s) == [cycle |-> c, decision |-> d, score |-> s]
NoSignal == Signal(0, "No Position", 0)

Trades == {"Strong Buy", "Buy", "Sell", "Strong Sell"}
Decisions == Trades \cup {"Hold", "No Position"}

-----------------------------------------------------------------------------
(* The scorer, the decision mapper and the gates.                          *)

\* The 220-point total, scaled to 0..100: each analyst brings its share or none.
Points(S) == MapThenSumSet(LAMBDA a : Share[a], S)

\* Mutant: the total is not capped.
Score_Uncapped(r) == Points({a \in Analysts : r[a].points = 1})

\* The regime's multipliers can lift the total over the budget: it is capped.
Score(r) ==
  LET total == Points({a \in Analysts : r[a].points = 1})
  IN  IF total >= 100 THEN 100 ELSE total

CountDirection(r, v) == Cardinality({a \in Analysts : r[a].vote = v})

\* Mutant: a tie counts as bullish.
DetermineDirection_Ties(r) ==
  IF CountDirection(r, "bullish") >= CountDirection(r, "bearish") THEN "bullish" ELSE "bearish"

DetermineDirection(r) ==
  IF CountDirection(r, "bullish") > CountDirection(r, "bearish") THEN "bullish"
  ELSE IF CountDirection(r, "bearish") > CountDirection(r, "bullish") THEN "bearish"
  ELSE "neutral"

CalculateDecision(s, dir) ==
  IF s < 40 THEN "No Position"
  ELSE IF s < 60 \/ dir = "neutral" THEN "Hold"
  ELSE IF dir = "bullish" THEN (IF s >= 80 THEN "Strong Buy" ELSE "Buy")
  ELSE (IF s >= 80 THEN "Strong Sell" ELSE "Sell")

\* The agents that are not counted: warming up, timed out or raised.
CheckQuorum(r) ==
  Cardinality({Category[a] : a \in {b \in Analysts :
      r[b].kind \notin {"warmup", "timeout", "exception"}}}) >= MinCategories

\* PipelineConfidenceCalculator with the inputs the orchestrator passes, in
\* thousandths: only the coverage varies.
Confidence(r) ==
  495 + (250 * Cardinality({a \in Analysts : r[a].points = 1}))
        \div (Cardinality(Analysts) + 1)

ConfidenceSkips(r) == Confidence(r) < 400

FinalDecision(r) ==
  IF ~CheckQuorum(r) THEN "No Position"
  ELSE IF Score(r) < MinTradeScore \/ ConfidenceSkips(r) THEN "No Position"
  ELSE CalculateDecision(Score(r), DetermineDirection(r))

FinalScore(r) == IF CheckQuorum(r) THEN Score(r) ELSE 0

DeriveHealth(st, r) ==
  IF st = "WARMING_UP" \/ r.kind = "warmup" THEN "WARMING_UP"
  ELSE IF st = "FAILED" THEN "FAILED"
  ELSE IF r.kind = "timeout" THEN "DEGRADED"
  ELSE IF r.kind = "exception" THEN "FAILED"
  ELSE IF st = "DEGRADED" THEN "DEGRADED"
  ELSE "READY"

-----------------------------------------------------------------------------
TypeOK ==
  /\ agentState \in [Agents -> {"WARMING_UP", "READY", "DEGRADED", "FAILED"}]
  /\ simple \in BOOLEAN
  /\ pc \in {"idle", "waiting", "placeholders", "stubs", "finalize", "cache", "publish"}
  /\ cycle \in 0..MaxCycles
  /\ task \in [Agents -> {"none", "scoring", "writing", "done", "cancelled"}]
  /\ result \in [Agents -> Results]
  /\ report \in [Agents -> {"WARMING_UP", "READY", "DEGRADED", "FAILED"}]
  /\ pending \subseteq Agents /\ todo \subseteq Agents /\ lost \subseteq Agents
  /\ status \in [Agents -> [cycle : 0..MaxCycles,
        shown : {"absent", "WARMING_UP", "READY", "DEGRADED", "FAILED", "SKIPPED"}]]
  /\ {signal, cache, latest} \cup channel
       \subseteq [cycle : 0..MaxCycles, decision : Decisions, score : 0..100]
  /\ failures \in 0..MaxWriteFailures

\* The runner primes its agents; any other caller may start with cold ones.
Init ==
  /\ agentState \in {[a \in Agents |-> s] : s \in {"WARMING_UP", "READY"}}
  /\ simple \in BOOLEAN
  /\ pc = "idle" /\ cycle = 0
  /\ task = [a \in Agents |-> "none"]
  /\ result = [a \in Agents |-> NoResult]
  /\ report = agentState
  /\ pending = {} /\ todo = {} /\ lost = {}
  /\ status = [a \in Agents |-> [cycle |-> 0, shown |-> "absent"]]
  /\ signal = NoSignal /\ cache = NoSignal /\ latest = NoSignal /\ channel = {}
  /\ failures = 0

-----------------------------------------------------------------------------
(* BaseAgent's health calls, which an agent's own code makes while it      *)
(* scores; RecordSample is also the runner's priming loop.                 *)

SetState(a, s) ==
  /\ agentState' = [agentState EXCEPT ![a] = s]
  /\ UNCHANGED <<simple, pc, cycle, tasks, pending, todo, signal, redis>>

RecordSample(a) == agentState[a] = "WARMING_UP" /\ SetState(a, "READY")
MarkDegraded(a) == agentState[a] # "DEGRADED" /\ SetState(a, "DEGRADED")
MarkFailed(a) == agentState[a] # "FAILED" /\ SetState(a, "FAILED")
MarkRecovered(a) == agentState[a] = "DEGRADED" /\ SetState(a, "READY")

-----------------------------------------------------------------------------
(* The agent tasks.                                                        *)

\* What a task does before its first await: a cold or failed agent is skipped.
Skipped(a) == agentState[a] \in {"WARMING_UP", "FAILED"}

SkipResult(a) == ZeroResult(IF agentState[a] = "FAILED" THEN "failed" ELSE "warmup")

\* The tasks the cycle creates: all agents, or the risk agent alone.
Dispatched == IF simple THEN {Risk} ELSE Agents

StartCycle ==
  /\ pc = "idle" /\ cycle < MaxCycles
  /\ pc' = "waiting" /\ cycle' = cycle + 1
  /\ task' = [a \in Agents |-> IF a \notin Dispatched THEN "none"
                               ELSE IF Skipped(a) THEN "writing" ELSE "scoring"]
  /\ result' = [a \in Agents |-> IF a \in Dispatched /\ Skipped(a)
                                 THEN SkipResult(a) ELSE NoResult]
  /\ report' = [a \in Agents |-> DeriveHealth(agentState[a], result'[a])]
  /\ pending' = Dispatched
  /\ lost' = {} /\ signal' = NoSignal
  /\ UNCHANGED <<agentState, simple, todo, status, cache, latest, channel, failures>>

\* Context enrichment raises before any agent is dispatched.
ContextFails ==
  /\ pc = "idle" /\ cycle < MaxCycles
  /\ cycle' = cycle + 1
  /\ task' = [a \in Agents |-> "none"]
  /\ result' = [a \in Agents |-> NoResult]
  /\ lost' = {} /\ signal' = NoSignal
  /\ UNCHANGED <<agentState, simple, pc, report, pending, todo, status,
                 cache, latest, channel, failures>>

TaskEnds(a, r) ==
  /\ task[a] = "scoring"
  /\ task' = [task EXCEPT ![a] = "writing"]
  /\ result' = [result EXCEPT ![a] = r]
  /\ report' = [report EXCEPT ![a] = DeriveHealth(agentState[a], r)]
  /\ UNCHANGED <<agentState, simple, pc, cycle, pending, todo, signal, redis>>

\* An analyst or the risk agent answers within its budget.
Answer(a) ==
  IF a = Risk THEN \E r \in RiskAnswers : TaskEnds(a, r)
  ELSE \E r \in Answers : TaskEnds(a, r)

\* A read the agent needs fails: _safe_score turns it into a zero result.
Raise(a) == TaskEnds(a, ZeroResult("exception"))

\* Mutant: scoring is not bounded.
TimeOut_Never(a) == FALSE

TimeOut(a) == TaskEnds(a, ZeroResult("timeout"))

\* A SETEX of a's status: it succeeds, or its failure is logged and forgotten.
SetStatus(a, shown) ==
  /\ \/ /\ status' = [status EXCEPT ![a] = [cycle |-> cycle, shown |-> shown]]
        /\ UNCHANGED <<failures, lost>>
     \/ /\ failures < MaxWriteFailures
        /\ failures' = failures + 1 /\ lost' = lost \cup {a}
        /\ UNCHANGED status
  /\ UNCHANGED <<agentState, simple, cycle, result, report, pending,
                 signal, cache, latest, channel>>

WriteStatus(a) ==
  /\ task[a] = "writing"
  /\ task' = [task EXCEPT ![a] = "done"]
  /\ SetStatus(a, report[a])
  /\ UNCHANGED <<pc, todo>>

-----------------------------------------------------------------------------
(* The orchestrator's coroutine.                                           *)

Batch == {a \in pending : task[a] = "done"}

\* Mutant: the cancelled agents get no placeholder.
CollectVeto_Silent ==
  /\ pc = "waiting" /\ Risk \in Batch /\ result[Risk].kind = "veto"
  /\ task' = [a \in Agents |-> IF a \in pending \ Batch THEN "cancelled" ELSE task[a]]
  /\ todo' = {} /\ pending' = {}
  /\ pc' = "placeholders"
  /\ UNCHANGED <<agentState, simple, cycle, result, report, signal, redis>>

\* asyncio.wait(..., FIRST_COMPLETED) returns and the batch holds a veto: the
\* tasks still pending are cancelled before the coroutine awaits again.  The
\* SETEX of a task cancelled while it writes may have reached Redis.
CollectVeto ==
  /\ pc = "waiting" /\ Risk \in Batch /\ result[Risk].kind = "veto"
  /\ \E landed \in SUBSET {a \in pending : task[a] = "writing"} :
       status' = [a \in Agents |-> IF a \in landed
                    THEN [cycle |-> cycle, shown |-> report[a]] ELSE status[a]]
  /\ task' = [a \in Agents |-> IF a \in pending \ Batch THEN "cancelled" ELSE task[a]]
  /\ todo' = pending \ Batch
  /\ pending' = {}
  /\ pc' = "placeholders"
  /\ UNCHANGED <<agentState, simple, cycle, result, report, signal, cache, latest,
                 channel, failures, lost>>

\* Mutant: a veto that comes with other results is collected like them.
Collect_All ==
  /\ pc = "waiting" /\ Batch # {}
  /\ pending' = pending \ Batch
  /\ pc' = IF pending' # {} THEN "waiting" ELSE IF simple THEN "stubs" ELSE "finalize"
  /\ UNCHANGED <<agentState, simple, cycle, tasks, todo, signal, redis>>

Collect ==
  /\ pc = "waiting" /\ Batch # {}
  /\ ~(Risk \in Batch /\ result[Risk].kind = "veto")
  /\ pending' = pending \ Batch
  /\ pc' = IF pending' # {} THEN "waiting" ELSE IF simple THEN "stubs" ELSE "finalize"
  /\ UNCHANGED <<agentState, simple, cycle, tasks, todo, signal, redis>>

Placeholder(a) ==
  /\ pc = "placeholders" /\ a \in todo
  /\ todo' = todo \ {a}
  /\ SetStatus(a, "SKIPPED")
  /\ UNCHANGED <<pc, task>>

\* The cycle's outcome, on its way to _persist_outputs.
Conclude(decision, score) ==
  /\ signal' = Signal(cycle, decision, score)
  /\ pc' = "cache"
  /\ UNCHANGED <<agentState, simple, cycle, tasks, pending, todo, redis>>

\* Mutant: whatever has answered is synthesised.
EndVeto_Scores ==
  pc = "placeholders" /\ todo = {} /\ Conclude(FinalDecision(result), FinalScore(result))

\* _handle_veto: the risk result alone is synthesised, so the score is zero.
EndVeto == pc = "placeholders" /\ todo = {} /\ Conclude("No Position", 0)

\* Simple mode: the deterministic engine gives every analyst a stub result
\* that carries the engine's one bias.
ScoreStubs ==
  /\ pc = "stubs" /\ todo = {}
  /\ \E bias \in Votes, full \in SUBSET Analysts :
       result' = [a \in Agents |-> IF a = Risk THEN result[a]
                    ELSE Result("scored", IF a \in full THEN 1 ELSE 0, bias)]
  /\ todo' = Analysts
  /\ UNCHANGED <<agentState, simple, pc, cycle, task, report, pending,
                 signal, redis>>

WriteStub(a) ==
  /\ pc = "stubs" /\ a \in todo
  /\ todo' = todo \ {a}
  /\ pc' = IF todo' = {} THEN "finalize" ELSE "stubs"
  /\ SetStatus(a, DeriveHealth(agentState[a], result[a]))
  /\ UNCHANGED task

\* The market payload cannot be turned into signals: the cycle raises.
StubsFail ==
  /\ pc = "stubs" /\ todo = {}
  /\ pc' = "idle"
  /\ UNCHANGED <<agentState, simple, cycle, tasks, pending, todo, signal, redis>>

\* Quorum, synthesis and the gates; the overlays that follow keep the decision.
Finalize == pc = "finalize" /\ Conclude(FinalDecision(result), FinalScore(result))

-----------------------------------------------------------------------------
(* AutonomousRAGAnalysisRunner._persist_outputs.                           *)

CacheSignal ==
  /\ pc = "cache"
  /\ pc' = IF signal.score < MinTradeScore THEN "idle" ELSE "publish"
  /\ \/ cache' = signal /\ latest' = signal /\ UNCHANGED failures
     \/ /\ failures < MaxWriteFailures /\ failures' = failures + 1
        /\ cache' \in {cache, signal} /\ UNCHANGED latest
  /\ UNCHANGED <<agentState, simple, cycle, tasks, pending, todo, signal,
                 status, channel, lost>>

Publish ==
  /\ pc = "publish"
  /\ pc' = "idle"
  /\ \/ channel' = channel \cup {signal} /\ UNCHANGED failures
     \/ failures < MaxWriteFailures /\ failures' = failures + 1 /\ UNCHANGED channel
  /\ UNCHANGED <<agentState, simple, cycle, tasks, pending, todo, signal,
                 status, cache, latest, lost>>

-----------------------------------------------------------------------------
Health(a) ==
  \/ task[a] = "scoring" /\ (MarkDegraded(a) \/ MarkFailed(a) \/ MarkRecovered(a))
  \/ pc = "idle" /\ RecordSample(a)

TaskStep(a) == Answer(a) \/ Raise(a) \/ TimeOut(a) \/ WriteStatus(a)

Coroutine ==
  \/ CollectVeto \/ Collect \/ EndVeto \/ ScoreStubs \/ StubsFail \/ Finalize
  \/ CacheSignal \/ Publish
  \/ \E a \in Agents : Placeholder(a) \/ WriteStub(a)

Next ==
  \/ StartCycle \/ ContextFails
  \/ \E a \in Agents : TaskStep(a)
  \/ Coroutine
  \/ \E a \in Markers : Health(a)

Spec == Init /\ [][Next]_vars

\* The event loop runs every ready task, wait_for bounds every score, and the Redis
\* client's socket time-out every write: the status writes, and the risk-veto
\* journal's pipe.execute on the way of EndVeto.  No agent is assumed to answer.
Fairness ==
  /\ WF_vars(Coroutine)
  /\ \A a \in Agents : WF_vars(TimeOut(a)) /\ WF_vars(WriteStatus(a))

FairSpec == Spec /\ Fairness

-----------------------------------------------------------------------------
(* Properties.                                                             *)

\* The cycle has its outcome.
Decided == pc \in {"cache", "publish"} \/ (pc = "idle" /\ signal # NoSignal)

\* A veto the risk agent pronounced is never lost between the batches of the
\* wait loop: however the other agents finish, are cancelled or fail to write,
\* the cycle takes no position and announces nothing.
VetoStops ==
  result[Risk].kind = "veto" /\ Decided =>
    signal.decision = "No Position" /\ \A s \in channel : s.cycle # cycle

\* A trade that is announced was earned by the agents whose tasks ended, however
\* the others failed: the categories that count are a quorum, the votes for it are
\* more than those against it, and the full scores reach the minimum.
EarnedTrades ==
  signal \in channel /\ signal.decision \in Trades =>
    LET side == IF signal.decision \in {"Strong Buy", "Buy"} THEN "bullish" ELSE "bearish"
        ended == {a \in Analysts : simple \/ task[a] = "done"}
        silent == {a \in ended : result[a].kind \in {"warmup", "timeout", "exception"}}
        spoke == {a \in ended : result[a].kind = "scored"}
        yes == {a \in spoke : result[a].vote = side}
        no == {a \in spoke : result[a].vote \notin {side, "neutral"}}
        full == {a \in spoke : result[a].points = 1}
    IN  /\ Cardinality({Category[a] : a \in ended \ silent}) >= MinCategories
        /\ Cardinality(yes) > Cardinality(no)
        /\ ~(Points(full) < MinTradeScore)

\* When a cycle of agents is over, every agent's health entry was written by
\* that cycle, unless its write failed: what was cancelled reads SKIPPED, and
\* only an agent that answered reads READY.
StatusIsCurrent ==
  Decided /\ ~simple =>
    \A a \in Agents \ lost :
      /\ status[a].cycle = cycle
      /\ status[a].shown = "SKIPPED" <=> task[a] = "cancelled"
      /\ status[a].shown = "READY" => result[a].kind \in {"scored", "veto"}

\* Every cycle that dispatches its agents ends, whichever of them hang.
CycleEnds == pc = "waiting" ~> pc = "idle"

\* What the chaos-testing document asks: a risk agent that times out is an
\* implicit veto.
RiskTimeoutIsVeto ==
  result[Risk].kind = "timeout" /\ Decided => signal.decision = "No Position"

-----------------------------------------------------------------------------
(* The contract this module implements.                                    *)

Contract == INSTANCE CycleContract WITH
  Trades <- Trades,
  NoTrade <- Decisions \ Trades,
  phase <- IF pc = "idle" THEN "idle"
           ELSE IF pc \in {"cache", "publish"} THEN "decided" ELSE "open",
  gate <- IF result[Risk].kind = "veto" THEN "veto"
          ELSE IF result[Risk].kind = "scored" THEN "clear" ELSE "silent",
  decision <- IF signal = NoSignal THEN "none" ELSE signal.decision,
  announced <- pc = "idle" /\ signal \in channel

\* Every run of the pipeline is a run of the contract.
ContractSpec == Contract!CSpec
=============================================================================
