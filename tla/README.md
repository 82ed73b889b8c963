# A verification development for ATLAS / PROMETHEUS

TLA+ models of the parts of this repository in which order, concurrency and failure decide
whether the program is right, TLC configurations that check them on small instances, and
TLAPS proofs of what matters most for instances of every size. Paths are relative to `src/`.

Contents: 1 inventory, 2 hazards, 3 modules and how they correspond to the code, 4 runs,
5 fairness, 6 proofs, 7 what the models refute, 8 what is not modelled, 9 plan, 10 running it.

## 1. Inventory

ATLAS analyses assets and publishes signals; PROMETHEUS executes. Both are Python, single
threaded per process and cooperative (`asyncio`): another coroutine runs only at an `await`.
They share Redis (keys, streams and Pub/Sub), PostgreSQL and the Bitget exchange, and
nothing else.

| component | state it keeps | operations | interacts through |
|---|---|---|---|
| Analysis pipeline: `atlas/pipeline/orchestrator.py`, `atlas/agents/`, `atlas/orchestrator/scorer.py`, `atlas/signals/decision_mapper.py`, `atlas/ml/confidence_gate.py`, `atlas/core/autonomous_rag_analysis.py` | agents' health (memory); status, cached signals (Redis) | one cycle: fan out, collect, veto, score, gate, cache, publish | asyncio tasks, Redis |
| Analysis engine: `atlas/api/routes/system.py`, `backend/routes/prometheus_compat.py`, `atlas/providers/hydra/listener.py`, `atlas/core/stream_consumer.py` | one slot in `app.state`, a buffer (memory); consumer group (Redis) | start, stop, read, process, acknowledge | HTTP requests, a Redis stream |
| Trade pipeline: `backend/pipeline/` | none between evaluations | gates, entry decision, execution request, wait for fill, review, staged exits | language models, Pub/Sub, a fill key |
| Trading halt: `prometheus/kill_switch/core.py`, `atlas/api/routes/risk_governor.py`, `atlas/core/redis_resilience.py` | halt key and events (Redis), audit file; which Redis the proxy points to | halt, resume, reconnection, the analysis loop | the key is read once per cycle |
| Paper trading: `atlas/routes/paper_trade.py`, `prometheus/services/paper_trade_executor.py`, `prometheus/execution/bitget_client.py` | orders (exchange); two breakers, a subscription (memory) | submit and wait, take and place, acknowledge | Pub/Sub, HTTP |
| Position reconciler: `prometheus/reconciliation/reconciler.py` | phantom counters in memory; halt key (Redis), report (PostgreSQL) | `run_forever`, `reconcile_once`, four comparisons, `_publish_halt` | reads exchange, ledger and Redis mirror at different moments |
| RAG memory lifecycle: `atlas/rag/state_machine.py`, `atlas/rag/agent_zero/state_manager.py` | `document_state`, its log, contradiction counts (PostgreSQL); read-through copy (Redis); payload flags (Qdrant) | `transition`, `get_state`, `record_contradiction`; three concurrent tasks of the nightly pass | one asyncpg pool; nested connections; a cache deleted after the commit |
| Canary rollout: `atlas/orchestrator/ml_canary.py`, `atlas/ml/model_registry.py` | `ml_model_registry` (PostgreSQL); returns and agreements (memory) | shadow cycle, evaluate, promote, roll back, retire | unconditional UPDATEs |
| Stop ladder: `prometheus/stops/placer.py` | `stop_ladder_tiers` (PostgreSQL), plan orders (exchange) | size, place, then persist each tier; cancel | the reconciler's Bitget client |
| Event streams: `atlas/core/multi_asset_runner.py`, `stream_*.py` | Redis streams, consumer groups | read, acknowledge, process; dead-letter sweep | Redis |
| Provider breaker, SWR cache: `atlas/core/circuit_breaker.py`, `swr_cache.py` | windows and entries (Redis), pending refreshes (memory) | record, evaluate; get, refresh | Redis |
| Cascade setup detector: `atlas/pipeline/cascade_executor.py` | probe (Redis) | stage 1, stage 2, expiry | Redis |
| Sizing and allocation: `atlas/pipeline/position_manager.py`, `risk_governor.py`, … | none of its own | recommendations | keys another engine writes |
| Providers, RAG retrieval | caches | data transformations | HTTP, vector store |
| Demo symbol universe: `prometheus/services/demo_symbols.py` | list (Redis, one key) | cache, then API, then built-in list | read by the route and the executor of paper trades |
| ML, backtesting, tax, front end, deployment | files | batch computations, views | — |

What is hard: coroutines that read, await and then write (lifecycle, engine slot,
reconciler, canary); tasks that end in any order and in batches (pipeline, review); two
stores written one after the other (PostgreSQL then Redis, exchange then PostgreSQL); calls
whose failure looks like an empty answer (`_signed_get`); Pub/Sub, which keeps nothing, and a
consumer group whose pending entries nobody reads again; a Redis that is replaced while the
process runs; pools that nested acquisitions exhaust.

What makes each correct, in a sentence: a veto pronounced in a cycle ends it without a
position, and a trade was carried by a quorum and a majority of the agents that ended; no engine runs that no request can
stop, and the risk agent sees the newest cascade; a request to PROMETHEUS is earned by five
agreeing gates, and a position whose exit is due is not left to itself; an answered halt
holds until it is resumed and stops the loop; a paper trade is executed at most once and the
answer about it is true; the reconciler halts on what lasts and not on what does not, and a
stop it misses did leave the exchange; a document only makes the moves `_validate_transition` allows and the log tells the moves
made; one live version per model, and none in use that did not serve its shadow cycles.

Of these, the canary orchestrator, the stop ladder, the reconciler and the nightly pass are
classes the repository constructs only in tests. They are modelled as the classes behave for
a caller that uses them as their documentation says.

## 2. Hazards

`PROJECT.json` lists them at the line where they bite, with the property that would show
each going wrong, or why none does. They fall into these groups:

* check, await, act: `state_machine`, the engine's slot, `reconciler`, `ml_canary`;
* tasks in any order: the wait loop of `orchestrator`, the two reviewers of
  `position_review`, the executor and its own acknowledgements;
* a stale copy: the cached document state, `positions:open`, the halt key, the rows the
  canary listed, the runner a stop has read, results of an earlier cycle;
* one of two writes failing: commit without cache delete, PUBLISH without SET, a close
  instruction counted but not sent;
* lost or late answers: Bitget, Pub/Sub, XREADGROUP and XACK, the route's and the agents'
  time-outs;
* limits: connections, breakers, thresholds of the gates;
* things that must happen: a pass, a cycle, an evaluation ends; a halt is noticed.

Some hazards of components without a model are not in that list: events acknowledged before
they are processed (`atlas/core/multi_asset_runner.py:96`); windows shared by processes and
read, then written (`atlas/core/circuit_breaker.py:83`); the limit on background refreshes
(`atlas/core/swr_cache.py:105`); a probe whose signal is published before it is deleted
(`atlas/pipeline/cascade_executor.py:228`). Four more are of modelled components and no
property is about them: PUBLISH without SET in `reconciler.py:554` (`RunFails` does it, no
document says what should follow); one executor per worker process (`backend/main.py:369`;
`README.md:34` starts one worker); no live version after a failure between retiring and
promoting (`ml_canary.py:513`; `CanaryRollout` does it, no document forbids it); and a ladder
that an exception leaves half placed, or a plan order whose answer was lost and whose row
says "failed" (`prometheus/stops/placer.py:48`, `:50`; `StopLadder` does both, nothing says
who should notice).

## 3. Modules

| module | models | extends / used by |
|---|---|---|
| `CycleContract` | what a cycle promises: the abstract specification | instantiated by `AnalysisPipeline` |
| `AnalysisPipeline` | one asset's analysis cycles | `MCAnalysisPipeline` (initial states and data for TLC), `AnalysisPipelineProofs` |
| `AnalysisEngine` | start, stop, and the HYDRA listener | `AnalysisEngineProofs` |
| `TradePipeline` | one evaluation, gates to exits | `MCTradePipeline` (scores and confidences for TLC), `TradePipelineProofs` |
| `TradingHalt` | kill switch, halt route, Redis runtime, analysis loop | `TradingHaltProofs` |
| `OrderContract` | what the route promises about a request: the abstract specification | instantiated by `PaperTrading` |
| `PaperTrading` | route, executor, Bitget client and breakers, process | `PaperTradingProofs` |
| `StopLadder` | the ladder of one trade, through the Bitget client | extended by `Reconciler` |
| `Reconciler` | one reconciler, the ladder under its eyes, and its surroundings | `MCReconciler` (initial states for TLC), `ReconcilerProofs` |
| `DocumentLifecycle` | the state machine and the nightly pass | `MCDocumentLifecycle` (initial states for TLC), `DocumentLifecycleProofs` |
| `CanaryRollout` | registry rows and the orchestrator that moves them | `CanaryRolloutProofs` |

The rule for atomicity is the same everywhere: code between two awaits is one step, an await
on a store or on the exchange ends it. Names are the code's: an action is named for the
method it translates, a variable for the column, key or attribute. Definitions marked
"Mutation" or "Mutant" are plausible wrong versions of the definition they precede; no
specification uses them.

**AnalysisPipeline.** `pc` is the cycle's own coroutine, `task[a]` the asyncio task of each
agent: `Answer`, `Raise` or `TimeOut` ends its scoring, `WriteStatus` its write to Redis.
`asyncio.wait(FIRST_COMPLETED)` hands over any non-empty set of finished tasks (`Batch`);
`CollectVeto` is the branch that cancels the rest, writes placeholders for them and ends in
`EndVeto`, `Collect` the one that waits on. `Finalize` is quorum, score, confidence and
minimum-score gate in the code's order; simple mode scores the risk agent and stubs
(`ScoreStubs`). `CacheSignal` and `Publish` are the three writes of `_persist_outputs`, each of
which may fail. Health calls (`MarkDegraded`, …) come from outside at any time. An analyst's
score is full or empty and its vote a direction; shares and categories are constants. Shares
may add up to more than the scale, as a regime's multipliers make them, and the total is capped.
`ContractSpec` is the refinement: the phase is read off `pc`, the gate off the risk agent's
result, the decision off `signal`, the announcement off `channel`.

**AnalysisEngine.** A start is `AskStart`, `Build`, `MakeGroup`, `Run`: the slot is read in
the first and written in the last. A stop is `AskStop`, `LoopEnds`, `ListenerEnds`,
`EmptySlot`, in the order of `close()`, and empties the slot whatever is in it. The listener
is `Read`, `Process`, `Ack` on a stream with its group's cursor and pending entries;
`ReadLost` and `AckFails` lose the answer of XREADGROUP and the XACK. `raced` is history: two
requests have overlapped.

**TradePipeline.** `EvaluateNext` evaluates the gates in `TIMEFRAME_ORDER` with the
thresholds of `pipeline_config.py` as they are; then `EntryDecision`, `RequestExecution`,
`PollFill`, and the review: two tasks (`DeepSeekEnds`, `MistralEnds`), `DeepSeekReviews` up to
T+30, `PartialTimeout` and `PartialExit`, `FirstVerdict` up to T+60, `FullExit`. Each model may
give a verdict, give none, raise or never answer; each PUBLISH may fail.

**TradingHalt.** `key` and `channel` exist twice, on the server and in the in-process
substitute; `proxy` is the store the process uses. `halt` is SET, PUBLISH, audit, `resume`
DELETE, SET, PUBLISH, audit, of several operators at once; each may raise, and then the
caller gets an error. The loop reads the key once per cycle of `Universe` assets.
`standing`, `after`, `wrote` and `contested` are history variables: they say which halts
were answered and not overlapped by a resume, and how much was analysed since.

**PaperTrading.** A request is `Submit`, `Publish`, then `Answer` or `TimeOut`. The executor
is one coroutine: `at` is its await. `Refused` and `Limited` are the paths of `_signed_get`;
`Post` and `Receive` are the call of `_signed_post` and what is done with the answer, which
may be lost after the exchange took the order. Exceptions leave `run()` (`Die`), and nothing
starts it again. Acknowledgements are published to a channel that matches the executor's own
subscription, so they come back to it (`Take`). `KeepsOrderContract` is the refinement: an
answer is read off `request`, what was placed off `exchange`; queue, mailbox, executor and
breakers are hidden.

**StopLadder.** `place` is the coroutine `place_all`: for each tier `ConvertSize`, `Submit`,
`Persist`. Every way `_signed_post` answers is there: accepted, refused, and an answer lost
after the exchange took the order, which the row records as failed; a statement that times
out may have been executed and ends the ladder. `limited` is the pair of breakers a rate
limit opens and nothing but a restart closes. `TriggerStop` is the exchange's.

**Reconciler.** `pc` walks through `reconcile_once`; `exchange`, `ledger`, `mirror`, `rows`,
`resting` are what it reads and others change meanwhile (`Fill`, `CommitLedger`,
`CommitMirror`, `Ladder`, …), each in a step of its own, so that a pass sees several moments.
A refused call answers with nothing (`Answer`), a failed one ends the run (`RunFails`). It
shares the client's breakers and the restart with the ladder, whose steps it takes whole.
Sides and margin modes are the data; sizes are not, and of the discrepancies only those
that halt, or that a property asks for, are kept.

**DocumentLifecycle.** `pc[t]` says where each task is: three per replica for the pass
(`pending`, `expire`, `age`) and one caller of `transition` outside it. `transition()` is
`GetCached`, `GetFromDatabase`, `FillCache`, `ExecuteTransition`, `InvalidateCache`: the
state is validated against what was *read* (`from`), and the UPDATE does not mention it.
`record_contradiction` is a transaction of its own and, at the threshold, a transition of
*another* document than the one the task holds. Connections are counted: a task of the pass
keeps one while it works on a document (`HoldsOuter`), `get_state` a second one while it
writes the cache (`HoldsInner`). `CallFails` is a call of PostgreSQL or Redis that raises (a
statement fails or times out and its transaction is rolled back, a cache write or delete
fails), `ListingFails` a listing query that raises out of its task, `Crash` the process dying,
`NotifyQdrantFails` a failed `set_payload`. The passes of one replica are assumed not to
overlap. Verdicts of the verifier are any; scores
and texts are left out. `loggedFrom` keeps the newest log row of each document.

**CanaryRollout.** Each statement on `ml_model_registry` is a step. A shadow cycle is
`BeginShadowCycle`, `Decrement`, `PromoteFromShadow`, for a version in any state and any number
at a time, since `run_shadow_cycle` asks for neither (`cycle` counts them); an
evaluation lists the versions of a state (`ListModels`), and per version `EvaluateCanary`
chooses `Rollback`, `PromoteTo50` or `GetLive`, `RetireLive`, `PromoteToLive`. `Update` leaves
the old state unread, as `update_state` does, and its answer may be lost after it took
effect (`EvaluationFails`, `CycleFails`). `since` is the start time as never, fresh or ripe,
`returns` whether there are the two a verdict needs and whether they look fine or poor.

## 4. Runs

Nine runs pass, each within about three minutes on two workers; the three marked *refuted* stop
at the counterexample.

| run | question | instance | why it is enough |
|---|---|---|---|
| `pipe` | Is a veto kept, a trade earned, a status current, does a cycle end, and does it keep its contract? | second cycle after a failed or a traded one; two analysts, one heavy enough to trade alone, together above the scale (shares 75 and 30), and the risk agent; 2 failed writes | two analysts make every batch shape with the veto in, before and after it; the first cycle leaves stale results of both kinds; two writes are the two keys of a signal; two categories make a quorum that one agent's time-out breaks |
| `pipe_timeout` *refuted* | Is a risk agent that times out an implicit veto? | same | |
| `engine` | Can an engine be lost, does one alone hear its cascades? | 2 starts, 2 stops, 2 entries, 1 fault | two of each give start/start, start/stop and stop/stop overlaps; two entries make an order to get wrong |
| `trade` | Is a request earned, the report right, the position watched, does it end? | for each gate the last score that misses its threshold and the first that meets it; hourly scores with totals on either side of 150, 180 and 220; confidences on either side of 50, 55, 60, 65 | one evaluation shares nothing with another; the constants hit both sides of every comparison |
| `trade_unreviewed` *refuted* | Is the fallback asked when the primary reviewer fails? | same | |
| `halt` | Is an answered halt in force, does the loop obey it? | 2 operators, 2 assets, 1 outage, restart and failed read each | two operators overlap a halt and a resume; two assets make a cycle that outlasts a halt |
| `halt_lost` *refuted* | Does a halt in force stay in force while the process runs? | 1 operator | |
| `paper` | Is a trade executed once, and is what the route promises kept? | 2 orders, 3 failed calls, 1 restart, breaker at 1 | one order meets an open breaker or another's ack; three failures are one more than an order's path can have before the executor ends |
| `rec` | Does it halt on what lasts, and only on that, and is a missing stop missing? | 1 asset, 2 tiers, 2 outside events, 1 failed call or restart, persistence 2 | a phantom needs two passes, a flip two events; one failure can strike every await of pass and ladder; with two tiers a row is read while the next order is placed |
| `lc_one` | Does one replica ever move a document illegally, or log what did not happen? | 2 documents that contradict each other, threshold 1, 1 failed call of PostgreSQL or Redis or crash, 1 failed payload | two documents are what a contradiction needs; with one fault every single point of failure in every task is tried |
| `lc_live` | Does a pass end, and is what was rejected archived? | 2 documents, pool of 3 | three tasks with one connection each and a nested one: with two documents, which keep one of the tasks idle, 3 is the smallest pool the pass can end with (`PoolNeverLocks` asks for 4 in general: one more than tasks) |
| `canary` | One live version, proven ones only, timely rollback? | 2 versions, 1 evaluator, 2 required cycles, 1 fault | two versions compete for the live seat; one fault tries every statement, also with its answer lost; two comparisons of a version are what a promotion needs, and make two cycles at a time |

What they show, by property.

* `pipe`: `VetoStops` (no batch order, cancellation or failed write loses a veto),
  `EarnedTrades` (of the agents whose tasks ended, those that count are a quorum, the votes for
  an announced trade outnumber those against it, and the full scores alone reach the minimum),
  `StatusIsCurrent`,
  `CycleEnds`, and `ContractSpec`, the refinement.
* `engine`: `OrphansNeedOverlap`, and `SoleEngineHears` (whatever is acknowledged since the
  group was made and is readable is not newer than what the buffer holds).
* `trade`: `EarnedRequest` (five gates open together; size and leverage are those of the tier of
  the capped total), `ReportAddsUp` (with no failed PUBLISH the percentage reported is
  what the instructions sold, whichever task raced which), `AfterPartialWatched`,
  `EvaluationEnds`.
* `halt`: `HaltHoldsUntilRestart`, `ServerHaltSurvives`, `HaltStopsAnalyses` (no more than the
  running cycle, and one per failed read), `HaltReachesTheLoop`.
* `paper`: `AtMostOneOrder`; `KeepsOrderContract`, the refinement, which implies that an answer
  is true and stays so (`AnswersAreTrue`); `AcksDoNotEcho`, `TakenIsAcked`.
* `rec`: `PersistenceRespected` (a phantom halts only when the previous pass that looked saw
  it too), `OutageNeverHalts`, `StopAlarmIsReal` (a stop is reported missing only if one left
  the exchange or a call failed), and, for a state that stays put, `LastingFaultsSurface`: a
  contradiction ends in a halt and a lost ladder in a report. The exchange must still answer
  for the first: a rate limit blinds the reconciler until a restart.
* `lc_one`: `LegalMoves` (every change of the column is a move of the diagram until two
  failures have happened), `LogIsFaithful`, `SilentReturnIsTrue` (when `transition` returns to any of its
  callers without writing, the row is in the state asked for). `lc_live`: `PassEnds`, which includes
  that the pool does not deadlock, and `RejectedIsArchived`.
* `canary`: `OneLive`, `ProvenInShadow`, `RollbackCompletes` (a poor version in
  use that an evaluation lists is back in shadow before the evaluation is over, unless its
  returns recover or a statement fails).

Each module's type invariant is checked in its own passing run. Bounds are constants whose
names begin with `Max`; they cap environment actions (faults, restarts, outside events) and
the cycles or comparisons counted, never the system's own steps. `Threshold`, `PoolSize`,
`Persistence`, `Universe`, `Required` and `FailMax` are settings of the program made small.
Deadlock is checked in `rec` and `halt*`, which never stop. The others switch it off because
they do stop: an evaluation ends, cycles, requests and fault budgets are used up.

## 5. Fairness

Weak fairness of the coroutines only: a task whose next step is possible runs (`asyncio`
runs every ready task). Beyond that,

* `AnalysisPipeline`: `wait_for` ends a task that does not answer; the writes to Redis, the
  status writes and the risk-veto journal's pipeline (`risk_veto_journal.py:49`), have no bound
  of their own and end by the client's `socket_timeout` (`redis_resilience.py:106`); no agent
  need answer;
* `TradePipeline`: the coroutine and its time-outs for models and PROMETHEUS, none of which need
  answer; publish, get and delete end by the client's `socket_timeout`;
* `TradingHalt`: the Redis server comes back and `_reconnect_loop`, which retries for ever,
  finds it;
* `PaperTrading`: a stopped process is started again, as the deployment does, and a waiting
  route either answers or times out;
* `DocumentLifecycle`: the nightly scheduler fires and days pass (strong: a document's age
  grows while it moves between states);
* `Reconciler`, `CanaryRollout`: their own loop and evaluation alone;
* `AnalysisEngine`: none, its properties are of safety.

Operators, traders, language models and the exchange have none. Faults are never fair.

## 6. Proofs

Each theorem holds for every value of the constants the module's named assumptions allow
(natural numbers, positive thresholds, `TradeAssumption`: the scores of each gate within 0..220). Three kinds of
hypothesis are added where the code needs them, and TLC refutes the statement without them: one
replica or one evaluator (`Alone`), at most one fault (`MaxFaults \in 0..1`), and a pool with
more connections than a pass has tasks (`PoolSize > Cardinality(PassTasks)`: 4 or more; asyncpg's
default, which the code keeps, is 10).

| module | theorem | states |
|---|---|---|
| `DocumentLifecycleProofs` | `TypeCorrect` | `[]TypeOK` |
| | `LogIsLegal` | `[]LogLooksLegal`, for any number of replicas, failures, crashes |
| | `LogTellsTheMove`, `SilenceIsTrue` | `LogIsFaithful`, `SilentReturnIsTrue`, one replica (`Alone`) |
| | `MovesAreLegal` | `LegalMoves`, one replica, at most one failed call or crash |
| | `PoolNeverLocks` | `[]NoCircularWait`: tasks never hold the whole pool and all wait for one more |
| `TradingHaltProofs` | `TypeCorrect` | `[]TypeOK` |
| | `ServerKeepsHalt`, `AnsweredHaltIsInForce` | `[]ServerHaltSurvives`, `[]HaltHoldsUntilRestart` |
| | `HaltBoundsAnalyses` | `[]HaltStopsAnalyses` |
| | `HaltIsHeardAgain` | `NoNewCycle`: back on the server, after any restarts, the loop begins no cycle under a halt |
| `PaperTradingProofs` | `TypeCorrect` | `[]TypeOK` |
| | `NoSecondOrder`, `AnswersTellTheTruth` | `[]AtMostOneOrder`, `[]AnswersAreTrue` |
| | `PaperTradingKeepsContract` | `KeepsOrderContract`: every step is a step of `OrderContract` or a stutter |
| | `InstructionsGoForward` | `HandledForward`: each step nearer to the ack, nothing let go without it |
| | `BreakerNeverCloses` | `OpenIsForever`: an open write breaker stays open until the process starts again |
| `AnalysisPipelineProofs` | `PipelineIsTyped` | `[]TypeOK`, the bound on every score included |
| | `FullScoresNeverHurt` | the score is monotone in the agents that reach theirs |
| | `NoTaskIsStranded` | `[]NoneStranded`: there is something to wait for, and no task outlives its cycle |
| | `VetoIsKept`, `TradesAreEarned`, `StatusIsTheCycles` | `[]VetoStops`, `[]EarnedTrades`, `[]StatusIsCurrent` |
| | `PipelineImplementsContract` | `ContractSpec`: every step is a step of `CycleContract` or a stutter |
| `AnalysisEngineProofs` | `TypeCorrect` | `[]TypeOK` |
| | `OrphansComeOfOverlap`, `AloneItHears` | `[]OrphansNeedOverlap`, `[]SoleEngineHears` |
| | `OneEngineUnlessOverlap` | `[](~raced => OneEngine)` |
| `TradePipelineProofs` | `TypeCorrect` | `[]TypeOK` |
| | `RequestIsEarned`, `ReportIsRight`, `PositionIsWatched` | `[]EarnedRequest`, `[]ReportAddsUp`, `[]AfterPartialWatched` |
| | `EveryWaitCanEnd`, `EvaluationAdvances` | `[]WaitsForTheAsked`, `Advances`: thirteen stages, never back; each reviewer is asked at one stage only, and only the last stages send exits |
| | `ExitsComeInTurn` | `[]ExitsInTurn`: the partial exit at most once and first, the full one at most twice |
| | `OnlyEarlyFailuresLeaveAFill` | `[]LeftOnlyEarly`: the ways in which `FillIsReviewed` fails |
| `CanaryRolloutProofs` | `TypeCorrect`, `OnlyTheProvenServe` | `[]TypeOK`, `[]ProvenInShadow`, any number of evaluators |
| | `OneLiveIfAlone` | `[]OneLive`, one evaluator (`Alone`) |
| | `PoorAreRolledBack` | `NonePassedOver`, any number of evaluators |
| `ReconcilerProofs` | `TypeCorrect` | `[]TypeOK`, ladder included |
| | `PhantomsPersist`, `OutageIsHarmless`, `AlarmIsReal` | `PersistenceRespected`, `[]OutageNeverHalts`, `[]StopAlarmIsReal` |

The inductive invariants, and why they are needed:

*Lifecycle.* `Typing` is `TypeOK` plus what a task's locals must be at each `pc`.
`CommitIsLegal` (a task at `commit` holds a `from` of which `goal` is a successor) gives
`LogIsLegal` alone: it does not mention the row, so nothing another process does disturbs
it. That the *row* still is what was read is what needs one replica: documents are
partitioned between the tasks of a pass by the state they were listed in, so that between
read and write only a contradiction can move a document under a task, and then to a state from
which the task's move is refused or still allowed. `OnCourse`, which `Calm` says holds up to the
first failure and through it, ties what each task knows (`Knows`, `Warranted`) and each cached
copy (`Close`) to the row. Without a failure a copy is right, or `Behind` the row in a way that
only gets a move refused, or a `RawCopy` the pass has not reached, or about to be deleted by the
task that wrote. After one, an `Old` copy may stay, and a task that read it holds a move the row
allows too or has made already (`Warranted`; `CacheEnough` is the case analysis). With a second
failure that ends, and the hypothesis is tight: TLC refutes `LegalMoves` for `MaxFaults = 2`.

*The pool.* `NotOverdrawn` counts: a replica's connections in use are its tasks that hold one
plus those that hold a second one. If all are in use and everyone who holds one waits for a
second, there are at most as many holders as tasks, which is fewer than the pool has.

*Halt.* `HaltInv` adds to the typing that a resume in progress contests every halt in
progress (`ResumeContests`) and that a halt between SET and its answer has its key in the
store it wrote unless contested (`UnansweredIsKept`); without them an answer could arrive
for a key already deleted. `OnServer` (no restart: the proxy is on the server) turns
`ServerHaltSurvives` into `HaltHoldsUntilRestart`. `Budgeted` bounds analyses so far plus
analyses the loop may still begin by the allowance.

*Paper trading.* `Once` says that a request waits at most once on the subscription
(`OnceQueued`), that what waits or was never published has no order yet (`QueueIsFresh`,
`UnpublishedIsUnknown`), that the instruction in hand has none before its POST and one at most
after it (`HandledOnce`), and that every ack on its way agrees with the exchange
(`MailIsTrue`). Without the freshness of the queue a second POST could not be excluded. The refinement maps each
action with the same invariant: only the POST is a `Place`, of an instruction whose request was
told nothing definite; every answer of the route is a `Reply` that `MailIsTrue` makes true; a
stop is a `Lose`; all else stutters.

*Analysis pipeline.* `Gate`: the risk agent is awaited for as long as it works, and what was
collected from it without ending the cycle is no veto (`GateIsWatched`); the signal is the
cycle's own (`SignalIsOwn`); after a veto there is no position and no announcement
(`VetoHolds`). The refinement follows from it step by step: each action maps to one step of
the contract or to none. `TradeStands` ties the decision to the results it was computed
from, until it is announced; `StatusStands` says for each agent what its entry may be, given
how far its task is. `NoneStranded` generalises the first part of `Gate` to every agent. The scorer's
sum is a fold the library defines by recursion on the set; that it is a number, at most the
cap, and grows with the set is proved without an induction theorem: a smallest set of analysts for
which it failed would have a smaller one (`MinimalSubset`, from the well-foundedness of strict
inclusion on a finite set).

*Analysis engine.* `Turns`: requests that do not overlap come one at a time and find in the slot
whatever runs (`InTurn`). `Hearing`: what the group gave is in the stream, an engine that has
not begun listens to nothing, and an engine alone was given entries in order and has buffered
the newest it processed (`SoleInOrder`).

*Trade pipeline.* `Earned`: the gates so far were open together and nothing is asked for before
five of them. `Watched`: what has been sold at each point of the review (`Selling`), from which
report and outcome follow. `Asking`: who has been asked, and whether the fill was picked up, by
when; `Stage` numbers the steps from the first gate to the audit.

*Canary.* `Proven`: a version on its way into use has served its cycles, wherever an
evaluation stands, also one whose rows are long out of date (`OnTheWay`); this needs no
assumption on evaluators. `Seated`: what one evaluator alone may rely on between its
statements about the live seat: whoever is live is the one it read, since shadow cycles may empty
the seat but never take it; with two evaluators it is false, and so is `OneLiveIfAlone`.

*Reconciler.* `CountsSightings`: only what the last comparison of this process saw is counted.
`NothingToBlame`: as long as nothing happened, the pass has read what is there, or nothing.
`RowsFollowOrders`: a row says "placed", in the table, in the pass or about to be written, only
of an order that was accepted; orders only ever move from resting to left, so what a pass
reads later covers what it read earlier.

Only model-checked are the nine properties of liveness, which the prover cannot treat (fairness
needs ENABLED). For most of them the safety half is a theorem, that nothing goes back, is
dropped or waits for what cannot come, so that fairness of the next step is all that is left to
TLC:

| liveness, checked by TLC | what is proved of it |
|---|---|
| `PassEnds` | `PoolNeverLocks` |
| `RejectedIsArchived` | `MovesAreLegal`: nothing comes back from soft-deleted or archived |
| `HaltReachesTheLoop` | `ServerKeepsHalt`, `HaltIsHeardAgain` |
| `TakenIsAcked` | `InstructionsGoForward` |
| `CycleEnds` | `NoTaskIsStranded` |
| `EvaluationEnds` | `EveryWaitCanEnd`, `EvaluationAdvances` |
| `RollbackCompletes` | `PoorAreRolledBack` |
| `LastingFaultsSurface`, `AcksDoNotEcho` | nothing |

## 7. What the models refute

Three runs refute a statement of the documentation; the quotations are in `PROJECT.json`.

* A halt answered while the process runs on the in-process Redis is dropped at the swap to the
  server, with no restart or resume after it (`halt_lost`).
* A risk agent that times out is no veto: the cycle goes on and may trade (`pipe_timeout`).
* When DeepSeek fails with an error instead of a time-out, Mistral is not asked and the filled
  position is not closed (`trade_unreviewed`).

The modules also define properties that hold only under an assumption or not at all. They
have no run of their own; each is refuted by the given module in the given instance.

| property | module | instance | what happens |
|---|---|---|---|
| `LegalMoves` | `DocumentLifecycle` | `lc_one` with two replicas, or with `MaxFaults = 2` | the UPDATE does not name the state that was validated; the cached copy is deleted after the commit, once |
| `ArchivedIsNotified` | `DocumentLifecycle` | `FreshFairSpec`, one payload failure | a failed `set_payload` is not repeated |
| `SideMismatchIsReal` | `Reconciler` | `rec` | "a side mismatch cannot be transient": the two reads are not of one moment |
| `MissingStopIsReported` | `Reconciler` | `rec` | a resting tier counts as in flight and every run is skipped, the lost tier notwithstanding |
| `OpenBreakerCloses` | `PaperTrading` | one failure, `FailMax = 1` | the early return on `STATE_OPEN` never makes the call in which pybreaker would move on; `BreakerNeverCloses` proves it of every instance |
| `OneEngine` | `AnalysisEngine` | `engine` | two starts overlap; the first engine runs on and no request reaches it; without overlap it holds (`OneEngineUnlessOverlap`) |
| `AnsweredHaltHolds` | `TradingHalt` | `halt` | a restart while the server is away starts on an empty substitute; the server's halt is unseen until the reconnection (`HaltIsHeardAgain`) |
| `FillIsReviewed` | `TradePipeline` | `trade` | the fill key's DELETE or the decoding of its value fails, or DeepSeek does with an error; `OnlyEarlyFailuresLeaveAFill` proves that there is no other way |
| `LifecycleEdges` | `CanaryRollout` | `canary` | `model_registry.py:6` says "atomic via PostgreSQL UPDATE with WHERE guards"; `update_state` has none on the state, so that a shadow cycle moves a version from any state, live and retired included, to canary_10pct |
| `OneLive` | `CanaryRollout` | `canary` with two evaluators | both find the seat free and take it |

One more disagreement needs no run: `_check_quorum` says it wants agents that are "READY, and not
zero-scored" (`orchestrator.py:1283`), and counts those that are failed or scored nothing
(`CheckQuorum` follows the code).

## 8. Not modelled

Inside the modelled components: the reconciler's reports that nothing depends on and its hedge
mode; the ladder's paper mode, its price formulas and more than one ladder; the panic-key
comparison and both rate limiters; the close of the old Redis client after a swap; the
client's account and modify calls and its rate-limit gauge; the await on the contract
specification inside a comparison (`reconciler.py:211`), which is one step here; the breaker
that three failed POSTs open while a ladder is placed; the executor's reject of an unsupported
schema version and a symbol list that cannot be fetched (`paper_trade_executor.py:94`); neutral
answers with a full score and directed ones with none (`scorer.py:577`); the alert that follows
a status write (`orchestrator.py:180`) and the raising paths of a veto in full mode; the
listener's buffer per asset, which is one number here; several API workers; the agents'
formulas (their scores, votes and vetoes are any); the texts of model answers;
returns beyond the ones a verdict needs. Symmetry is not used: the runs
are small enough without.

Components without a model are in `PROJECT.json` with the reason. Most of the repository's
lines are adapters of market-data vendors, HTTP views, numerical code, data models and
settings: they transform what they are given and keep no state that another actor changes, so
that a state machine of them would say what a unit test says. This is why the map covers a
small share of all lines, and most of the lines in which two actors meet.

## 9. Plan

Done: 1 `DocumentLifecycle`, 2 `Reconciler`, 3 `TradingHalt`, 4 `PaperTrading`,
5 `CanaryRollout`, 6 `AnalysisEngine`, 7 `AnalysisPipeline` with its contract,
8 `TradePipeline`, and `StopLadder`, composed with the reconciler.

9. `PaperTrading` on `TradingHalt`'s Redis runtime: the executor's subscription across a
   swap.
10. Streams (group reads, acknowledge first, dead letters), provider breaker, SWR cache,
    cascade setup: one small module each, where a property of two actors is at stake.

Theorems to come: that acknowledgements on the executor's own subscription do not multiply (the
safety half of `AcksDoNotEcho`); that the reconciler's halt stays until it is resumed.

## 10. Running it

    tlc -config halt.cfg TradingHalt.tla
    tlc -config rec.cfg MCReconciler.tla
    tlapm ReconcilerProofs.tla

`PROJECT.json` names the module of every run, the lines every definition translates, and for
every property a mutation of the code under which TLC refutes it.
