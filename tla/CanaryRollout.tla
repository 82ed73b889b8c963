--------------------------- MODULE CanaryRollout ---------------------------
(***************************************************************************)
(* The rollout of a model's versions: rows of ml_model_registry, moved by  *)
(* CanaryOrchestrator between shadow, canary_10pct, canary_50pct, live and *)
(* retired on evidence it keeps in memory.  Shadow cycles and evaluations  *)
(* are coroutines; a step is one statement on the database and what the    *)
(* coroutine does until its next one.                                      *)
(***************************************************************************)
EXTENDS Integers, FiniteSets

CONSTANTS
  Versions,        \* versions of one model
  Evaluators,      \* callers of evaluate_all_canaries
  Required,        \* shadow_cycles_required
  MaxHistory,      \* bound: shadow comparisons remembered for a version
  MaxFaults        \* bound: statements that fail and restarts

ASSUME CanaryAssumption ==
  /\ IsFiniteSet(Versions)
  /\ Required \in Nat \ {0} /\ MaxHistory \in Nat /\ MaxFaults \in Nat

VARIABLES
  state,      \* version -> canary_state, or "absent"
  left,       \* version -> shadow_cycles_remaining
  since,      \* version -> canary_start_time: "never", "fresh", or "ripe" for promotion
  history,    \* version -> _shadow_agreements: how many agreed, how many did not
  returns,    \* version -> "few" returns are recorded, or how they look beside the live
              \* model's: "fine" or "poor"
  cycle,      \* version -> its shadow cycles: how many are to decrement, to promote
  eval,       \* evaluator -> its evaluate_all_canaries
  faults

row == <<state, left, since>>
evidence == <<history, returns>>
vars == <<row, evidence, cycle, eval, faults>>

Canary == {"canary_10pct", "canary_50pct"}
States == {"shadow", "live", "retired"} \cup Canary

NoHistory == [yes |-> 0, no |-> 0]
NoReturns == "few"
NoCycle == [decrement |-> 0, promote |-> 0]
Nobody == "nobody"

EvalPcs == {"idle", "pick", "rollback", "to50", "seat", "retire", "golive", "raised"}
Idle(pc) == [pc |-> pc, list |-> "none", queue |-> {}, of |-> Nobody, live |-> Nobody]

TypeOK ==
  /\ state \in [Versions -> States \cup {"absent"}]
  /\ left \in [Versions -> 0..Required]
  /\ since \in [Versions -> {"never", "fresh", "ripe"}]
  /\ history \in [Versions -> [yes : 0..MaxHistory, no : 0..MaxHistory]]
  /\ returns \in [Versions -> {"few", "fine", "poor"}]
  /\ cycle \in [Versions -> [decrement : Nat, promote : Nat]]
  /\ eval \in [Evaluators -> [pc : EvalPcs, list : Canary \cup {"none"},
                 queue : SUBSET Versions,
                 of : Versions \cup {Nobody}, live : Versions \cup {Nobody}]]
  /\ faults \in 0..MaxFaults

Init ==
  /\ state = [v \in Versions |-> "absent"] /\ left = [v \in Versions |-> Required]
  /\ since = [v \in Versions |-> "never"]
  /\ history = [v \in Versions |-> NoHistory]
  /\ returns = [v \in Versions |-> NoReturns]
  /\ cycle = [v \in Versions |-> NoCycle]
  /\ eval = [e \in Evaluators |-> Idle("idle")]
  /\ faults = 0

Fault == faults < MaxFaults /\ faults' = faults + 1

-----------------------------------------------------------------------------
(* The registry.                                                           *)

\* ON CONFLICT DO NOTHING: a version that is there stays as it is.
RegisterModel(v) ==
  /\ state[v] = "absent"
  /\ state' = [state EXCEPT ![v] = "shadow"]
  /\ UNCHANGED <<left, since, evidence, cycle, eval, faults>>

\* update_state: whatever the state was.
UpdateState(v, new) ==
  /\ state' = [state EXCEPT ![v] = new]
  /\ since' = [since EXCEPT ![v] = IF new \in Canary THEN "fresh" ELSE @]
  /\ UNCHANGED left

\* Days go by, while no call is in progress.
DaysPass ==
  /\ \A v \in Versions : cycle[v] = NoCycle
  /\ \A e \in Evaluators : eval[e].pc \in {"idle", "raised"}
  /\ since' = [v \in Versions |-> IF since[v] = "fresh" THEN "ripe" ELSE since[v]]
  /\ since' # since
  /\ UNCHANGED <<state, left, evidence, cycle, eval, faults>>

-----------------------------------------------------------------------------
(* run_shadow_cycle, called for any registered version: it asks neither in *)
(* which state the version is nor whether a cycle of it is in progress.    *)

Comparisons(v) == history[v].yes + history[v].no

\* _check_shadow_agreement with a threshold of 95 percent.
Agreement(v) ==
  Comparisons(v) > 0 /\ 100 * history[v].yes >= 95 * Comparisons(v)

BeginShadowCycle(v, agrees) ==
  /\ state[v] # "absent" /\ Comparisons(v) < MaxHistory
  /\ history' = [history EXCEPT ![v] = [yes |-> IF agrees THEN @.yes + 1 ELSE @.yes,
                                         no |-> IF agrees THEN @.no ELSE @.no + 1]]
  /\ cycle' = [cycle EXCEPT ![v].decrement = @ + 1]
  /\ UNCHANGED <<row, returns, eval, faults>>

\* Mutant: GREATEST(..., 0) is missing.
Less_Negative(n) == n - 1

Less(n) == IF n > 0 THEN n - 1 ELSE 0

\* One cycle is done with its decrement; if it may, it goes on to promote.
Decremented(v, may) ==
  cycle' = [cycle EXCEPT ![v] =
    [decrement |-> @.decrement - 1, promote |-> IF may THEN @.promote + 1 ELSE @.promote]]

\* Mutant: agreement alone promotes.
Decrement_Early(v) ==
  /\ cycle[v].decrement > 0
  /\ left' = [left EXCEPT ![v] = Less(@)]
  /\ Decremented(v, Agreement(v))
  /\ UNCHANGED <<state, since, evidence, eval, faults>>

Decrement(v) ==
  /\ cycle[v].decrement > 0
  /\ left' = [left EXCEPT ![v] = Less(@)]
  /\ Decremented(v, left'[v] = 0 /\ Agreement(v))
  /\ UNCHANGED <<state, since, evidence, eval, faults>>

Promoted(v) == cycle' = [cycle EXCEPT ![v].promote = @ - 1]

PromoteFromShadow(v) ==
  /\ cycle[v].promote > 0 /\ Promoted(v)
  /\ UpdateState(v, "canary_10pct")
  /\ UNCHANGED <<evidence, eval, faults>>

\* A statement fails, or its answer is lost: the cycle raises.
CycleFails(v) ==
  /\ Fault
  /\ \/ /\ cycle[v].decrement > 0 /\ Decremented(v, FALSE)
        /\ left' = [left EXCEPT ![v] = Less(@)] \/ UNCHANGED left
        /\ UNCHANGED <<state, since>>
     \/ /\ cycle[v].promote > 0 /\ Promoted(v)
        /\ UpdateState(v, "canary_10pct") \/ UNCHANGED row
  /\ UNCHANGED <<evidence, eval>>

\* record_cycle_return, for a version that takes part in the analysis: fewer than
\* two returns say nothing; from the second on they look one way or the other.
RecordCycleReturn(v, looks) ==
  /\ state[v] \in Canary
  /\ returns' = [returns EXCEPT ![v] = looks] /\ returns' # returns
  /\ UNCHANGED <<row, history, cycle, eval, faults>>

-----------------------------------------------------------------------------
(* evaluate_all_canaries.                                                  *)

ListModels(e, s) ==
  eval' = [eval EXCEPT ![e] =
    [Idle("pick") EXCEPT !.list = s, !.queue = {v \in Versions : state[v] = s}]]

BeginEvaluation(e) ==
  /\ eval[e].pc \in {"idle", "raised"}
  /\ ListModels(e, "canary_10pct")
  /\ UNCHANGED <<row, evidence, cycle, faults>>

NextList(e) ==
  /\ eval[e].pc = "pick" /\ eval[e].queue = {}
  /\ IF eval[e].list = "canary_10pct" THEN ListModels(e, "canary_50pct")
     ELSE eval' = [eval EXCEPT ![e] = Idle("idle")]
  /\ UNCHANGED <<row, evidence, cycle, faults>>

\* _evaluate_and_transition, on the row as it is now.
NextStep(v) ==
  IF returns[v] = "few" THEN "pick"
  ELSE IF returns[v] = "poor" THEN "rollback"
  ELSE IF since[v] # "ripe" THEN "pick"
  ELSE IF state[v] = "canary_10pct" THEN "to50"
  ELSE IF state[v] = "canary_50pct" THEN "seat" ELSE "pick"

\* Mutant: time is looked at before performance.
NextStep_TimeFirst(v) ==
  IF returns[v] = "few" THEN "pick"
  ELSE IF since[v] = "ripe" THEN IF state[v] = "canary_10pct" THEN "to50" ELSE "seat"
  ELSE IF returns[v] = "poor" THEN "rollback" ELSE "pick"

Picked(e, v, pc) ==
  eval' = [eval EXCEPT ![e].queue = @ \ {v}, ![e].pc = pc,
                       ![e].of = IF pc = "pick" THEN Nobody ELSE v]

\* Mutant: a version that performs poorly waits for the end of its stay.
EvaluateCanary_Waits(e, v) ==
  /\ eval[e].pc = "pick" /\ v \in eval[e].queue
  /\ Picked(e, v, NextStep_TimeFirst(v))
  /\ UNCHANGED <<row, evidence, cycle, faults>>

EvaluateCanary(e, v) ==
  /\ eval[e].pc = "pick" /\ v \in eval[e].queue
  /\ Picked(e, v, NextStep(v))
  /\ UNCHANGED <<row, evidence, cycle, faults>>

Goto(e, pc) == eval' = [eval EXCEPT ![e].pc = pc]

\* The version is done with.
Return(e) == eval' = [eval EXCEPT ![e].pc = "pick", ![e].of = Nobody, ![e].live = Nobody]

\* The row, then the evidence of returns; the agreements are kept.
Rollback(e) ==
  /\ eval[e].pc = "rollback"
  /\ UpdateState(eval[e].of, "shadow")
  /\ returns' = [returns EXCEPT ![eval[e].of] = NoReturns]
  /\ Return(e)
  /\ UNCHANGED <<history, cycle, faults>>

PromoteTo50(e) ==
  /\ eval[e].pc = "to50"
  /\ UpdateState(eval[e].of, "canary_50pct")
  /\ Return(e)
  /\ UNCHANGED <<evidence, cycle, faults>>

\* get_live_model: the latest, if there are several.
Live == {v \in Versions : state[v] = "live"}

\* Mutant: the seat is taken without looking.
GetLive_Unseen(e) ==
  /\ eval[e].pc = "seat" /\ Goto(e, "golive")
  /\ UNCHANGED <<row, evidence, cycle, faults>>

GetLive(e) ==
  /\ eval[e].pc = "seat"
  /\ IF Live = {} THEN Goto(e, "golive")
     ELSE \E v \in Live : eval' = [eval EXCEPT ![e].pc = "retire", ![e].live = v]
  /\ UNCHANGED <<row, evidence, cycle, faults>>

RetireLive(e) ==
  /\ eval[e].pc = "retire"
  /\ UpdateState(eval[e].live, "retired")
  /\ Goto(e, "golive")
  /\ UNCHANGED <<evidence, cycle, faults>>

PromoteToLive(e) ==
  /\ eval[e].pc = "golive"
  /\ UpdateState(eval[e].of, "live")
  /\ Return(e)
  /\ UNCHANGED <<evidence, cycle, faults>>

\* A statement fails, or its answer is lost: evaluate_all_canaries raises.
Update(e) ==
  \/ eval[e].pc = "rollback" /\ UpdateState(eval[e].of, "shadow")
  \/ eval[e].pc = "to50" /\ UpdateState(eval[e].of, "canary_50pct")
  \/ eval[e].pc = "retire" /\ UpdateState(eval[e].live, "retired")
  \/ eval[e].pc = "golive" /\ UpdateState(eval[e].of, "live")

EvaluationFails(e) ==
  /\ eval[e].pc \notin {"idle", "raised"} /\ Fault
  /\ Update(e) \/ UNCHANGED row
  /\ eval' = [eval EXCEPT ![e] = Idle("raised")]
  /\ UNCHANGED <<evidence, cycle>>

\* The process restarts: the rows stay, the evidence is gone.
Restart ==
  /\ Fault
  /\ history' = [v \in Versions |-> NoHistory]
  /\ returns' = [v \in Versions |-> NoReturns]
  /\ cycle' = [v \in Versions |-> NoCycle]
  /\ eval' = [e \in Evaluators |-> Idle("raised")]
  /\ UNCHANGED row

-----------------------------------------------------------------------------
Evaluation(e) ==
  \/ NextList(e) \/ Rollback(e) \/ PromoteTo50(e) \/ GetLive(e) \/ RetireLive(e)
  \/ PromoteToLive(e) \/ \E v \in Versions : EvaluateCanary(e, v)

ShadowCycle(v) ==
  \/ \E agrees \in BOOLEAN : BeginShadowCycle(v, agrees)
  \/ Decrement(v) \/ PromoteFromShadow(v) \/ CycleFails(v)

Next ==
  \/ \E v \in Versions : RegisterModel(v) \/ ShadowCycle(v)
                         \/ \E looks \in {"fine", "poor"} : RecordCycleReturn(v, looks)
  \/ \E e \in Evaluators : BeginEvaluation(e) \/ Evaluation(e) \/ EvaluationFails(e)
  \/ DaysPass \/ Restart

\* An evaluation that has begun goes on; nothing makes anyone begin one.
Spec == Init /\ [][Next]_vars /\ \A e \in Evaluators : WF_vars(Evaluation(e))

-----------------------------------------------------------------------------
(* Properties.                                                             *)

\* With one evaluator at most one version is live, whatever fails between retiring
\* the last one and promoting the next (_retire_current_live, update_state).
OneLive == Cardinality(Live) <= 1

\* A version that takes part in the analysis, or has, served its shadow cycles.
ProvenInShadow ==
  \A v \in Versions : state[v] \in Canary \cup {"live", "retired"} => left[v] = 0

\* What model_registry.py:6-7 says of transitions, "atomic via PostgreSQL UPDATE with
\* WHERE guards": a version moves along the edges of its lifecycle only.  It does
\* not hold, since update_state asks for no state; no run relies on it.
Edges ==
  {<<"absent", "shadow">>, <<"shadow", "canary_10pct">>,
   <<"canary_10pct", "canary_50pct">>, <<"canary_50pct", "live">>,
   <<"live", "retired">>, <<"canary_10pct", "shadow">>, <<"canary_50pct", "shadow">>}
LifecycleEdges ==
  [][\A v \in Versions : state'[v] # state[v] => <<state[v], state'[v]>> \in Edges]_state

\* Rollback completes within the evaluation: a listed version that performs
\* poorly is sent back to shadow before the evaluation is over, unless its
\* returns recover or the evaluation raises.
Poor(v) == returns[v] = "poor"
RollbackCompletes ==
  \A e \in Evaluators, v \in Versions :
    (eval[e].pc = "pick" /\ v \in eval[e].queue /\ Poor(v))
      ~> (state[v] = "shadow" \/ ~Poor(v) \/ eval[e].pc = "raised")
=============================================================================
