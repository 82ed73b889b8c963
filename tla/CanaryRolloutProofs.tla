------------------------ MODULE CanaryRolloutProofs ------------------------
(***************************************************************************)
(* CanaryRollout for every set of versions and evaluators and every number *)
(* of shadow cycles: who takes part in the analysis was proven in shadow;  *)
(* and, as long as one evaluator runs, at most one version is live.        *)
(***************************************************************************)
EXTENDS CanaryRollout, FiniteSetTheorems, TLAPS

EvalRecords == [pc : EvalPcs, list : Canary \cup {"none"}, queue : SUBSET Versions,
                of : Versions \cup {Nobody}, live : Versions \cup {Nobody}]

\* An evaluation that is about to update a row.
Acting == {"rollback", "to50", "seat", "retire", "golive"}

\* It knows which row, and, to retire one, which that is (_evaluate_and_transition).
Aimed ==
  \A e \in Evaluators :
    /\ eval[e].pc \in Acting => eval[e].of \in Versions
    /\ eval[e].pc = "retire" => eval[e].live \in Versions

Typing == TypeOK /\ Aimed

\* Every version on its way into the analysis, or found there, has served its
\* shadow cycles (run_shadow_cycle, evaluate_all_canaries).
OnTheWay ==
  /\ \A v \in Versions : cycle[v].promote > 0 => left[v] = 0
  /\ \A e \in Evaluators :
       /\ \A v \in eval[e].queue : left[v] = 0
       /\ eval[e].pc \in Acting => left[eval[e].of] = 0
       /\ eval[e].pc = "retire" => left[eval[e].live] = 0

Proven == Typing /\ ProvenInShadow /\ OnTheWay

\* No two evaluations run at a time (the scheduler's one caller).
Alone == \A e, f \in Evaluators : e = f

\* What an evaluation that runs alone may rely on between its statements: nobody
\* else takes the seat of the live version.
Seated ==
  /\ \A u, v \in Live : u = v
  /\ \A e \in Evaluators :
       /\ eval[e].pc = "retire" => Live \subseteq {eval[e].live}
       /\ eval[e].pc = "golive" => Live = {}

-----------------------------------------------------------------------------
(* Types                                                                   *)

\* The evaluations are records of one kind (evaluate_all_canaries).
LEMMA EvalIsTyped == ASSUME TypeOK PROVE eval \in [Evaluators -> EvalRecords]
  BY DEF TypeOK, EvalRecords

\* A row that is updated keeps the types (update_state).
LEMMA UpdateIsTyped ==
  ASSUME TypeOK, NEW v \in Versions, NEW new \in States, UpdateState(v, new)
  PROVE  /\ state' \in [Versions -> States \cup {"absent"}]
         /\ left' \in [Versions -> 0..Required]
         /\ since' \in [Versions -> {"never", "fresh", "ripe"}]
         /\ state'[v] = new
         /\ \A u \in Versions \ {v} : state'[u] = state[u]
         /\ left' = left
<1>1. /\ state \in [Versions -> States \cup {"absent"}]
      /\ left \in [Versions -> 0..Required]
      /\ since \in [Versions -> {"never", "fresh", "ripe"}]
  BY DEF TypeOK
<1>2. state' \in [Versions -> States \cup {"absent"}]
  BY <1>1 DEF UpdateState
<1>3. since' \in [Versions -> {"never", "fresh", "ripe"}]
  BY <1>1 DEF UpdateState
<1> QED
  BY <1>1, <1>2, <1>3 DEF UpdateState

\* One evaluation that goes on leaves the others alone.
LEMMA EvalSet ==
  ASSUME TypeOK, NEW e \in Evaluators, NEW r \in EvalRecords, eval' = [eval EXCEPT ![e] = r]
  PROVE  /\ eval' \in [Evaluators -> EvalRecords]
         /\ eval'[e] = r
         /\ \A f \in Evaluators \ {e} : eval'[f] = eval[f]
  BY EvalIsTyped

\* What Goto leaves alone.
LEMMA GotoSets ==
  ASSUME TypeOK, NEW e \in Evaluators, NEW pc \in EvalPcs, Goto(e, pc)
  PROVE  /\ eval' \in [Evaluators -> EvalRecords]
         /\ eval'[e] = [eval[e] EXCEPT !.pc = pc]
         /\ \A f \in Evaluators \ {e} : eval'[f] = eval[f]
         /\ eval'[e].pc = pc /\ eval'[e].queue = eval[e].queue
         /\ eval'[e].of = eval[e].of /\ eval'[e].live = eval[e].live
         /\ eval'[e].list = eval[e].list
<1>1. eval \in [Evaluators -> EvalRecords]
  BY EvalIsTyped
<1>2. [eval[e] EXCEPT !.pc = pc] \in EvalRecords
  BY <1>1 DEF EvalRecords
<1>3. eval' = [eval EXCEPT ![e] = [eval[e] EXCEPT !.pc = pc]]
  BY DEF Goto
<1>4. eval'[e] = [eval[e] EXCEPT !.pc = pc] /\ \A f \in Evaluators \ {e} : eval'[f] = eval[f]
  BY <1>1, <1>3
<1>5. eval' \in [Evaluators -> EvalRecords]
  BY <1>1, <1>2, <1>3
<1>6. /\ [eval[e] EXCEPT !.pc = pc].queue = eval[e].queue
      /\ [eval[e] EXCEPT !.pc = pc].of = eval[e].of
      /\ [eval[e] EXCEPT !.pc = pc].live = eval[e].live
      /\ [eval[e] EXCEPT !.pc = pc].list = eval[e].list
      /\ [eval[e] EXCEPT !.pc = pc].pc = pc
  BY <1>1 DEF EvalRecords
<1> QED
  BY <1>4, <1>5, <1>6

\* What Return forgets (evaluate_canary).
LEMMA ReturnSets ==
  ASSUME TypeOK, NEW e \in Evaluators, Return(e)
  PROVE  /\ eval' \in [Evaluators -> EvalRecords]
         /\ eval'[e].pc = "pick" /\ eval'[e].queue = eval[e].queue
         /\ \A f \in Evaluators \ {e} : eval'[f] = eval[f]
<1> DEFINE r == [eval[e] EXCEPT !.pc = "pick", !.of = Nobody, !.live = Nobody]
<1>1. eval \in [Evaluators -> EvalRecords] /\ eval[e] \in EvalRecords
  BY EvalIsTyped
<1>2. r \in EvalRecords
  BY <1>1 DEF EvalRecords, EvalPcs
<1>3. r.pc = "pick" /\ r.queue = eval[e].queue
  BY <1>1 DEF EvalRecords
<1>4. eval' = [eval EXCEPT ![e] = r]
  BY <1>1 DEF Return
<1> QED
  BY <1>2, <1>3, <1>4, EvalSet

\* The versions in a state are listed anew (list_models).
LEMMA ListSets ==
  ASSUME TypeOK, NEW e \in Evaluators, NEW s \in Canary, ListModels(e, s)
  PROVE  /\ eval' \in [Evaluators -> EvalRecords]
         /\ eval'[e].pc = "pick" /\ eval'[e].list = s
         /\ eval'[e].queue = {v \in Versions : state[v] = s}
         /\ \A f \in Evaluators \ {e} : eval'[f] = eval[f]
<1> DEFINE r == [Idle("pick") EXCEPT !.list = s, !.queue = {v \in Versions : state[v] = s}]
<1>1. Idle("pick") \in EvalRecords
  BY DEF Idle, EvalRecords, EvalPcs
<1>2. r \in EvalRecords
  BY <1>1 DEF EvalRecords
<1>3. r.pc = "pick" /\ r.list = s /\ r.queue = {v \in Versions : state[v] = s}
  BY DEF Idle
<1>4. eval' = [eval EXCEPT ![e] = r]
  BY DEF ListModels
<1> QED
  BY <1>2, <1>3, <1>4, EvalSet

\* A listed version is taken off the queue (_evaluate_and_transition).
LEMMA PickSets ==
  ASSUME TypeOK, NEW e \in Evaluators, NEW v \in Versions, EvaluateCanary(e, v)
  PROVE  /\ eval' \in [Evaluators -> EvalRecords]
         /\ eval'[e].pc = NextStep(v) /\ (NextStep(v) # "pick" => eval'[e].of = v)
         /\ eval'[e].queue = eval[e].queue \ {v}
         /\ \A f \in Evaluators \ {e} : eval'[f] = eval[f]
<1> DEFINE of == IF NextStep(v) = "pick" THEN Nobody ELSE v
           r == [eval[e] EXCEPT !.queue = eval[e].queue \ {v}, !.pc = NextStep(v), !.of = of]
<1>1. eval \in [Evaluators -> EvalRecords] /\ eval[e] \in EvalRecords
  BY EvalIsTyped
<1>2. NextStep(v) \in EvalPcs
  BY DEF NextStep, EvalPcs
<1>3. r \in EvalRecords
  BY <1>1, <1>2 DEF EvalRecords
<1>4. r.pc = NextStep(v) /\ r.of = of /\ r.queue = eval[e].queue \ {v}
  BY <1>1 DEF EvalRecords
<1>5. eval' = [eval EXCEPT ![e] = r]
  BY <1>1 DEF EvaluateCanary, Picked
<1> QED
  BY <1>3, <1>4, <1>5, EvalSet

\* Whom to retire is looked up (get_live_model).
LEMMA SeatSets ==
  ASSUME TypeOK, NEW e \in Evaluators, NEW v \in Versions,
         eval' = [eval EXCEPT ![e].pc = "retire", ![e].live = v]
  PROVE  /\ eval' \in [Evaluators -> EvalRecords]
         /\ eval'[e].pc = "retire" /\ eval'[e].live = v
         /\ eval'[e].list = eval[e].list /\ eval'[e].of = eval[e].of
         /\ eval'[e].queue = eval[e].queue
         /\ \A f \in Evaluators \ {e} : eval'[f] = eval[f]
<1> DEFINE r == [eval[e] EXCEPT !.pc = "retire", !.live = v]
<1>1. eval \in [Evaluators -> EvalRecords] /\ eval[e] \in EvalRecords
  BY EvalIsTyped
<1>2. r \in EvalRecords
  BY <1>1 DEF EvalRecords, EvalPcs
<1>3. /\ r.pc = "retire" /\ r.live = v /\ r.list = eval[e].list
      /\ r.of = eval[e].of /\ r.queue = eval[e].queue
  BY <1>1 DEF EvalRecords
<1>4. eval' = [eval EXCEPT ![e] = r]
  BY <1>1
<1> QED
  BY <1>2, <1>3, <1>4, EvalSet

\* An evaluation that ends, or is lost, knows nothing any more.
LEMMA IdleSets ==
  ASSUME TypeOK, NEW e \in Evaluators, NEW pc \in {"idle", "raised"},
         eval' = [eval EXCEPT ![e] = Idle(pc)]
  PROVE  /\ eval' \in [Evaluators -> EvalRecords]
         /\ eval'[e].pc = pc /\ eval'[e].queue = {}
         /\ \A f \in Evaluators \ {e} : eval'[f] = eval[f]
<1>1. Idle(pc) \in EvalRecords
  BY DEF Idle, EvalRecords, EvalPcs
<1>2. Idle(pc).pc = pc /\ Idle(pc).queue = {}
  BY DEF Idle
<1> QED
  BY <1>1, <1>2, EvalSet

\* The parts of the type invariant put together.
LEMMA TypesTogether ==
  ASSUME state' \in [Versions -> States \cup {"absent"}],
         left' \in [Versions -> 0..Required],
         since' \in [Versions -> {"never", "fresh", "ripe"}],
         history' \in [Versions -> [yes : 0..MaxHistory, no : 0..MaxHistory]],
         returns' \in [Versions -> {"few", "fine", "poor"}],
         cycle' \in [Versions -> [decrement : Nat, promote : Nat]],
         eval' \in [Evaluators -> EvalRecords],
         faults' \in 0..MaxFaults
  PROVE  TypeOK'
  BY DEF TypeOK, EvalRecords

-----------------------------------------------------------------------------
(* Who takes part was proven in shadow                                     *)

\* One evaluation goes on and the others, the cycles and the counters stay: what
\* holds of its aim afterwards holds of all.
LEMMA EvaluationGoesOn ==
  ASSUME Proven, NEW e \in Evaluators,
         \A f \in Evaluators \ {e} : eval'[f] = eval[f],
         left' = left, cycle' = cycle,
         \A v \in eval'[e].queue : left[v] = 0,
         eval'[e].pc \in Acting => eval'[e].of \in Versions /\ left[eval'[e].of] = 0,
         eval'[e].pc = "retire" => eval'[e].live \in Versions /\ left[eval'[e].live] = 0
  PROVE  Aimed' /\ OnTheWay'
<1>1. ASSUME NEW f \in Evaluators
      PROVE  /\ \A v \in eval'[f].queue : left'[v] = 0
             /\ eval'[f].pc \in Acting => eval'[f].of \in Versions /\ left'[eval'[f].of] = 0
             /\ eval'[f].pc = "retire" => eval'[f].live \in Versions /\ left'[eval'[f].live] = 0
  <2>1. CASE f = e
    BY <2>1
  <2>2. CASE f # e
    BY <2>2 DEF Proven, Typing, Aimed, OnTheWay
  <2> QED
    BY <2>1, <2>2
<1>2. \A v \in Versions : cycle'[v].promote > 0 => left'[v] = 0
  BY DEF Proven, OnTheWay
<1> QED
  BY <1>1, <1>2 DEF Aimed, OnTheWay

\* What a version that served its cycles becomes, and what goes back to shadow, is
\* in order (update_state).
LEMMA UpdateServes ==
  ASSUME Proven, NEW v \in Versions, NEW new \in States, UpdateState(v, new),
         left[v] = 0 \/ new = "shadow"
  PROVE  ProvenInShadow'
<1>1. /\ state'[v] = new /\ left' = left
      /\ \A u \in Versions \ {v} : state'[u] = state[u]
  BY UpdateIsTyped DEF Proven, Typing
<1>2. ASSUME NEW u \in Versions, state'[u] \in Canary \cup {"live", "retired"}
      PROVE  left'[u] = 0
  <2>1. CASE u = v
    BY <1>1, <1>2, <2>1 DEF Canary
  <2>2. CASE u # v
    BY <1>1, <1>2, <2>2 DEF Proven, ProvenInShadow
  <2> QED
    BY <2>1, <2>2
<1> QED
  BY <1>2 DEF ProvenInShadow

\* The updates of an evaluation, sent in time or not (evaluate_all_canaries).
LEMMA EvaluatorServes ==
  ASSUME Proven, NEW e \in Evaluators, Update(e)
  PROVE  /\ ProvenInShadow'
         /\ state' \in [Versions -> States \cup {"absent"}]
         /\ since' \in [Versions -> {"never", "fresh", "ripe"}]
         /\ left' = left
<1> DEFINE of == eval[e].of
           live == eval[e].live
<1>1. eval[e].pc \in Acting => of \in Versions /\ left[of] = 0
  BY DEF Proven, Typing, Aimed, OnTheWay
<1>2. eval[e].pc = "retire" => live \in Versions /\ left[live] = 0
  BY DEF Proven, Typing, Aimed, OnTheWay
<1>3. \E v \in Versions, new \in States :
        UpdateState(v, new) /\ (left[v] = 0 \/ new = "shadow")
  BY <1>1, <1>2 DEF Update, Acting, States, Canary
<1>4. TypeOK
  BY DEF Proven, Typing
<1> QED
  BY <1>3, <1>4, UpdateServes, UpdateIsTyped

\* A step of an evaluation (evaluate_all_canaries, _evaluate_and_transition).
LEMMA EvaluationServes ==
  ASSUME Proven, NEW e \in Evaluators, BeginEvaluation(e) \/ Evaluation(e)
  PROVE  Proven'
<1>1. TypeOK /\ ProvenInShadow /\ eval \in [Evaluators -> EvalRecords]
  BY EvalIsTyped DEF Proven, Typing
<1>2. /\ \A v \in eval[e].queue : left[v] = 0
      /\ eval[e].pc \in Acting => eval[e].of \in Versions /\ left[eval[e].of] = 0
      /\ eval[e].pc = "retire" => eval[e].live \in Versions /\ left[eval[e].live] = 0
  BY DEF Proven, Typing, Aimed, OnTheWay
<1>3. UNCHANGED <<history, cycle, faults>>
  BY DEF BeginEvaluation, Evaluation, NextList, Rollback, PromoteTo50, GetLive, RetireLive,
         PromoteToLive, EvaluateCanary, evidence
<1>4. returns' \in [Versions -> {"few", "fine", "poor"}]
  <2>1. returns \in [Versions -> {"few", "fine", "poor"}]
    BY <1>1 DEF TypeOK
  <2>2. CASE Rollback(e)
    <3>1. NoReturns \in {"few", "fine", "poor"}
      BY DEF NoReturns
    <3>2. returns' = [returns EXCEPT ![eval[e].of] = NoReturns]
      BY <2>2 DEF Rollback
    <3> QED
      BY <2>1, <3>1, <3>2
  <2>3. CASE ~Rollback(e)
    BY <2>1, <2>3 DEF BeginEvaluation, Evaluation, NextList, PromoteTo50, GetLive, RetireLive,
                      PromoteToLive, EvaluateCanary, evidence
  <2> QED
    BY <2>2, <2>3
<1>5. ASSUME eval' \in [Evaluators -> EvalRecords], Aimed', OnTheWay', ProvenInShadow',
             state' \in [Versions -> States \cup {"absent"}],
             since' \in [Versions -> {"never", "fresh", "ripe"}], left' = left
      PROVE  Proven'
  <2>1. /\ history' \in [Versions -> [yes : 0..MaxHistory, no : 0..MaxHistory]]
        /\ cycle' \in [Versions -> [decrement : Nat, promote : Nat]]
        /\ faults' \in 0..MaxFaults /\ left' \in [Versions -> 0..Required]
    BY <1>1, <1>3, <1>5 DEF TypeOK
  <2> QED
    BY <1>4, <1>5, <2>1, TypesTogether DEF Proven, Typing
<1>6. ASSUME UNCHANGED row
      PROVE  /\ ProvenInShadow' /\ left' = left
             /\ state' \in [Versions -> States \cup {"absent"}]
             /\ since' \in [Versions -> {"never", "fresh", "ripe"}]
  BY <1>1, <1>6 DEF TypeOK, row, ProvenInShadow
<1>7. ASSUME NEW s \in Canary, ListModels(e, s), UNCHANGED row PROVE Proven'
  <2>1. \A v \in eval'[e].queue : left[v] = 0
    BY <1>1, <1>7, ListSets DEF ProvenInShadow
  <2>2. eval'[e].pc \notin Acting
    BY <1>1, <1>7, ListSets DEF Acting
  <2>3. /\ eval' \in [Evaluators -> EvalRecords]
        /\ \A f \in Evaluators \ {e} : eval'[f] = eval[f]
    BY <1>1, <1>7, ListSets
  <2>4. Aimed' /\ OnTheWay'
    BY <1>3, <1>6, <1>7, <2>1, <2>2, <2>3, EvaluationGoesOn DEF Acting
  <2> QED
    BY <1>5, <1>6, <1>7, <2>3, <2>4
<1>8. CASE BeginEvaluation(e)
  BY <1>7, <1>8 DEF BeginEvaluation, Canary
<1>9. CASE NextList(e)
  <2>1. CASE eval[e].list = "canary_10pct"
    BY <1>7, <1>9, <2>1 DEF NextList, Canary
  <2>2. CASE eval[e].list # "canary_10pct"
    <3>1. eval' = [eval EXCEPT ![e] = Idle("idle")] /\ UNCHANGED row
      BY <1>9, <2>2 DEF NextList
    <3>2. /\ eval' \in [Evaluators -> EvalRecords]
          /\ eval'[e].pc = "idle" /\ eval'[e].queue = {}
          /\ \A f \in Evaluators \ {e} : eval'[f] = eval[f]
      BY <1>1, <3>1, IdleSets
    <3>3. Aimed' /\ OnTheWay'
      BY <1>3, <1>6, <3>1, <3>2, EvaluationGoesOn DEF Acting
    <3> QED
      BY <1>5, <1>6, <3>1, <3>2, <3>3
  <2> QED
    BY <2>1, <2>2
<1>10. CASE \E v \in Versions : EvaluateCanary(e, v)
  <2>1. PICK v \in Versions : EvaluateCanary(e, v)
    BY <1>10
  <2>2. v \in eval[e].queue /\ UNCHANGED row
    BY <2>1 DEF EvaluateCanary
  <2>3. NextStep(v) # "retire"
    BY DEF NextStep
  <2>4. /\ eval' \in [Evaluators -> EvalRecords]
        /\ eval'[e].pc = NextStep(v) /\ (NextStep(v) # "pick" => eval'[e].of = v)
        /\ eval'[e].queue = eval[e].queue \ {v}
        /\ \A f \in Evaluators \ {e} : eval'[f] = eval[f]
    BY <1>1, <2>1, PickSets
  <2>5. Aimed' /\ OnTheWay'
    BY <1>2, <1>3, <1>6, <2>2, <2>3, <2>4, EvaluationGoesOn DEF Acting
  <2> QED
    BY <1>5, <1>6, <2>2, <2>4, <2>5
<1>11. CASE GetLive(e)
  <2>1. UNCHANGED row /\ eval[e].pc = "seat"
    BY <1>11 DEF GetLive
  <2>2. eval[e].of \in Versions /\ left[eval[e].of] = 0
    BY <1>2, <2>1 DEF Acting
  <2>3. CASE Goto(e, "golive")
    <3>1. "golive" \in EvalPcs
      BY DEF EvalPcs
    <3>2. /\ eval' \in [Evaluators -> EvalRecords]
          /\ eval'[e].pc = "golive" /\ eval'[e].queue = eval[e].queue
          /\ eval'[e].of = eval[e].of
          /\ \A f \in Evaluators \ {e} : eval'[f] = eval[f]
      BY <1>1, <2>3, <3>1, GotoSets
    <3>3. Aimed' /\ OnTheWay'
      BY <1>2, <1>3, <1>6, <2>1, <2>2, <3>2, EvaluationGoesOn
    <3> QED
      BY <1>5, <1>6, <2>1, <3>2, <3>3
  <2>4. CASE \E v \in Live : eval' = [eval EXCEPT ![e].pc = "retire", ![e].live = v]
    <3>1. PICK v \in Live : eval' = [eval EXCEPT ![e].pc = "retire", ![e].live = v]
      BY <2>4
    <3>2. v \in Versions /\ left[v] = 0
      BY <1>1 DEF Live, ProvenInShadow
    <3>3. /\ eval' \in [Evaluators -> EvalRecords]
          /\ eval'[e].live = v /\ eval'[e].queue = eval[e].queue
          /\ eval'[e].of = eval[e].of
          /\ \A f \in Evaluators \ {e} : eval'[f] = eval[f]
      BY <1>1, <3>1, <3>2, SeatSets
    <3>4. Aimed' /\ OnTheWay'
      BY <1>2, <1>3, <1>6, <2>1, <2>2, <3>2, <3>3, EvaluationGoesOn
    <3> QED
      BY <1>5, <1>6, <2>1, <3>3, <3>4
  <2> QED
    BY <1>11, <2>3, <2>4 DEF GetLive
<1>12. CASE Rollback(e) \/ PromoteTo50(e) \/ RetireLive(e) \/ PromoteToLive(e)
  <2>1. Update(e) /\ eval[e].pc \in Acting
    BY <1>12 DEF Rollback, PromoteTo50, RetireLive, PromoteToLive, Update, Acting
  <2>2. Return(e) \/ (Goto(e, "golive") /\ RetireLive(e))
    BY <1>12 DEF Rollback, PromoteTo50, RetireLive, PromoteToLive
  <2>3. /\ ProvenInShadow' /\ left' = left
        /\ state' \in [Versions -> States \cup {"absent"}]
        /\ since' \in [Versions -> {"never", "fresh", "ripe"}]
    BY <2>1, EvaluatorServes
  <2>4. "golive" \in EvalPcs
    BY DEF EvalPcs
  <2>5. /\ eval' \in [Evaluators -> EvalRecords]
        /\ eval'[e].queue = eval[e].queue
        /\ eval'[e].pc = "pick" \/ (eval'[e].pc = "golive" /\ eval'[e].of = eval[e].of)
        /\ \A f \in Evaluators \ {e} : eval'[f] = eval[f]
    BY <1>1, <2>2, <2>4, GotoSets, ReturnSets
  <2>6. Aimed' /\ OnTheWay'
    BY <1>2, <1>3, <2>1, <2>3, <2>5, EvaluationGoesOn DEF Acting
  <2> QED
    BY <1>5, <2>3, <2>5, <2>6
<1> QED
  BY <1>8, <1>9, <1>10, <1>11, <1>12 DEF Evaluation

\* A shadow cycle, its failure, a registration, a recorded return, time: the left
\* cycles only become fewer (RegisterModel, run_shadow_cycle, record_cycle_return).
LEMMA OthersServe ==
  ASSUME Proven, eval' = eval,
         state' \in [Versions -> States \cup {"absent"}],
         left' \in [Versions -> 0..Required],
         since' \in [Versions -> {"never", "fresh", "ripe"}],
         history' \in [Versions -> [yes : 0..MaxHistory, no : 0..MaxHistory]],
         returns' \in [Versions -> {"few", "fine", "poor"}],
         cycle' \in [Versions -> [decrement : Nat, promote : Nat]],
         faults' \in 0..MaxFaults,
         ProvenInShadow',
         \A v \in Versions : left[v] = 0 => left'[v] = 0,
         \A v \in Versions : cycle'[v].promote > 0 => left'[v] = 0
  PROVE  Proven'
<1>1. eval' \in [Evaluators -> EvalRecords]
  BY EvalIsTyped DEF Proven, Typing
<1>2. TypeOK'
  BY <1>1, TypesTogether
<1>3. Aimed'
  BY DEF Proven, Typing, Aimed
<1>4. \A e \in Evaluators : eval[e].queue \subseteq Versions
  BY EvalIsTyped DEF Proven, Typing, EvalRecords
<1>5. OnTheWay'
  BY <1>4 DEF Proven, Typing, Aimed, OnTheWay, Acting
<1> QED
  BY <1>2, <1>3, <1>5 DEF Proven, Typing

\* A comparison, one cycle less, the promotion (run_shadow_cycle).
LEMMA ShadowCycleServes == ASSUME Proven, NEW v \in Versions, ShadowCycle(v) PROVE Proven'
<1> USE CanaryAssumption
<1>1. TypeOK /\ ProvenInShadow /\ OnTheWay
  BY DEF Proven, Typing
<1>2. /\ state \in [Versions -> States \cup {"absent"}]
      /\ left \in [Versions -> 0..Required]
      /\ since \in [Versions -> {"never", "fresh", "ripe"}]
      /\ history \in [Versions -> [yes : 0..MaxHistory, no : 0..MaxHistory]]
      /\ returns \in [Versions -> {"few", "fine", "poor"}]
      /\ cycle \in [Versions -> [decrement : Nat, promote : Nat]]
      /\ faults \in 0..MaxFaults
  BY <1>1 DEF TypeOK
<1>3. UNCHANGED <<returns, eval>> /\ returns' \in [Versions -> {"few", "fine", "poor"}]
  BY <1>2 DEF ShadowCycle, BeginShadowCycle, Decrement, PromoteFromShadow, CycleFails, evidence
<1>4. CASE \E agrees \in BOOLEAN : BeginShadowCycle(v, agrees)
  <2>1. PICK agrees \in BOOLEAN : BeginShadowCycle(v, agrees)
    BY <1>4
  <2>2. history[v].yes + history[v].no < MaxHistory
    BY <2>1 DEF BeginShadowCycle, Comparisons
  <2> DEFINE yes == IF agrees THEN history[v].yes + 1 ELSE history[v].yes
             no == IF agrees THEN history[v].no ELSE history[v].no + 1
  <2>3. history' = [history EXCEPT ![v] = [yes |-> yes, no |-> no]]
    BY <2>1 DEF BeginShadowCycle
  <2>4. history' \in [Versions -> [yes : 0..MaxHistory, no : 0..MaxHistory]]
    <3>1. history[v].yes \in 0..MaxHistory /\ history[v].no \in 0..MaxHistory
      BY <1>2
    <3>2. yes \in 0..MaxHistory /\ no \in 0..MaxHistory
      BY <2>2, <3>1
    <3> HIDE DEF yes, no
    <3> QED
      BY <1>2, <2>3, <3>2
  <2>5. /\ UNCHANGED <<state, left, since, faults>>
        /\ cycle' = [cycle EXCEPT ![v].decrement = @ + 1]
    BY <2>1 DEF BeginShadowCycle, row
  <2>6. /\ cycle' \in [Versions -> [decrement : Nat, promote : Nat]]
        /\ \A u \in Versions : cycle'[u].promote = cycle[u].promote
    BY <1>2, <2>5
  <2>7. ProvenInShadow' /\ \A u \in Versions : cycle'[u].promote > 0 => left'[u] = 0
    BY <1>1, <2>5, <2>6 DEF ProvenInShadow, OnTheWay
  <2> QED
    BY <1>2, <1>3, <2>4, <2>5, <2>6, <2>7, OthersServe
<1>5. ASSUME NEW may \in BOOLEAN, may => left'[v] = 0, cycle[v].decrement > 0,
             Decremented(v, may), UNCHANGED <<state, since, history>>, faults' \in 0..MaxFaults,
             left' = [left EXCEPT ![v] = Less(@)] \/ UNCHANGED left
      PROVE  Proven'
  <2>1. left[v] \in 0..Required /\ Less(left[v]) \in 0..Required /\ (left[v] = 0 => Less(left[v]) = 0)
    BY <1>2 DEF Less
  <2>2. left' \in [Versions -> 0..Required] /\ \A u \in Versions : left[u] = 0 => left'[u] = 0
    BY <1>2, <1>5, <2>1
  <2> DEFINE c == [decrement |-> cycle[v].decrement - 1,
                   promote |-> IF may THEN cycle[v].promote + 1 ELSE cycle[v].promote]
  <2>3. c \in [decrement : Nat, promote : Nat] /\ (c.promote > 0 => may \/ cycle[v].promote > 0)
    BY <1>2, <1>5
  <2>4. cycle' = [cycle EXCEPT ![v] = c]
    BY <1>5 DEF Decremented
  <2> HIDE DEF c
  <2>5. /\ cycle' \in [Versions -> [decrement : Nat, promote : Nat]]
        /\ \A u \in Versions : cycle'[u] = IF u = v THEN c ELSE cycle[u]
    BY <1>2, <2>3, <2>4
  <2>6. \A u \in Versions : cycle'[u].promote > 0 => left'[u] = 0
    BY <1>1, <1>5, <2>2, <2>3, <2>5 DEF OnTheWay
  <2>7. ProvenInShadow'
    BY <1>1, <1>5, <2>2 DEF ProvenInShadow
  <2> QED
    BY <1>2, <1>3, <1>5, <2>2, <2>5, <2>6, <2>7, OthersServe
<1>6. ASSUME cycle[v].promote > 0, Promoted(v), UpdateState(v, "canary_10pct") \/ UNCHANGED row,
             faults' \in 0..MaxFaults, UNCHANGED history
      PROVE  Proven'
  <2>1. "canary_10pct" \in States /\ left[v] = 0
    BY <1>1, <1>6 DEF States, Canary, OnTheWay
  <2>2. /\ ProvenInShadow' /\ left' = left
        /\ state' \in [Versions -> States \cup {"absent"}]
        /\ since' \in [Versions -> {"never", "fresh", "ripe"}]
    <3>1. CASE UpdateState(v, "canary_10pct")
      BY <1>1, <2>1, <3>1, UpdateServes, UpdateIsTyped
    <3>2. CASE UNCHANGED row
      BY <1>1, <1>2, <3>2 DEF ProvenInShadow, row
    <3> QED
      BY <1>6, <3>1, <3>2
  <2>3. cycle' = [cycle EXCEPT ![v].promote = @ - 1]
    BY <1>6 DEF Promoted
  <2>4. /\ cycle' \in [Versions -> [decrement : Nat, promote : Nat]]
        /\ \A u \in Versions : cycle'[u].promote > 0 => cycle[u].promote > 0
    BY <1>2, <1>6, <2>3
  <2>5. \A u \in Versions : cycle'[u].promote > 0 => left'[u] = 0
    BY <1>1, <2>2, <2>4 DEF OnTheWay
  <2> QED
    BY <1>2, <1>3, <1>6, <2>2, <2>4, <2>5, OthersServe
<1>7. CASE PromoteFromShadow(v)
  BY <1>2, <1>6, <1>7 DEF PromoteFromShadow, evidence
<1>8. CASE Decrement(v)
  BY <1>2, <1>5, <1>8 DEF Decrement, evidence
<1>9. CASE CycleFails(v)
  <2>1. faults' \in 0..MaxFaults /\ UNCHANGED history
    BY <1>2, <1>9 DEF CycleFails, Fault, evidence
  <2> QED
    BY <1>5, <1>6, <1>9, <2>1 DEF CycleFails
<1> QED
  BY <1>4, <1>7, <1>8, <1>9 DEF ShadowCycle

\* Types, and the evidence of whoever takes part, hold throughout.
LEMMA ProvenHolds == Spec => []Proven
<1> USE CanaryAssumption
<1>1. Init => Proven
  <2> SUFFICES ASSUME Init PROVE Proven
    OBVIOUS
  <2>1. NoHistory \in [yes : 0..MaxHistory, no : 0..MaxHistory]
    BY DEF NoHistory
  <2>2. NoReturns \in {"few", "fine", "poor"} /\ NoCycle \in [decrement : Nat, promote : Nat]
    BY DEF NoReturns, NoCycle
  <2>3. Idle("idle") \in EvalRecords /\ Idle("idle").queue = {} /\ Idle("idle").pc = "idle"
    BY DEF Idle, EvalRecords, EvalPcs
  <2>4. /\ eval \in [Evaluators -> EvalRecords]
        /\ \A e \in Evaluators : eval[e].queue = {} /\ eval[e].pc = "idle"
    BY <2>3 DEF Init
  <2>5. TypeOK
    <3>1. state \in [Versions -> States \cup {"absent"}] /\ left \in [Versions -> 0..Required]
      BY DEF Init
    <3>2. since \in [Versions -> {"never", "fresh", "ripe"}]
      BY DEF Init
    <3>3. history \in [Versions -> [yes : 0..MaxHistory, no : 0..MaxHistory]]
      BY <2>1 DEF Init
    <3>4. /\ returns \in [Versions -> {"few", "fine", "poor"}]
          /\ cycle \in [Versions -> [decrement : Nat, promote : Nat]]
      BY <2>2 DEF Init
    <3>5. faults \in 0..MaxFaults
      BY DEF Init
    <3> QED
      BY <2>4, <3>1, <3>2, <3>3, <3>4, <3>5 DEF TypeOK, EvalRecords
  <2>6. Aimed /\ OnTheWay /\ ProvenInShadow
    BY <2>4 DEF Init, Aimed, OnTheWay, ProvenInShadow, Acting, Canary, NoCycle
  <2> QED
    BY <2>5, <2>6 DEF Proven, Typing
<1>2. Proven /\ [Next]_vars => Proven'
  <2> SUFFICES ASSUME Proven, [Next]_vars PROVE Proven'
    OBVIOUS
  <2>1. TypeOK /\ ProvenInShadow /\ OnTheWay
    BY DEF Proven, Typing
  <2>2. /\ state \in [Versions -> States \cup {"absent"}]
        /\ left \in [Versions -> 0..Required]
        /\ since \in [Versions -> {"never", "fresh", "ripe"}]
        /\ history \in [Versions -> [yes : 0..MaxHistory, no : 0..MaxHistory]]
        /\ returns \in [Versions -> {"few", "fine", "poor"}]
        /\ cycle \in [Versions -> [decrement : Nat, promote : Nat]]
        /\ faults \in 0..MaxFaults
    BY <2>1 DEF TypeOK
  <2>3. CASE UNCHANGED vars
    BY <2>1, <2>2, <2>3, OthersServe DEF vars, row, evidence, OnTheWay, ProvenInShadow
  <2>4. ASSUME NEW v \in Versions, RegisterModel(v) PROVE Proven'
    <3>1. /\ state' = [state EXCEPT ![v] = "shadow"]
          /\ UNCHANGED <<left, since, history, returns, cycle, eval, faults>>
      BY <2>4 DEF RegisterModel, evidence
    <3>2. state' \in [Versions -> States \cup {"absent"}]
      BY <2>2, <3>1 DEF States
    <3>3. ProvenInShadow'
      BY <2>1, <2>2, <3>1 DEF ProvenInShadow, Canary
    <3> QED
      BY <2>1, <2>2, <3>1, <3>2, <3>3, OthersServe DEF OnTheWay
  <2>5. ASSUME NEW v \in Versions, ShadowCycle(v) PROVE Proven'
    BY <2>5, ShadowCycleServes
  <2>6. ASSUME NEW v \in Versions, NEW looks \in {"fine", "poor"}, RecordCycleReturn(v, looks)
        PROVE  Proven'
    <3>1. /\ returns' = [returns EXCEPT ![v] = looks]
          /\ UNCHANGED <<state, left, since, history, cycle, eval, faults>>
      BY <2>6 DEF RecordCycleReturn, row
    <3>2. returns' \in [Versions -> {"few", "fine", "poor"}]
      BY <2>2, <3>1
    <3>3. ProvenInShadow'
      BY <2>1, <3>1 DEF ProvenInShadow
    <3> QED
      BY <2>1, <2>2, <3>1, <3>2, <3>3, OthersServe DEF OnTheWay
  <2>7. ASSUME NEW e \in Evaluators, BeginEvaluation(e) \/ Evaluation(e) PROVE Proven'
    BY <2>7, EvaluationServes
  <2>8. ASSUME NEW e \in Evaluators, EvaluationFails(e) PROVE Proven'
    <3>1. /\ eval' = [eval EXCEPT ![e] = Idle("raised")]
          /\ UNCHANGED <<history, returns, cycle>> /\ faults' \in 0..MaxFaults
      BY <2>2, <2>8 DEF EvaluationFails, Fault, evidence
    <3>2. /\ ProvenInShadow' /\ left' = left
          /\ state' \in [Versions -> States \cup {"absent"}]
          /\ since' \in [Versions -> {"never", "fresh", "ripe"}]
      <4>1. CASE Update(e)
        BY <4>1, EvaluatorServes
      <4>2. CASE UNCHANGED row
        BY <2>1, <2>2, <4>2 DEF row, ProvenInShadow
      <4> QED
        BY <2>8, <4>1, <4>2 DEF EvaluationFails
    <3>3. /\ eval' \in [Evaluators -> EvalRecords]
          /\ eval'[e].pc = "raised" /\ eval'[e].queue = {}
          /\ \A f \in Evaluators \ {e} : eval'[f] = eval[f]
      BY <2>1, <3>1, IdleSets
    <3>4. Aimed' /\ OnTheWay'
      BY <3>1, <3>2, <3>3, EvaluationGoesOn DEF Acting
    <3>5. TypeOK'
      BY <2>2, <3>1, <3>2, <3>3, TypesTogether
    <3> QED
      BY <3>2, <3>4, <3>5 DEF Proven, Typing
  <2>9. CASE DaysPass
    <3>1. /\ since' = [v \in Versions |-> IF since[v] = "fresh" THEN "ripe" ELSE since[v]]
          /\ UNCHANGED <<state, left, history, returns, cycle, eval, faults>>
      BY <2>9 DEF DaysPass, evidence
    <3>2. since' \in [Versions -> {"never", "fresh", "ripe"}]
      BY <2>2, <3>1
    <3>3. ProvenInShadow'
      BY <2>1, <3>1 DEF ProvenInShadow
    <3> QED
      BY <2>1, <2>2, <3>1, <3>2, <3>3, OthersServe DEF OnTheWay
  <2>10. CASE Restart
    <3>1. /\ UNCHANGED <<state, left, since>> /\ faults' \in 0..MaxFaults
          /\ cycle' = [v \in Versions |-> NoCycle]
          /\ history' = [v \in Versions |-> NoHistory]
          /\ returns' = [v \in Versions |-> NoReturns]
          /\ eval' = [e \in Evaluators |-> Idle("raised")]
      BY <2>2, <2>10 DEF Restart, Fault, row
    <3>2. Idle("raised") \in EvalRecords /\ Idle("raised").queue = {} /\ Idle("raised").pc = "raised"
      BY DEF Idle, EvalRecords, EvalPcs
    <3>3. /\ eval' \in [Evaluators -> EvalRecords]
          /\ \A e \in Evaluators : eval'[e].queue = {} /\ eval'[e].pc = "raised"
      BY <3>1, <3>2
    <3>4. /\ history' \in [Versions -> [yes : 0..MaxHistory, no : 0..MaxHistory]]
          /\ returns' \in [Versions -> {"few", "fine", "poor"}]
          /\ cycle' \in [Versions -> [decrement : Nat, promote : Nat]]
      <4>1. NoHistory \in [yes : 0..MaxHistory, no : 0..MaxHistory]
        BY DEF NoHistory
      <4>2. NoReturns \in {"few", "fine", "poor"} /\ NoCycle \in [decrement : Nat, promote : Nat]
        BY DEF NoReturns, NoCycle
      <4> QED
        BY <3>1, <4>1, <4>2
    <3>5. TypeOK'
      BY <2>2, <3>1, <3>3, <3>4, TypesTogether
    <3>6. ProvenInShadow' /\ Aimed' /\ OnTheWay'
      BY <2>1, <3>1, <3>3 DEF ProvenInShadow, Aimed, OnTheWay, Acting, NoCycle
    <3> QED
      BY <3>5, <3>6 DEF Proven, Typing
  <2> QED
    BY <2>3, <2>4, <2>5, <2>6, <2>7, <2>8, <2>9, <2>10 DEF Next
<1> QED
  BY <1>1, <1>2, PTL DEF Spec

\* Every row, score and evaluation keeps its type (ml_model_registry).
THEOREM TypeCorrect == Spec => []TypeOK
  BY ProvenHolds, PTL DEF Proven, Typing

\* With any number of evaluators, and whatever fails or restarts, no version takes
\* part in the analysis before its shadow cycles are served (run_shadow_cycle).
THEOREM OnlyTheProvenServe == Spec => []ProvenInShadow
  BY ProvenHolds, PTL DEF Proven

-----------------------------------------------------------------------------
(* One evaluator                                                           *)

\* What one evaluation may rely on, only its own step can disturb.
LEMMA SeatedTogether ==
  ASSUME Alone, NEW e \in Evaluators,
         \A u, v \in Live' : u = v,
         eval'[e].pc = "retire" => Live' \subseteq {eval'[e].live},
         eval'[e].pc = "golive" => Live' = {}
  PROVE  Seated'
  BY DEF Alone, Seated

\* Who is not an evaluator makes no version live: a shadow cycle may take the live
\* version back to its first stage (RegisterModel, run_shadow_cycle).
LEMMA OthersLeaveTheSeat ==
  ASSUME Proven, Seated, NEW v \in Versions, ShadowCycle(v) \/ RegisterModel(v)
  PROVE  Seated'
<1>1. state \in [Versions -> States \cup {"absent"}]
  BY DEF Proven, Typing, TypeOK
<1>2. eval' = eval
  BY DEF ShadowCycle, RegisterModel, BeginShadowCycle, Decrement, PromoteFromShadow, CycleFails
<1>3. \/ UNCHANGED state
      \/ \E s \in {"shadow", "canary_10pct"} : state' = [state EXCEPT ![v] = s]
  BY DEF ShadowCycle, RegisterModel, BeginShadowCycle, Decrement, PromoteFromShadow, CycleFails,
         UpdateState, row
<1>4. Live' \subseteq Live
  BY <1>1, <1>3 DEF Live
<1> QED
  BY <1>2, <1>4 DEF Seated

\* What an update that is sent does to the seat (update_state).
LEMMA UpdateKeepsTheSeat ==
  ASSUME Proven, Seated, NEW e \in Evaluators, Update(e)
  PROVE  (\A u, v \in Live' : u = v) /\ (eval[e].pc = "retire" => Live' = {})
<1> DEFINE of == eval[e].of
           live == eval[e].live
<1>1. /\ of \in Versions /\ (eval[e].pc = "retire" => live \in Versions)
      /\ state \in [Versions -> States \cup {"absent"}]
  BY DEF Proven, Typing, TypeOK, Aimed, Update, Acting
<1>2. /\ \A u, v \in Live : u = v
      /\ eval[e].pc = "retire" => Live \subseteq {live}
      /\ eval[e].pc = "golive" => Live = {}
  BY DEF Seated
<1>3. CASE eval[e].pc \in {"rollback", "to50"}
  <2>1. \E s \in Canary \cup {"shadow"} : state' = [state EXCEPT ![of] = s]
    BY <1>3 DEF Update, UpdateState, Canary
  <2>2. Live' \subseteq Live
    BY <1>1, <2>1 DEF Live, Canary
  <2> QED
    BY <1>2, <1>3, <2>2
<1>4. CASE eval[e].pc = "retire"
  <2>1. state' = [state EXCEPT ![live] = "retired"]
    BY <1>4 DEF Update, UpdateState
  <2>2. Live' = {}
    BY <1>1, <1>2, <1>4, <2>1 DEF Live
  <2> QED
    BY <2>2
<1>5. CASE eval[e].pc = "golive"
  <2>1. state' = [state EXCEPT ![of] = "live"]
    BY <1>5 DEF Update, UpdateState
  <2>2. Live' \subseteq {of}
    BY <1>1, <1>2, <1>5, <2>1 DEF Live
  <2> QED
    BY <1>5, <2>2
<1> QED
  BY <1>3, <1>4, <1>5 DEF Update

\* The seat through a step of the evaluation (evaluate_all_canaries).
LEMMA EvaluationKeepsTheSeat ==
  ASSUME Alone, Proven, Seated, NEW e \in Evaluators, BeginEvaluation(e) \/ Evaluation(e)
  PROVE  Seated'
<1>1. TypeOK /\ \A u, v \in Live : u = v
  BY DEF Proven, Typing, Seated
<1>2. ASSUME UNCHANGED row, eval'[e].pc \notin {"retire", "golive"} PROVE Seated'
  BY <1>1, <1>2, SeatedTogether DEF row, Live
<1>3. ASSUME NEW s \in Canary, ListModels(e, s), UNCHANGED row PROVE Seated'
  <2>1. eval'[e].pc = "pick"
    BY <1>1, <1>3, ListSets
  <2> QED
    BY <1>2, <1>3, <2>1
<1>4. CASE BeginEvaluation(e)
  BY <1>3, <1>4 DEF BeginEvaluation, Canary
<1>5. CASE NextList(e)
  <2>1. CASE eval[e].list = "canary_10pct"
    BY <1>3, <1>5, <2>1 DEF NextList, Canary
  <2>2. CASE eval[e].list # "canary_10pct"
    <3>1. eval' = [eval EXCEPT ![e] = Idle("idle")] /\ UNCHANGED row
      BY <1>5, <2>2 DEF NextList
    <3>2. eval'[e].pc = "idle"
      BY <1>1, <3>1, IdleSets
    <3> QED
      BY <1>2, <3>1, <3>2
  <2> QED
    BY <2>1, <2>2
<1>6. CASE \E v \in Versions : EvaluateCanary(e, v)
  <2>1. PICK v \in Versions : EvaluateCanary(e, v)
    BY <1>6
  <2>2. eval'[e].pc = NextStep(v) /\ UNCHANGED row
    BY <1>1, <2>1, PickSets DEF EvaluateCanary
  <2>3. NextStep(v) \notin {"retire", "golive"}
    BY DEF NextStep
  <2> QED
    BY <1>2, <2>2, <2>3
<1>7. CASE GetLive(e)
  <2>1. Live' = Live
    BY <1>7 DEF GetLive, row, Live
  <2>2. CASE Live = {}
    <3>1. Goto(e, "golive") /\ "golive" \in EvalPcs
      BY <1>7, <2>2 DEF GetLive, EvalPcs
    <3>2. eval'[e].pc = "golive"
      BY <1>1, <3>1, GotoSets
    <3> QED
      BY <2>1, <2>2, <3>2, SeatedTogether
  <2>3. CASE Live # {}
    <3>1. PICK v \in Live : eval' = [eval EXCEPT ![e].pc = "retire", ![e].live = v]
      BY <1>7, <2>3 DEF GetLive
    <3>2. v \in Versions
      BY DEF Live
    <3>3. eval'[e].pc = "retire" /\ eval'[e].live = v
      BY <1>1, <3>1, <3>2, SeatSets
    <3> QED
      BY <1>1, <2>1, <3>3, SeatedTogether
  <2> QED
    BY <2>2, <2>3
<1>8. CASE Rollback(e) \/ PromoteTo50(e) \/ PromoteToLive(e) \/ RetireLive(e)
  <2>1. Update(e)
    BY <1>8 DEF Rollback, PromoteTo50, RetireLive, PromoteToLive, Update
  <2>2. (\A u, v \in Live' : u = v) /\ (eval[e].pc = "retire" => Live' = {})
    BY <2>1, UpdateKeepsTheSeat
  <2>3. Return(e) \/ (Goto(e, "golive") /\ eval[e].pc = "retire")
    BY <1>8 DEF Rollback, PromoteTo50, RetireLive, PromoteToLive
  <2>4. "golive" \in EvalPcs
    BY DEF EvalPcs
  <2>5. eval'[e].pc = "pick" \/ (eval'[e].pc = "golive" /\ eval[e].pc = "retire")
    BY <1>1, <2>3, <2>4, GotoSets, ReturnSets
  <2> QED
    BY <2>2, <2>5, SeatedTogether
<1> QED
  BY <1>4, <1>5, <1>6, <1>7, <1>8 DEF Evaluation

\* The seat through every step, as long as one evaluator runs.
LEMMA NextKeepsTheSeat == ASSUME Alone, Proven, Seated, [Next]_vars PROVE Seated'
<1>1. ASSUME UNCHANGED <<state, eval>> PROVE Seated'
  BY <1>1 DEF Seated, Live
<1>2. ASSUME NEW e \in Evaluators, EvaluationFails(e) PROVE Seated'
  <2>1. Update(e) \/ UNCHANGED state
    BY <1>2 DEF EvaluationFails, row
  <2>2. \A u, v \in Live' : u = v
    <3>1. CASE Update(e)
      BY <3>1, UpdateKeepsTheSeat
    <3>2. CASE UNCHANGED state
      BY <3>2 DEF Seated, Live
    <3> QED
      BY <2>1, <3>1, <3>2
  <2>3. eval' = [eval EXCEPT ![e] = Idle("raised")] /\ TypeOK
    BY <1>2 DEF EvaluationFails, Proven, Typing
  <2>4. eval'[e].pc = "raised"
    BY <2>3, IdleSets
  <2> QED
    BY <2>2, <2>4, SeatedTogether
<1>3. CASE Restart
  <2>1. UNCHANGED state /\ eval' = [e \in Evaluators |-> Idle("raised")]
    BY <1>3 DEF Restart, row
  <2>2. \A e \in Evaluators : eval'[e].pc = "raised"
    BY <2>1 DEF Idle
  <2> QED
    BY <2>1, <2>2 DEF Seated, Live
<1>4. ASSUME NEW v \in Versions, NEW looks, RecordCycleReturn(v, looks)
      PROVE  UNCHANGED <<state, eval>>
  BY <1>4 DEF RecordCycleReturn, row
<1>5. CASE DaysPass
  BY <1>1, <1>5 DEF DaysPass
<1>6. CASE UNCHANGED vars
  BY <1>1, <1>6 DEF vars, row
<1> QED
  BY <1>1, <1>2, <1>3, <1>4, <1>5, <1>6, EvaluationKeepsTheSeat, OthersLeaveTheSeat DEF Next

\* The seat, as one evaluator may rely on it.
LEMMA SeatedHolds == ASSUME Alone PROVE Spec => []Seated
<1>1. Init => Seated
  BY DEF Init, Seated, Live, Idle
<1>2. Proven /\ Seated /\ [Next]_vars => Seated'
  BY NextKeepsTheSeat
<1> QED
  BY <1>1, <1>2, ProvenHolds, PTL DEF Spec

\* As long as one evaluation runs at a time, two versions are never live, whatever
\* fails between retiring the one and promoting the other (_promote_to_live).
THEOREM OneLiveIfAlone == ASSUME Alone PROVE Spec => []OneLive
<1>1. Seated => OneLive
  <2> SUFFICES ASSUME Seated PROVE Cardinality(Live) <= 1
    BY DEF OneLive
  <2>1. CASE Live = {}
    BY <2>1, FS_EmptySet
  <2>2. CASE Live # {}
    <3>1. PICK v \in Live : TRUE
      BY <2>2
    <3>2. Live = {v}
      BY <3>1 DEF Seated
    <3> QED
      BY <3>2, FS_Singleton
  <2> QED
    BY <2>1, <2>2
<1> QED
  BY <1>1, SeatedHolds, PTL

-----------------------------------------------------------------------------
(* No listed version is passed over                                        *)

\* Between evaluations nothing is listed (evaluate_all_canaries).
NothingListed == \A e \in Evaluators : eval[e].pc \in {"idle", "raised"} => eval[e].queue = {}

\* A version that performs poorly leaves the list only for its rollback, and an
\* evaluation goes on from a rollback only with the version back in shadow.
Visited(e) ==
  \A v \in Versions :
    /\ v \in eval[e].queue /\ v \notin eval'[e].queue /\ Poor(v) =>
         \/ eval'[e].pc = "raised"
         \/ eval'[e].pc = "rollback" /\ eval'[e].of = v
    /\ eval[e].pc = "rollback" /\ eval[e].of = v /\ eval'[e] # eval[e] =>
         eval'[e].pc = "raised" \/ state'[v] = "shadow"

\* With any number of evaluators, however long a version has stayed and whatever
\* fails: the safety half of RollbackCompletes (_evaluate_and_transition, _rollback).
NonePassedOver == [][\A e \in Evaluators : Visited(e)]_vars

\* A step of one evaluation leaves the others where they are.
LEMMA OthersVisit ==
  ASSUME Typing, NEW e \in Evaluators, NEW r, eval' = [eval EXCEPT ![e] = r],
         Visited(e), r.pc \in {"idle", "raised"} => r.queue = {}, NothingListed
  PROVE  NothingListed' /\ \A f \in Evaluators : Visited(f)
<1>1. eval \in [Evaluators -> EvalRecords]
  BY EvalIsTyped DEF Typing
<1>2. eval'[e] = r /\ \A f \in Evaluators : f # e => eval'[f] = eval[f]
  BY <1>1
<1>3. NothingListed'
  BY <1>2 DEF NothingListed
<1>4. ASSUME NEW f \in Evaluators PROVE Visited(f)
  <2>1. CASE f = e
    BY <2>1
  <2>2. CASE f # e
    BY <1>2, <2>2 DEF Visited
  <2> QED
    BY <2>1, <2>2
<1> QED
  BY <1>3, <1>4

LEMMA StepsVisit ==
  ASSUME Typing, NothingListed, [Next]_vars
  PROVE  NothingListed' /\ \A e \in Evaluators : Visited(e)
<1>1. eval \in [Evaluators -> EvalRecords]
  BY EvalIsTyped DEF Typing
<1>2. CASE UNCHANGED eval
  BY <1>2 DEF NothingListed, Visited
<1>3. ASSUME NEW e \in Evaluators, BeginEvaluation(e) \/ NextList(e)
      PROVE  NothingListed' /\ \A f \in Evaluators : Visited(f)
  <2>1. PICK r : /\ eval' = [eval EXCEPT ![e] = r]
                 /\ r.pc \in {"idle", "raised"} => r.queue = {}
    <3>1. ASSUME NEW s, ListModels(e, s)
          PROVE  \E r : eval' = [eval EXCEPT ![e] = r] /\ r.pc = "pick"
      <4> DEFINE q == [Idle("pick") EXCEPT !.list = s, !.queue = {v \in Versions : state[v] = s}]
      <4>1. eval' = [eval EXCEPT ![e] = q]
        BY <3>1 DEF ListModels
      <4>2. q.pc = "pick"
        BY DEF Idle
      <4> HIDE DEF q
      <4> QED
        BY <4>1, <4>2
    <3>2. Idle("idle").queue = {}
      BY DEF Idle
    <3>3. \/ \E s : ListModels(e, s)
          \/ eval' = [eval EXCEPT ![e] = Idle("idle")]
      BY <1>3 DEF BeginEvaluation, NextList
    <3> QED
      BY <3>1, <3>2, <3>3
  <2>2. eval[e].queue = {} /\ eval[e].pc # "rollback"
    BY <1>3 DEF BeginEvaluation, NextList, NothingListed
  <2>3. Visited(e)
    BY <2>2 DEF Visited
  <2> QED
    BY <2>1, <2>3, OthersVisit
<1>4. ASSUME NEW e \in Evaluators, NEW v \in Versions, EvaluateCanary(e, v)
      PROVE  NothingListed' /\ \A f \in Evaluators : Visited(f)
  <2> DEFINE of == IF NextStep(v) = "pick" THEN Nobody ELSE v
             r == [eval[e] EXCEPT !.queue = eval[e].queue \ {v}, !.pc = NextStep(v), !.of = of]
  <2>1. eval' = [eval EXCEPT ![e] = r] /\ eval[e].pc = "pick" /\ eval[e] \in EvalRecords
    BY <1>1, <1>4 DEF EvaluateCanary, Picked
  <2>2. NextStep(v) \in {"pick", "rollback", "to50", "seat"} /\ (Poor(v) => NextStep(v) = "rollback")
    BY DEF NextStep, Poor
  <2>3. r.queue = eval[e].queue \ {v} /\ r.of = of /\ r.pc = NextStep(v)
    BY <2>1 DEF EvalRecords
  <2>4. eval'[e] = r
    BY <1>1, <2>1
  <2> HIDE DEF r
  <2>5. Visited(e)
    BY <2>1, <2>2, <2>3, <2>4 DEF Visited
  <2> QED
    BY <2>1, <2>2, <2>3, <2>5, OthersVisit
<1>5. ASSUME NEW e \in Evaluators,
             Rollback(e) \/ PromoteTo50(e) \/ GetLive(e) \/ RetireLive(e) \/ PromoteToLive(e)
      PROVE  NothingListed' /\ \A f \in Evaluators : Visited(f)
  <2>1. PICK r : /\ eval' = [eval EXCEPT ![e] = r] /\ r.queue = eval[e].queue
                 /\ r.pc \in {"pick", "golive", "retire"}
    <3>1. eval[e] \in EvalRecords
      BY <1>1
    <3>2. \E q \in {"pick", "golive", "retire"} : \E o, v :
            eval' = [eval EXCEPT ![e] = [eval[e] EXCEPT !.pc = q, !.of = o, !.live = v]]
      <4>1. CASE Return(e)
        <5>1. eval' = [eval EXCEPT ![e] =
                         [eval[e] EXCEPT !.pc = "pick", !.of = Nobody, !.live = Nobody]]
          BY <1>1, <4>1 DEF Return
        <5> QED
          BY <5>1
      <4>2. CASE Goto(e, "golive")
        <5>1. eval' = [eval EXCEPT ![e] = [eval[e] EXCEPT !.pc = "golive"]]
          BY <4>2 DEF Goto
        <5>2. [eval[e] EXCEPT !.pc = "golive"] =
                [eval[e] EXCEPT !.pc = "golive", !.of = eval[e].of, !.live = eval[e].live]
          BY <3>1 DEF EvalRecords
        <5> QED
          BY <5>1, <5>2
      <4>3. CASE \E v \in Live : eval' = [eval EXCEPT ![e].pc = "retire", ![e].live = v]
        <5>1. PICK v \in Live : eval' = [eval EXCEPT ![e].pc = "retire", ![e].live = v]
          BY <4>3
        <5>2. eval' = [eval EXCEPT ![e] = [eval[e] EXCEPT !.pc = "retire", !.live = v]]
          BY <1>1, <5>1
        <5>3. [eval[e] EXCEPT !.pc = "retire", !.live = v] =
                [eval[e] EXCEPT !.pc = "retire", !.of = eval[e].of, !.live = v]
          BY <3>1 DEF EvalRecords
        <5> QED
          BY <5>2, <5>3
      <4> QED
        BY <1>5, <4>1, <4>2, <4>3 DEF Rollback, PromoteTo50, GetLive, RetireLive, PromoteToLive
    <3>3. PICK q \in {"pick", "golive", "retire"} : \E o, v :
            eval' = [eval EXCEPT ![e] = [eval[e] EXCEPT !.pc = q, !.of = o, !.live = v]]
      BY <3>2
    <3>4. PICK o, v :
            eval' = [eval EXCEPT ![e] = [eval[e] EXCEPT !.pc = q, !.of = o, !.live = v]]
      BY <3>3
    <3> DEFINE w == [eval[e] EXCEPT !.pc = q, !.of = o, !.live = v]
    <3>5. eval' = [eval EXCEPT ![e] = w] /\ w.queue = eval[e].queue /\ w.pc = q
      BY <3>1, <3>4 DEF EvalRecords
    <3> HIDE DEF w
    <3> QED
      BY <3>5
  <2>2. eval'[e] = r
    BY <1>1, <2>1
  <2>3. ASSUME eval[e].pc = "rollback", NEW v \in Versions, eval[e].of = v
        PROVE  state'[v] = "shadow"
    <3>1. Rollback(e)
      BY <1>5, <2>3 DEF PromoteTo50, GetLive, RetireLive, PromoteToLive
    <3> QED
      BY <3>1, <2>3 DEF Rollback, UpdateState, Typing, TypeOK
  <2>4. Visited(e)
    BY <2>1, <2>2, <2>3 DEF Visited
  <2> QED
    BY <2>1, <2>4, OthersVisit
<1>6. ASSUME NEW e \in Evaluators, EvaluationFails(e)
      PROVE  NothingListed' /\ \A f \in Evaluators : Visited(f)
  <2>1. eval' = [eval EXCEPT ![e] = Idle("raised")]
    BY <1>6 DEF EvaluationFails
  <2>2. Idle("raised").pc = "raised" /\ Idle("raised").queue = {}
    BY DEF Idle
  <2>3. Visited(e)
    BY <1>1, <2>1, <2>2 DEF Visited
  <2> QED
    BY <2>1, <2>2, <2>3, OthersVisit
<1>7. CASE Restart
  <2>1. eval' = [e \in Evaluators |-> Idle("raised")]
    BY <1>7 DEF Restart
  <2>2. \A e \in Evaluators : eval'[e].pc = "raised" /\ eval'[e].queue = {}
    BY <2>1 DEF Idle
  <2> QED
    BY <2>2 DEF NothingListed, Visited
<1> QED
  BY <1>2, <1>3, <1>4, <1>5, <1>6, <1>7
     DEF Next, vars, RegisterModel, ShadowCycle, BeginShadowCycle, Decrement,
         PromoteFromShadow, CycleFails, RecordCycleReturn, Evaluation, DaysPass

THEOREM PoorAreRolledBack == Spec => NonePassedOver
<1>1. Init => NothingListed
  BY DEF Init, NothingListed, Idle
<1>2. Typing /\ NothingListed /\ [Next]_vars =>
        NothingListed' /\ [\A e \in Evaluators : Visited(e)]_vars
  BY StepsVisit
<1>3. Proven => Typing
  BY DEF Proven
<1> QED
  BY <1>1, <1>2, <1>3, ProvenHolds, PTL DEF Spec, NonePassedOver

=============================================================================
