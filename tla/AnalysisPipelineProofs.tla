----------------------- MODULE AnalysisPipelineProofs -----------------------
(***************************************************************************)
(* AnalysisPipeline for every set of agents, every share and category and  *)
(* every number of cycles: it implements CycleContract, a veto stops the   *)
(* cycle it is pronounced in, a trade rests on answers of its own cycle,   *)
(* and so does what the agents' status entries say when it has ended.      *)
(***************************************************************************)
EXTENDS AnalysisPipeline, FiniteSetTheorems, WellFoundedInduction, TLAPS

Pcs == {"idle", "waiting", "placeholders", "stubs", "finalize", "cache", "publish"}
TaskStates == {"none", "scoring", "writing", "done", "cancelled"}

\* The part of TypeOK the steps rely on.
Shape ==
  /\ pc \in Pcs
  /\ cycle \in Nat /\ (pc # "idle" => cycle > 0)
  /\ task \in [Agents -> TaskStates]
  /\ result \in [Agents -> Results]

Vetoed == result[Risk].kind = "veto"

\* The risk agent answers once, while the coroutine waits for it, and what has
\* been collected from it without stopping the cycle is no veto
\* (_execute_all_concurrently).
GateIsWatched ==
  /\ task[Risk] \in {"scoring", "writing"} => pc = "waiting" /\ Risk \in pending
  /\ task[Risk] = "scoring" => result[Risk] = NoResult
  /\ pc = "waiting" /\ Risk \notin pending => ~Vetoed
  /\ pc \in {"stubs", "finalize"} => ~Vetoed

\* The signal is the cycle's own, there is none before the cycle has decided, and
\* the channel holds the signals of earlier cycles, and this cycle's at its end.
SignalIsOwn ==
  /\ signal = NoSignal \/ signal.cycle = cycle
  /\ pc \in {"waiting", "placeholders", "stubs", "finalize"} => signal = NoSignal
  /\ pc \in {"cache", "publish"} => signal # NoSignal
  /\ signal # NoSignal => signal.decision \in Decisions
  /\ \A s \in channel : s.cycle \in 1..cycle
  /\ pc # "idle" \/ Vetoed => \A s \in channel : s.cycle < cycle

\* What a veto leaves of the cycle: no position, and a score too low to publish
\* (_handle_veto, _persist_outputs).
VetoHolds ==
  /\ Vetoed /\ signal # NoSignal => signal.decision = "No Position" /\ signal.score = 0
  /\ Vetoed => pc # "publish"

Gate == Shape /\ GateIsWatched /\ SignalIsOwn /\ VetoHolds

-----------------------------------------------------------------------------
(* The scorer's sum.  It is a fold over a set, defined by recursion on the *)
(* set; what holds of it for every set of analysts follows from a smallest *)
(* set for which it would not.                                             *)

\* A family of subsets of a finite set has a smallest one: the form of induction
\* the lemmas below use.
LEMMA MinimalSubset ==
  ASSUME NEW S, IsFiniteSet(S), NEW F \in SUBSET (SUBSET S), F # {}
  PROVE  \E m \in F : \A b \in F : b \subseteq m => b = m
<1>1. F \subseteq FiniteSubsetsOf(S)
  BY FS_Subset DEF FiniteSubsetsOf
<1>2. \E x \in F : \A y \in F : ~ (<<y, x>> \in StrictSubsetOrdering(S))
  BY <1>1, FS_StrictSubsetOrderingWellFounded, WFMin
<1> QED
  BY <1>2, <1>1 DEF StrictSubsetOrdering, FiniteSubsetsOf

Pick(s) == CHOOSE a \in s : TRUE

\* f is the sum of the shares, one element after the other, for every subset of S.
Share1(f, s) == IF s = {} THEN 0 ELSE Share[Pick(s)] + f[s \ {Pick(s)}]
Sums(S, f) == f = [s \in SUBSET S |-> Share1(f, s)]

LEMMA PickIsMember == \A s : s # {} => Pick(s) \in s /\ s \ {Pick(s)} # s
  BY DEF Pick

\* There is such an f: it can be extended from the sets of one size to the next.
LEMMA SumsExist == ASSUME NEW S \in SUBSET Analysts PROVE \E f : Sums(S, f)
<1> DEFINE Upto(n, f) == \A s \in SUBSET S : Cardinality(s) <= n => f[s] = Share1(f, s)
           Bad == {T \in SUBSET S : ~ \E f \in [SUBSET S -> Int] : Upto(Cardinality(T), f)}
<1>1. IsFiniteSet(S) /\ \A s \in SUBSET S : IsFiniteSet(s) /\ Cardinality(s) \in Nat
  BY PipelineAssumption, FS_Subset, FS_CardinalityType
<1>2. Bad = {}
  <2> SUFFICES ASSUME Bad # {} PROVE FALSE
    OBVIOUS
  <2>1. PICK T \in Bad : \A b \in Bad : b \subseteq T => b = T
    <3> HIDE DEF Bad
    <3>1. Bad \in SUBSET (SUBSET S)
      BY DEF Bad
    <3> QED
      BY <3>1, <1>1, MinimalSubset
  <2>2. T # {}
    <3> SUFFICES ASSUME T = {} PROVE FALSE
      OBVIOUS
    <3> DEFINE g == [s \in SUBSET S |-> 0]
    <3>1. \A s \in SUBSET S : Cardinality(s) <= 0 => s = {}
      BY <1>1, FS_EmptySet
    <3>2. Upto(Cardinality(T), g)
      BY <3>1, FS_EmptySet DEF Share1
    <3>3. g \in [SUBSET S -> Int]
      OBVIOUS
    <3>4. T \notin Bad
      <4> HIDE DEF g
      <4> QED
        BY <3>2, <3>3
    <3> QED
      BY <3>4, <2>1
  <2> DEFINE n == Cardinality(T \ {Pick(T)})
  <2>3. Cardinality(T) = n + 1 /\ n \in Nat /\ T \ {Pick(T)} \notin Bad
    <3>1. T \in SUBSET S /\ IsFiniteSet(T) /\ Pick(T) \in T
      BY <1>1, <2>1, <2>2, PickIsMember
    <3>2. IsFiniteSet(T \ {Pick(T)}) /\ n = Cardinality(T) - 1
      <4> HIDE DEF Bad
      <4> QED
        BY <3>1, FS_RemoveElement
    <3>3. n \in Nat /\ Cardinality(T) \in Nat
      <4> HIDE DEF Bad
      <4> QED
        BY <3>1, <3>2, FS_CardinalityType
    <3>4. T \ {Pick(T)} \notin Bad
      <4>1. T \ {Pick(T)} \subseteq T /\ T \ {Pick(T)} # T
        BY <3>1
      <4> HIDE DEF Bad
      <4> QED
        BY <2>1, <4>1
    <3>5. Cardinality(T) = n + 1
      <4> HIDE DEF Bad, n
      <4> QED
        BY <3>2, <3>3
    <3> QED
      BY <3>3, <3>4, <3>5
  <2>4. PICK f \in [SUBSET S -> Int] : Upto(n, f)
    BY <2>3
  <2> DEFINE g == [s \in SUBSET S |-> IF Cardinality(s) <= n THEN f[s] ELSE Share1(f, s)]
  <2> HIDE DEF n
  <2>5. \A s \in SUBSET S : s # {} =>
          /\ s \ {Pick(s)} \in SUBSET S /\ Share[Pick(s)] \in Int
          /\ Cardinality(s \ {Pick(s)}) = Cardinality(s) - 1
    <3> SUFFICES ASSUME NEW s \in SUBSET S, s # {}
                 PROVE  /\ s \ {Pick(s)} \in SUBSET S /\ Share[Pick(s)] \in Int
                        /\ Cardinality(s \ {Pick(s)}) = Cardinality(s) - 1
      OBVIOUS
    <3> HIDE DEF Bad
    <3>1. Pick(s) \in s /\ IsFiniteSet(s)
      BY <1>1, PickIsMember
    <3>2. Share[Pick(s)] \in Int
      BY <3>1, PipelineAssumption
    <3>3. Cardinality(s \ {Pick(s)}) = Cardinality(s) - 1
      BY <3>1, FS_RemoveElement
    <3> QED
      BY <3>2, <3>3
  <2>6. g \in [SUBSET S -> Int]
    BY <2>4, <2>5 DEF Share1
  <2>7. \A s \in SUBSET S : Cardinality(s) <= n + 1 => g[s] = Share1(g, s)
    <3> SUFFICES ASSUME NEW s \in SUBSET S, Cardinality(s) <= n + 1
                 PROVE  g[s] = Share1(g, s)
      OBVIOUS
    <3>1. g[s] = Share1(f, s)
      BY <2>4
    <3>2. s # {} => f[s \ {Pick(s)}] = g[s \ {Pick(s)}]
      BY <1>1, <2>3, <2>5
    <3> QED
      BY <3>1, <3>2 DEF Share1
  <2>8. Upto(Cardinality(T), g)
    BY <2>7, <2>3
  <2> QED
    BY <2>1, <2>6, <2>8
<1>3. PICK f \in [SUBSET S -> Int] : Upto(Cardinality(S), f)
  BY <1>2
<1>4. \A s \in SUBSET S : f[s] = Share1(f, s)
  BY <1>1, <1>3, FS_Subset
<1> QED
  BY <1>4 DEF Sums

LEMMA PointsSum ==
  ASSUME NEW S \in SUBSET Analysts
  PROVE  \E f : Sums(S, f) /\ Points(S) = f[S]
<1>1. Points(S) = (CHOOSE f : Sums(S, f))[S]
  BY DEF Points, MapThenSumSet, MapThenFoldSet, Sums, Share1, Pick
<1> QED
  BY <1>1, SumsExist

\* It does not matter which set it is the sum of the subsets of.
LEMMA SumsAgree ==
  ASSUME NEW S \in SUBSET Analysts, NEW T \in SUBSET S, NEW f, NEW g, Sums(S, f), Sums(T, g)
  PROVE  \A s \in SUBSET T : f[s] = g[s]
<1> DEFINE Bad == {s \in SUBSET T : f[s] # g[s]}
<1> SUFFICES ASSUME Bad # {} PROVE FALSE
  OBVIOUS
<1>1. PICK s \in Bad : \A b \in Bad : b \subseteq s => b = s
  <2> HIDE DEF Bad
  <2>1. IsFiniteSet(T) /\ Bad \in SUBSET (SUBSET T)
    BY PipelineAssumption, FS_Subset DEF Bad
  <2> QED
    BY <2>1, MinimalSubset
<1>2. f[s] = Share1(f, s) /\ g[s] = Share1(g, s)
  BY <1>1 DEF Sums
<1>3. s # {} => f[s \ {Pick(s)}] = g[s \ {Pick(s)}]
  BY <1>1, PickIsMember
<1> QED
  BY <1>1, <1>2, <1>3 DEF Share1

\* The shares of a set are those of its elements, taken one by one.
LEMMA PointsStep ==
  ASSUME NEW S \in SUBSET Analysts
  PROVE  Points(S) = IF S = {} THEN 0 ELSE Share[Pick(S)] + Points(S \ {Pick(S)})
<1>1. PICK f : Sums(S, f) /\ Points(S) = f[S]
  BY PointsSum
<1>2. PICK g : Sums(S \ {Pick(S)}, g) /\ Points(S \ {Pick(S)}) = g[S \ {Pick(S)}]
  BY PointsSum
<1>3. f[S \ {Pick(S)}] = g[S \ {Pick(S)}]
  BY <1>1, <1>2, SumsAgree
<1>4. f[S] = Share1(f, S)
  BY <1>1 DEF Sums
<1> QED
  BY <1>1, <1>2, <1>3, <1>4 DEF Share1

LEMMA PointsNatural == \A S \in SUBSET Analysts : Points(S) \in Nat
<1> DEFINE Bad == {S \in SUBSET Analysts : Points(S) \notin Nat}
<1> SUFFICES ASSUME Bad # {} PROVE FALSE
  OBVIOUS
<1>1. PICK S \in Bad : \A b \in Bad : b \subseteq S => b = S
  <2> HIDE DEF Bad
  <2>1. Bad \in SUBSET (SUBSET Analysts)
    BY DEF Bad
  <2> QED
    BY <2>1, PipelineAssumption, MinimalSubset
<1>2. S # {} => Points(S \ {Pick(S)}) \in Nat /\ Share[Pick(S)] \in Nat
  BY <1>1, PipelineAssumption, PickIsMember
<1> QED
  BY <1>1, <1>2, PointsStep

\* Any element may be the first one.
LEMMA PointsRemove ==
  \A S \in SUBSET Analysts : \A x \in S : Points(S) = Share[x] + Points(S \ {x})
<1> DEFINE Bad == {S \in SUBSET Analysts : \E x \in S : Points(S) # Share[x] + Points(S \ {x})}
<1> SUFFICES ASSUME Bad # {} PROVE FALSE
  OBVIOUS
<1>1. PICK S \in Bad : \A b \in Bad : b \subseteq S => b = S
  <2> HIDE DEF Bad
  <2>1. Bad \in SUBSET (SUBSET Analysts)
    BY DEF Bad
  <2> QED
    BY <2>1, PipelineAssumption, MinimalSubset
<1>2. PICK x \in S : Points(S) # Share[x] + Points(S \ {x})
  BY <1>1
<1> DEFINE c == Pick(S)
<1>3. c \in S /\ Points(S) = Share[c] + Points(S \ {c})
  BY <1>1, <1>2, PickIsMember, PointsStep
<1> HIDE DEF c
<1>4. x # c
  BY <1>2, <1>3
<1>5. S \ {c} \notin Bad /\ S \ {x} \notin Bad
  BY <1>1, <1>2, <1>3
<1>6. /\ Points(S \ {c}) = Share[x] + Points((S \ {c}) \ {x})
      /\ Points(S \ {x}) = Share[c] + Points((S \ {x}) \ {c})
  BY <1>1, <1>2, <1>3, <1>4, <1>5
<1>7. (S \ {c}) \ {x} = (S \ {x}) \ {c}
  OBVIOUS
<1>8. Share[x] \in Nat /\ Share[c] \in Nat /\ Points((S \ {x}) \ {c}) \in Nat
  BY <1>1, <1>2, <1>3, PipelineAssumption, PointsNatural
<1>9. Points(S) = Share[c] + (Share[x] + Points((S \ {x}) \ {c}))
  BY <1>3, <1>6, <1>7
<1>10. Share[x] + Points(S \ {x}) = Share[x] + (Share[c] + Points((S \ {x}) \ {c}))
  BY <1>6
<1>11. Points(S) = Share[x] + Points(S \ {x})
  <2> HIDE DEF Bad
  <2> QED
    BY <1>8, <1>9, <1>10
<1> QED
  BY <1>2, <1>11

\* More analysts never bring fewer points.
LEMMA PointsMonotone ==
  ASSUME NEW S \in SUBSET Analysts
  PROVE  \A T \in SUBSET Analysts : S \subseteq T => Points(S) <= Points(T)
<1> DEFINE Bad == {T \in SUBSET Analysts : S \subseteq T /\ ~(Points(S) <= Points(T))}
<1> SUFFICES ASSUME Bad # {} PROVE FALSE
  OBVIOUS
<1>1. PICK T \in Bad : \A b \in Bad : b \subseteq T => b = T
  <2> HIDE DEF Bad
  <2>1. Bad \in SUBSET (SUBSET Analysts)
    BY DEF Bad
  <2> QED
    BY <2>1, PipelineAssumption, MinimalSubset
<1>2. Points(S) \in Nat /\ Points(T) \in Nat
  BY <1>1, PointsNatural
<1>3. PICK x \in T : x \notin S
  <2>1. S \subseteq T /\ ~(Points(S) <= Points(T))
    BY <1>1
  <2>2. S # T
    <3> SUFFICES ASSUME S = T PROVE Points(S) <= Points(T)
      BY <2>1
    <3> QED
      BY <1>2
  <2> QED
    BY <2>1, <2>2
<1>4. Points(S) <= Points(T \ {x})
  BY <1>1, <1>3
<1>5. Points(T) = Share[x] + Points(T \ {x}) /\ Share[x] \in Nat /\ Points(T \ {x}) \in Nat
  BY <1>1, <1>3, PointsRemove, PointsNatural, PipelineAssumption
<1> QED
  BY <1>1, <1>2, <1>4, <1>5

-----------------------------------------------------------------------------
(* Lemmas                                                                  *)

LEMMA RiskIsAgent == Risk \in Agents /\ Analysts \subseteq Agents /\ Risk \notin Analysts
  BY PipelineAssumption DEF Agents

Working == {"waiting", "placeholders", "stubs", "finalize"}

LEMMA ResultsAreTyped ==
  /\ NoResult \in Results /\ NoResult.kind = "none"
  /\ Answers \subseteq Results /\ RiskAnswers \subseteq Results
  /\ \A k \in {"warmup", "failed", "timeout", "exception"} :
       ZeroResult(k) \in Results /\ ZeroResult(k).kind = k
  /\ \A p \in 0..1, v \in Votes :
       Result("scored", p, v) \in Results /\ Result("scored", p, v).kind = "scored"
  /\ \A r \in Answers \cup RiskAnswers : r.kind \in {"scored", "veto"}
  BY DEF NoResult, ZeroResult, Result, Results, Answers, RiskAnswers, Votes

\* The gates let no decision through that the mapper does not know.
LEMMA FinalDecisionKnown == ASSUME NEW r PROVE FinalDecision(r) \in Decisions
  BY DEF FinalDecision, CalculateDecision, Decisions, Trades

\* What a task that ends changes (_safe_score).
LEMMA TaskEndsKinds ==
  ASSUME Gate, NEW a \in Agents, Answer(a) \/ Raise(a) \/ TimeOut(a)
  PROVE  /\ task[a] = "scoring" /\ task' = [task EXCEPT ![a] = "writing"]
         /\ result' \in [Agents -> Results]
         /\ a # Risk => result'[Risk] = result[Risk]
         /\ a = Risk => result'[Risk].kind \in {"scored", "veto", "exception", "timeout"}
         /\ UNCHANGED <<simple, pc, cycle, pending, todo, signal, channel>>
<1>1. PICK r \in Results : TaskEnds(a, r) /\ r.kind \in {"scored", "veto", "exception", "timeout"}
  BY ResultsAreTyped DEF Answer, Raise, TimeOut
<1>2. result \in [Agents -> Results]
  BY DEF Gate, Shape
<1>3. result' = [result EXCEPT ![a] = r]
  BY <1>1 DEF TaskEnds
<1>4. /\ task[a] = "scoring" /\ task' = [task EXCEPT ![a] = "writing"]
      /\ UNCHANGED <<simple, pc, cycle, pending, todo, signal, channel>>
  BY <1>1 DEF TaskEnds, redis
<1>5. result' \in [Agents -> Results]
  BY <1>1, <1>2, <1>3
<1>6. a # Risk => result'[Risk] = result[Risk]
  BY <1>2, <1>3, RiskIsAgent
<1>7. a = Risk => result'[Risk] = r
  BY <1>2, <1>3
<1> QED
  BY <1>1, <1>4, <1>5, <1>6, <1>7

\* A status write changes no result, no signal and no channel (_persist_status).
LEMMA StatusWriteSets ==
  ASSUME NEW a, NEW shown, SetStatus(a, shown)
  PROVE  UNCHANGED <<simple, cycle, result, pending, signal, channel>>
  BY DEF SetStatus

\* While the agents are at work there is no signal to speak of.
LEMMA WorkingHasNoSignal ==
  ASSUME Gate, pc \in Working
  PROVE  /\ signal = NoSignal /\ cycle \in Nat /\ cycle > 0
         /\ \A s \in channel : s.cycle \in 1..cycle /\ s.cycle < cycle
  BY DEF Gate, Shape, SignalIsOwn, Working

LEMMA WorkingKeepsSignal ==
  ASSUME Gate, pc \in Working, pc' \in Working, UNCHANGED <<cycle, signal, channel>>
  PROVE  SignalIsOwn' /\ VetoHolds'
<1>1. signal' = NoSignal /\ \A s \in channel' : s.cycle \in 1..cycle' /\ s.cycle < cycle'
  BY WorkingHasNoSignal
<1> QED
  BY <1>1 DEF SignalIsOwn, VetoHolds, Working

\* A step that touches none of these variables keeps it all.
LEMMA GateIsStable ==
  ASSUME Gate, UNCHANGED <<pc, cycle, task, result, pending, signal, channel>>
  PROVE  Gate'
  BY DEF Gate, Shape, GateIsWatched, SignalIsOwn, VetoHolds, Vetoed

LEMMA InitGate == Init => Gate
<1> SUFFICES ASSUME Init PROVE Gate
  OBVIOUS
<1>1. Shape
  BY ResultsAreTyped DEF Init, Shape, Pcs, TaskStates
<1>2. ~Vetoed
  BY ResultsAreTyped, RiskIsAgent DEF Init, Vetoed
<1>3. task[Risk] = "none"
  BY RiskIsAgent DEF Init
<1> QED
  BY <1>1, <1>2, <1>3 DEF Init, Gate, GateIsWatched, SignalIsOwn, VetoHolds

\* A cycle that starts, or raises before it dispatched an agent, forgets the signal
\* and the results of the one before.
LEMMA StartKeepsGate == Gate /\ (StartCycle \/ ContextFails) => Gate'
<1> SUFFICES ASSUME Gate, StartCycle \/ ContextFails PROVE Gate'
  OBVIOUS
<1> USE RiskIsAgent
<1>1. /\ pc = "idle" /\ pc' \in {"idle", "waiting"} /\ cycle' = cycle + 1
      /\ signal' = NoSignal /\ channel' = channel
  BY DEF StartCycle, ContextFails
<1>2. cycle \in Nat /\ \A s \in channel : s.cycle \in 1..cycle
  BY DEF Gate, Shape, SignalIsOwn
<1>3. cycle' \in Nat /\ cycle' > 0 /\ \A s \in channel' : s.cycle \in 1..cycle' /\ s.cycle < cycle'
  BY <1>1, <1>2
<1>4. /\ task' \in [Agents -> TaskStates] /\ result' \in [Agents -> Results]
      /\ ~Vetoed' /\ GateIsWatched'
  <2>1. CASE StartCycle
    <3>1. \A x \in Agents : SkipResult(x) \in Results /\ SkipResult(x).kind \in {"warmup", "failed"}
      BY ResultsAreTyped DEF SkipResult
    <3>2. result' = [x \in Agents |-> IF x \in Dispatched /\ Skipped(x)
                                        THEN SkipResult(x) ELSE NoResult]
      BY <2>1 DEF StartCycle
    <3>3. task' = [x \in Agents |-> IF x \notin Dispatched THEN "none"
                                    ELSE IF Skipped(x) THEN "writing" ELSE "scoring"]
      BY <2>1 DEF StartCycle
    <3>4. result' \in [Agents -> Results] /\ result'[Risk].kind # "veto"
      BY <3>1, <3>2, ResultsAreTyped
    <3>5. task' \in [Agents -> TaskStates]
      BY <3>3 DEF TaskStates
    <3>6. task'[Risk] = "scoring" => result'[Risk] = NoResult
      BY <3>2, <3>3
    <3>7. Risk \in pending' /\ pc' = "waiting"
      BY <2>1 DEF StartCycle, Dispatched
    <3> QED
      BY <3>4, <3>5, <3>6, <3>7 DEF Vetoed, GateIsWatched
  <2>2. CASE ContextFails
    <3>1. /\ task' = [x \in Agents |-> "none"] /\ result' = [x \in Agents |-> NoResult]
          /\ pc' = "idle"
      BY <2>2, <1>1 DEF ContextFails
    <3> QED
      BY <3>1, ResultsAreTyped DEF TaskStates, Vetoed, GateIsWatched
  <2> QED
    BY <2>1, <2>2
<1>5. Shape'
  BY <1>1, <1>3, <1>4 DEF Shape, Pcs
<1>6. SignalIsOwn'
  BY <1>1, <1>3 DEF SignalIsOwn
<1>7. VetoHolds'
  BY <1>4 DEF VetoHolds
<1> QED
  BY <1>4, <1>5, <1>6, <1>7 DEF Gate

\* A task that answers, raises or times out.
LEMMA AnswerKeepsGate ==
  ASSUME Gate, NEW a \in Agents, Answer(a) \/ Raise(a) \/ TimeOut(a)
  PROVE  Gate'
<1> USE RiskIsAgent
<1>1. /\ task[a] = "scoring" /\ task' = [task EXCEPT ![a] = "writing"]
      /\ result' \in [Agents -> Results]
      /\ a # Risk => result'[Risk] = result[Risk]
      /\ UNCHANGED <<pc, cycle, pending, signal, channel>>
  BY TaskEndsKinds
<1>2. task \in [Agents -> TaskStates]
  BY DEF Gate, Shape
<1>3. task' \in [Agents -> TaskStates]
  BY <1>1, <1>2 DEF TaskStates
<1>4. Shape'
  BY <1>1, <1>3 DEF Gate, Shape
<1>5. CASE a = Risk
  <2>1. pc = "waiting" /\ Risk \in pending /\ task'[Risk] = "writing"
    BY <1>1, <1>2, <1>5 DEF Gate, GateIsWatched
  <2>2. GateIsWatched'
    BY <1>1, <2>1 DEF GateIsWatched
  <2>3. SignalIsOwn' /\ VetoHolds'
    BY <1>1, <2>1, WorkingKeepsSignal DEF Working
  <2> QED
    BY <1>4, <2>2, <2>3 DEF Gate
<1>6. CASE a # Risk
  <2>1. task'[Risk] = task[Risk] /\ result'[Risk] = result[Risk]
    BY <1>1, <1>2, <1>6
  <2>2. GateIsWatched'
    BY <1>1, <2>1 DEF Gate, GateIsWatched, Vetoed
  <2>3. SignalIsOwn' /\ VetoHolds'
    BY <1>1, <2>1 DEF Gate, SignalIsOwn, VetoHolds, Vetoed
  <2> QED
    BY <1>4, <2>2, <2>3 DEF Gate
<1> QED
  BY <1>5, <1>6

\* Status writes, of the tasks, the placeholders and the stubs.
LEMMA WriteKeepsGate ==
  ASSUME Gate, NEW a \in Agents, WriteStatus(a) \/ Placeholder(a) \/ WriteStub(a)
  PROVE  Gate'
<1> USE RiskIsAgent
<1>1. UNCHANGED <<cycle, result, pending, signal, channel>>
  BY StatusWriteSets DEF WriteStatus, Placeholder, WriteStub
<1>2. task \in [Agents -> TaskStates] /\ pc \in Pcs
  BY DEF Gate, Shape
<1>3. CASE WriteStatus(a)
  <2>1. pc' = pc /\ task' = [task EXCEPT ![a] = "done"]
    BY <1>3 DEF WriteStatus
  <2>2. task' \in [Agents -> TaskStates] /\ (task'[Risk] = task[Risk] \/ task'[Risk] = "done")
    BY <1>2, <2>1 DEF TaskStates
  <2>3. Shape'
    BY <1>1, <2>1, <2>2 DEF Gate, Shape
  <2>4. GateIsWatched'
    BY <1>1, <2>1, <2>2 DEF Gate, GateIsWatched, Vetoed
  <2>5. SignalIsOwn' /\ VetoHolds'
    BY <1>1, <2>1 DEF Gate, SignalIsOwn, VetoHolds, Vetoed
  <2> QED
    BY <2>3, <2>4, <2>5 DEF Gate
<1>4. CASE Placeholder(a)
  <2>1. UNCHANGED <<pc, task>>
    BY <1>4 DEF Placeholder
  <2> QED
    BY <1>1, <2>1, GateIsStable
<1>5. CASE WriteStub(a)
  <2>1. pc = "stubs" /\ pc' \in {"stubs", "finalize"} /\ task' = task
    BY <1>5 DEF WriteStub
  <2>2. Shape'
    BY <1>1, <2>1 DEF Gate, Shape, Pcs
  <2>3. GateIsWatched'
    BY <1>1, <2>1 DEF Gate, GateIsWatched, Vetoed
  <2>4. SignalIsOwn' /\ VetoHolds'
    BY <1>1, <2>1, WorkingKeepsSignal DEF Working
  <2> QED
    BY <2>2, <2>3, <2>4 DEF Gate
<1> QED
  BY <1>3, <1>4, <1>5

\* A batch is collected; one that holds a veto cancels what is left.
LEMMA CollectKeepsGate == Gate /\ (CollectVeto \/ Collect) => Gate'
<1> SUFFICES ASSUME Gate, CollectVeto \/ Collect PROVE Gate'
  OBVIOUS
<1> USE RiskIsAgent
<1>1. /\ pc = "waiting" /\ pc' \in {"waiting", "stubs", "finalize", "placeholders"}
      /\ UNCHANGED <<cycle, result, signal, channel>>
  BY DEF CollectVeto, Collect, tasks, redis
<1>2. SignalIsOwn' /\ VetoHolds'
  BY <1>1, WorkingKeepsSignal DEF Working
<1>3. task \in [Agents -> TaskStates]
  BY DEF Gate, Shape
<1>4. CASE CollectVeto
  <2>1. /\ Risk \in Batch /\ pc' = "placeholders"
        /\ task' = [x \in Agents |-> IF x \in pending \ Batch THEN "cancelled" ELSE task[x]]
    BY <1>4 DEF CollectVeto
  <2>2. task' \in [Agents -> TaskStates] /\ task'[Risk] = "done"
    BY <1>3, <2>1 DEF TaskStates, Batch
  <2>3. Shape'
    BY <1>1, <2>1, <2>2 DEF Gate, Shape, Pcs
  <2>4. GateIsWatched'
    BY <2>1, <2>2 DEF GateIsWatched
  <2> QED
    BY <1>2, <2>3, <2>4 DEF Gate
<1>5. CASE Collect
  <2>1. /\ task' = task /\ pending' = pending \ Batch
        /\ pc' # "waiting" => pending' = {}
        /\ pc' # "placeholders"
        /\ Risk \in Batch => ~Vetoed
    BY <1>5 DEF Collect, Vetoed, tasks
  <2>2. Risk \in Batch => task[Risk] = "done"
    BY DEF Batch
  <2>3. Risk \notin pending' => ~Vetoed
    BY <1>1, <2>1 DEF Gate, GateIsWatched
  <2>4. task[Risk] \in {"scoring", "writing"} => Risk \in pending'
    BY <1>1, <2>1, <2>2 DEF Gate, GateIsWatched
  <2>5. Shape'
    BY <1>1, <2>1 DEF Gate, Shape, Pcs
  <2>6. GateIsWatched'
    BY <1>1, <2>1, <2>3, <2>4 DEF Gate, GateIsWatched, Vetoed
  <2> QED
    BY <1>2, <2>5, <2>6 DEF Gate
<1> QED
  BY <1>4, <1>5

\* The stubs of simple mode leave the risk agent's answer alone.
LEMMA StubsKeepGate == Gate /\ (ScoreStubs \/ StubsFail) => Gate'
<1> SUFFICES ASSUME Gate, ScoreStubs \/ StubsFail PROVE Gate'
  OBVIOUS
<1> USE RiskIsAgent
<1>1. /\ pc = "stubs" /\ UNCHANGED <<cycle, task, pending, signal, channel>>
  BY DEF ScoreStubs, StubsFail, tasks, redis
<1>2. ~Vetoed /\ task[Risk] \notin {"scoring", "writing"}
  BY <1>1 DEF Gate, GateIsWatched
<1>3. signal = NoSignal /\ \A s \in channel : s.cycle \in 1..cycle /\ s.cycle < cycle
  BY <1>1, WorkingHasNoSignal DEF Working
<1>4. result' \in [Agents -> Results] /\ result'[Risk] = result[Risk] /\ pc' \in {"stubs", "idle"}
  <2>1. CASE ScoreStubs
    <3>1. PICK bias \in Votes, full \in SUBSET Analysts :
            result' = [x \in Agents |-> IF x = Risk THEN result[x]
                         ELSE Result("scored", IF x \in full THEN 1 ELSE 0, bias)]
      BY <2>1 DEF ScoreStubs
    <3>2. \A x \in Agents : Result("scored", IF x \in full THEN 1 ELSE 0, bias) \in Results
      BY ResultsAreTyped
    <3>3. result \in [Agents -> Results]
      BY DEF Gate, Shape
    <3> QED
      BY <2>1, <3>1, <3>2, <3>3, <1>1 DEF ScoreStubs
  <2>2. CASE StubsFail
    BY <2>2 DEF StubsFail, tasks, Gate, Shape
  <2> QED
    BY <2>1, <2>2
<1>5. Shape'
  BY <1>1, <1>4 DEF Gate, Shape, Pcs
<1>6. ~Vetoed' /\ GateIsWatched'
  BY <1>1, <1>2, <1>4 DEF GateIsWatched, Vetoed
<1>7. SignalIsOwn'
  BY <1>1, <1>3, <1>4 DEF SignalIsOwn
<1>8. VetoHolds'
  BY <1>6 DEF VetoHolds
<1> QED
  BY <1>5, <1>6, <1>7, <1>8 DEF Gate

\* The outcome of the cycle: after a veto, no position and no points.
LEMMA ConcludeKeepsGate == Gate /\ (EndVeto \/ Finalize) => Gate'
<1> SUFFICES ASSUME Gate, EndVeto \/ Finalize PROVE Gate'
  OBVIOUS
<1> USE RiskIsAgent
<1>1. /\ pc \in {"placeholders", "finalize"} /\ pc' = "cache"
      /\ UNCHANGED <<cycle, task, result, pending, channel>>
  BY DEF EndVeto, Finalize, Conclude, tasks, redis
<1>2. PICK d \in Decisions, sc \in {0, FinalScore(result)} :
        /\ signal' = Signal(cycle, d, sc)
        /\ pc # "finalize" => d = "No Position" /\ sc = 0
  <2>1. CASE EndVeto
    BY <2>1 DEF EndVeto, Conclude, Decisions
  <2>2. CASE Finalize
    BY <2>2, FinalDecisionKnown DEF Finalize, Conclude
  <2> QED
    BY <2>1, <2>2
<1>3. cycle \in Nat /\ cycle > 0 /\ \A s \in channel : s.cycle \in 1..cycle /\ s.cycle < cycle
  BY <1>1, WorkingHasNoSignal DEF Working
<1>4. /\ signal'.cycle = cycle /\ signal'.decision = d /\ signal'.score = sc
      /\ signal' # NoSignal
  <2>1. signal' = [cycle |-> cycle, decision |-> d, score |-> sc]
    BY <1>2 DEF Signal
  <2>2. signal'.cycle = cycle /\ signal'.decision = d /\ signal'.score = sc
    BY <2>1
  <2>3. NoSignal.cycle = 0
    BY DEF Signal, NoSignal
  <2>4. cycle # 0
    BY <1>3
  <2> QED
    BY <2>2, <2>3, <2>4
<1>5. Vetoed => d = "No Position" /\ sc = 0
  BY <1>2 DEF Gate, GateIsWatched
<1>6. Shape' /\ GateIsWatched'
  BY <1>1 DEF Gate, Shape, GateIsWatched, Pcs
<1>7. SignalIsOwn'
  BY <1>1, <1>3, <1>4 DEF SignalIsOwn
<1>8. VetoHolds'
  BY <1>1, <1>4, <1>5 DEF VetoHolds, Vetoed
<1> QED
  BY <1>6, <1>7, <1>8 DEF Gate

\* A score below the minimum is cached and not published; a veto's is (_persist_outputs).
LEMMA CacheKeepsGate == Gate /\ CacheSignal => Gate'
<1> SUFFICES ASSUME Gate, CacheSignal PROVE Gate'
  OBVIOUS
<1> USE RiskIsAgent
<1>1. /\ pc = "cache" /\ UNCHANGED <<cycle, task, result, pending, signal, channel>>
      /\ pc' = IF signal.score < MinTradeScore THEN "idle" ELSE "publish"
  BY DEF CacheSignal, tasks
<1>2. signal # NoSignal /\ MinTradeScore \in 1..100
  BY <1>1, PipelineAssumption DEF Gate, SignalIsOwn
<1>3. Vetoed => pc' = "idle"
  <2>1. Vetoed => signal.score = 0
    BY <1>2 DEF Gate, VetoHolds
  <2>2. 0 < MinTradeScore
    BY <1>2
  <2> QED
    BY <1>1, <2>1, <2>2
<1>4. Shape' /\ GateIsWatched'
  BY <1>1 DEF Gate, Shape, GateIsWatched, Pcs
<1>5. SignalIsOwn'
  BY <1>1, <1>2 DEF Gate, SignalIsOwn
<1>6. VetoHolds'
  BY <1>1, <1>3 DEF Gate, VetoHolds, Vetoed
<1> QED
  BY <1>4, <1>5, <1>6 DEF Gate

LEMMA PublishKeepsGate == Gate /\ Publish => Gate'
<1> SUFFICES ASSUME Gate, Publish PROVE Gate'
  OBVIOUS
<1> USE RiskIsAgent
<1>1. /\ pc = "publish" /\ pc' = "idle" /\ UNCHANGED <<cycle, task, result, pending, signal>>
      /\ channel' = channel \cup {signal} \/ channel' = channel
  BY DEF Publish, tasks
<1>2. cycle \in Nat /\ cycle > 0 /\ signal # NoSignal /\ signal.cycle = cycle /\ ~Vetoed
  BY <1>1 DEF Gate, Shape, SignalIsOwn, VetoHolds
<1>3. \A s \in channel' : s.cycle \in 1..cycle'
  BY <1>1, <1>2 DEF Gate, SignalIsOwn
<1>4. ~Vetoed'
  BY <1>1, <1>2 DEF Vetoed
<1>5. Shape' /\ GateIsWatched'
  BY <1>1 DEF Gate, Shape, GateIsWatched, Pcs
<1>6. SignalIsOwn'
  BY <1>1, <1>2, <1>3, <1>4 DEF Gate, SignalIsOwn
<1>7. VetoHolds'
  BY <1>4 DEF VetoHolds
<1> QED
  BY <1>5, <1>6, <1>7 DEF Gate

LEMMA HealthKeepsGate == ASSUME Gate, NEW a, Health(a) PROVE Gate'
<1>1. UNCHANGED <<pc, cycle, task, result, pending, signal, channel>>
  BY DEF Health, MarkDegraded, MarkFailed, MarkRecovered, RecordSample, SetState, tasks, redis
<1> QED
  BY <1>1, GateIsStable

\* Every step keeps what the gate needs.
LEMMA NextKeepsGate == Gate /\ [Next]_vars => Gate'
<1> SUFFICES ASSUME Gate, [Next]_vars PROVE Gate'
  OBVIOUS
<1>1. CASE StartCycle \/ ContextFails
  BY <1>1, StartKeepsGate
<1>2. CASE \E a \in Agents : TaskStep(a)
  BY <1>2, AnswerKeepsGate, WriteKeepsGate DEF TaskStep
<1>3. CASE Coroutine
  BY <1>3, CollectKeepsGate, StubsKeepGate, ConcludeKeepsGate, CacheKeepsGate,
     PublishKeepsGate, WriteKeepsGate DEF Coroutine
<1>4. CASE \E a \in Markers : Health(a)
  BY <1>4, HealthKeepsGate
<1>5. CASE UNCHANGED vars
  BY <1>5, GateIsStable DEF vars, tasks, redis
<1> QED
  BY <1>1, <1>2, <1>3, <1>4, <1>5 DEF Next

LEMMA GateHolds == Spec => []Gate
  BY InitGate, NextKeepsGate, PTL DEF Spec

-----------------------------------------------------------------------------
(* Theorems                                                                *)

\* A veto is never lost between the batches of the wait loop: whatever the other
\* agents do, the cycle it was pronounced in takes no position and announces
\* nothing (_execute_all_concurrently, _handle_veto).
THEOREM VetoIsKept == Spec => []VetoStops
<1>1. Gate => VetoStops
  <2> SUFFICES ASSUME Gate, Vetoed, Decided
               PROVE  signal.decision = "No Position" /\ \A s \in channel : s.cycle # cycle
    BY DEF VetoStops, Vetoed
  <2>1. signal # NoSignal
    BY DEF Gate, SignalIsOwn, Decided
  <2>2. signal.decision = "No Position"
    BY <2>1 DEF Gate, VetoHolds
  <2>3. cycle \in Nat /\ \A s \in channel : s.cycle \in 1..cycle /\ s.cycle < cycle
    BY DEF Gate, SignalIsOwn, Shape
  <2>4. \A s \in channel : s.cycle # cycle
    BY <2>3
  <2> QED
    BY <2>2, <2>4
<1> QED
  BY <1>1, GateHolds, PTL

-----------------------------------------------------------------------------
(* The refinement: the contract's variables, step by step                  *)

Phase == IF pc = "idle" THEN "idle" ELSE IF pc \in {"cache", "publish"} THEN "decided" ELSE "open"
Says  == IF Vetoed THEN "veto" ELSE IF result[Risk].kind = "scored" THEN "clear" ELSE "silent"
Taken == IF signal = NoSignal THEN "none" ELSE signal.decision
Told  == pc = "idle" /\ signal \in channel

LEMMA ContractVariables ==
  UNCHANGED <<Phase, Says, Taken, Told>> => UNCHANGED Contract!cvars
  BY DEF Contract!cvars, Phase, Says, Taken, Told, Vetoed

\* The contract's steps in these terms.
LEMMA ContractSteps ==
  /\ Phase = "idle" /\ Phase' = "open" /\ Says' = "silent" /\ Taken' = "none" /\ ~Told'
       => Contract!Open
  /\ Phase = "open" /\ Says = "silent" /\ Says' \in {"clear", "veto"}
       /\ Phase' = Phase /\ Taken' = Taken /\ Told' = Told => Contract!Speak
  /\ Phase = "open" /\ Phase' = "decided" /\ Says' = Says /\ Told' = Told
       /\ Taken' \in Decisions /\ (Says = "veto" => Taken' \notin Trades) => Contract!Decide
  /\ Phase = "decided" /\ Phase' = "idle" /\ Says' = Says /\ Taken' = Taken
       /\ (Told' => Says # "veto") => Contract!Close
  /\ Phase \in {"idle", "open"} /\ Phase' = "idle" /\ Says' \in {Says, "silent"}
       /\ Taken' = "none" /\ ~Told' => Contract!Abort
  BY DEF Contract!Open, Contract!Speak, Contract!Decide, Contract!Close, Contract!Abort,
     Contract!None, Phase, Says, Taken, Told, Vetoed, Decisions, Trades

Simulated == Contract!CNext \/ UNCHANGED <<Phase, Says, Taken, Told>>

LEMMA InitImplements == Init => Contract!CInit
<1> SUFFICES ASSUME Init PROVE Contract!CInit
  OBVIOUS
<1>1. /\ pc = "idle" /\ signal = NoSignal /\ channel = {}
      /\ result[Risk].kind = "none"
  BY RiskIsAgent, ResultsAreTyped DEF Init
<1> QED
  BY <1>1 DEF Contract!CInit, Contract!None

\* A step that changes neither where the coroutine is, nor the signal, the channel
\* or the risk agent's answer.
LEMMA QuietStep ==
  ASSUME UNCHANGED <<pc, signal, channel>>, result'[Risk] = result[Risk]
  PROVE  Simulated
  BY DEF Simulated, Phase, Says, Taken, Told, Vetoed

\* A step of the agents' work that leaves the signal and the risk agent's answer.
LEMMA WorkingStep ==
  ASSUME pc \in Working, pc' \in Working, UNCHANGED <<signal, channel>>,
         result'[Risk] = result[Risk]
  PROVE  Simulated
  BY DEF Simulated, Phase, Says, Taken, Told, Vetoed, Working

\* No signal is announced before the cycle has one.
LEMMA NothingTold == ASSUME Gate, signal = NoSignal PROVE ~Told /\ Taken = "none" /\ signal \notin channel
<1>1. NoSignal.cycle = 0
  BY DEF NoSignal, Signal
<1>2. \A s \in channel : s.cycle \in 1..cycle
  BY DEF Gate, SignalIsOwn
<1>3. cycle \in Nat
  BY DEF Gate, Shape
<1>4. NoSignal \notin channel
  BY <1>1, <1>2, <1>3
<1> QED
  BY <1>4 DEF Told, Taken

LEMMA StartImplements == ASSUME Gate, Gate', StartCycle \/ ContextFails PROVE Simulated
<1>1. /\ pc = "idle" /\ signal' = NoSignal
      /\ pc' = "waiting" \/ pc' = "idle"
  BY DEF StartCycle, ContextFails
<1>2. Taken' = "none" /\ ~Told'
  <2>1. cycle' \in Nat /\ \A s \in channel' : s.cycle \in 1..cycle'
    BY DEF Gate, Shape, SignalIsOwn
  <2>2. NoSignal.cycle = 0
    BY DEF NoSignal, Signal
  <2>3. NoSignal \notin channel'
    BY <2>1, <2>2
  <2> QED
    BY <1>1, <2>3 DEF Taken, Told, NoSignal, Signal
<1>3. Says' = "silent"
  <2>1. CASE StartCycle
    <3>1. result'[Risk] = IF Risk \in Dispatched /\ Skipped(Risk) THEN SkipResult(Risk) ELSE NoResult
      BY <2>1, RiskIsAgent DEF StartCycle
    <3>2. SkipResult(Risk).kind \in {"warmup", "failed"}
      BY ResultsAreTyped DEF SkipResult
    <3> QED
      BY <3>1, <3>2, ResultsAreTyped DEF Says, Vetoed
  <2>2. CASE ContextFails
    BY <2>2, RiskIsAgent, ResultsAreTyped DEF ContextFails, Says, Vetoed
  <2> QED
    BY <2>1, <2>2
<1>4. CASE pc' = "waiting"
  <2>1. Phase = "idle" /\ Phase' = "open"
    BY <1>1, <1>4 DEF Phase
  <2> QED
    BY <2>1, <1>2, <1>3, ContractSteps DEF Simulated, Contract!CNext
<1>5. CASE pc' = "idle"
  <2>1. Phase = "idle" /\ Phase' = "idle"
    BY <1>1, <1>5 DEF Phase
  <2> QED
    BY <2>1, <1>2, <1>3, ContractSteps DEF Simulated, Contract!CNext
<1> QED
  BY <1>1, <1>4, <1>5

\* The risk agent answers once, and every other answer is nobody's business.
LEMMA AnswerImplements ==
  ASSUME Gate, NEW a \in Agents, Answer(a) \/ Raise(a) \/ TimeOut(a)
  PROVE  Simulated
<1>1. /\ task[a] = "scoring" /\ UNCHANGED <<pc, signal, channel>>
      /\ a # Risk => result'[Risk] = result[Risk]
      /\ a = Risk => result'[Risk].kind \in {"scored", "veto", "exception", "timeout"}
  BY TaskEndsKinds
<1>2. CASE a = Risk
  <2>1. pc = "waiting" /\ result[Risk] = NoResult
    BY <1>1, <1>2 DEF Gate, GateIsWatched
  <2>2. Phase = "open" /\ Phase' = Phase /\ Taken' = Taken /\ Told' = Told
    BY <1>1, <2>1 DEF Phase, Taken, Told
  <2>3. Says = "silent" /\ Says' \in {"silent", "clear", "veto"}
    BY <1>1, <1>2, <2>1, ResultsAreTyped DEF Says, Vetoed
  <2> QED
    BY <2>2, <2>3, ContractSteps DEF Simulated, Contract!CNext
<1> QED
  BY <1>1, <1>2, QuietStep

\* The outcome of the cycle is taken once, after the risk agent's answer.
LEMMA ConcludeImplements == ASSUME Gate, Gate', EndVeto \/ Finalize PROVE Simulated
<1>1. /\ pc \in {"placeholders", "finalize"} /\ pc' = "cache"
      /\ UNCHANGED <<result, channel>>
  BY DEF EndVeto, Finalize, Conclude, tasks, redis
<1>2. Phase = "open" /\ Phase' = "decided" /\ Says' = Says /\ Told' = Told
  BY <1>1 DEF Phase, Says, Told, Vetoed
<1>3. signal' # NoSignal /\ signal'.decision \in Decisions
  BY <1>1 DEF Gate, SignalIsOwn, NoSignal, Signal
<1>4. Taken' \in Decisions
  BY <1>3 DEF Taken, NoSignal, Signal
<1>5. Says = "veto" => Taken' = "No Position"
  <2>1. Says = "veto" => Vetoed'
    BY <1>1 DEF Says, Vetoed
  <2>2. Vetoed' => signal'.decision = "No Position"
    BY <1>3 DEF Gate, VetoHolds, NoSignal, Signal
  <2> QED
    BY <1>3, <2>1, <2>2 DEF Taken, NoSignal, Signal
<1>6. Says = "veto" => Taken' \notin Trades
  BY <1>5 DEF Trades
<1> QED
  BY <1>2, <1>4, <1>6, ContractSteps DEF Simulated, Contract!CNext

\* The cycle ends, with its signal on the channel or not.
LEMMA CloseImplements == ASSUME Gate, CacheSignal \/ Publish PROVE Simulated
<1>1. /\ pc \in {"cache", "publish"} /\ UNCHANGED <<result, signal>>
  BY DEF CacheSignal, Publish, tasks
<1>2. Says' = Says /\ Taken' = Taken
  BY <1>1 DEF Says, Taken, Vetoed, NoSignal, Signal
<1>3. CASE pc' = "publish"
  <2>1. UNCHANGED <<Phase, Told>>
    BY <1>1, <1>3 DEF Phase, Told
  <2> QED
    BY <1>2, <2>1 DEF Simulated
<1>4. CASE pc' = "idle"
  <2>1. Phase = "decided" /\ Phase' = "idle"
    BY <1>1, <1>4 DEF Phase
  <2>2. Told' => ~Vetoed
    <3>1. CASE Publish
      BY <3>1 DEF Publish, Gate, VetoHolds
    <3>2. CASE CacheSignal
      <4>1. channel' = channel /\ signal' = signal /\ pc = "cache"
        BY <3>2 DEF CacheSignal
      <4>2. signal # NoSignal /\ signal.cycle = cycle /\ cycle \in Nat
        BY <4>1 DEF Gate, SignalIsOwn, Shape
      <4>3. \A s \in channel : s.cycle < cycle
        BY <4>1 DEF Gate, SignalIsOwn
      <4> QED
        BY <4>1, <4>2, <4>3 DEF Told
    <3> QED
      BY <3>1, <3>2
  <2>3. Told' => Says # "veto"
    BY <2>2 DEF Says
  <2> QED
    BY <1>2, <2>1, <2>3, ContractSteps DEF Simulated, Contract!CNext
<1> QED
  BY <1>3, <1>4 DEF CacheSignal, Publish

\* In simple mode the stubs are scored, or the cycle raises.
LEMMA StubsImplement == ASSUME Gate, Gate', ScoreStubs \/ StubsFail PROVE Simulated
<1>1. pc = "stubs" /\ UNCHANGED <<signal, channel>> /\ signal = NoSignal
  BY WorkingHasNoSignal DEF ScoreStubs, StubsFail, redis, Working
<1>2. CASE ScoreStubs
  <2>1. pc' = "stubs" /\ result'[Risk] = result[Risk]
    BY <1>1, <1>2, RiskIsAgent DEF ScoreStubs
  <2> QED
    BY <1>1, <2>1, WorkingStep DEF Working
<1>3. CASE StubsFail
  <2>1. pc' = "idle" /\ result' = result
    BY <1>3 DEF StubsFail, tasks
  <2>2. signal \notin channel
    BY <1>1, NothingTold
  <2>3. Phase = "open" /\ Phase' = "idle" /\ Says' = Says
    BY <1>1, <2>1 DEF Phase, Says, Vetoed
  <2>4. Taken' = "none" /\ ~Told'
    BY <1>1, <2>2 DEF Taken, Told, NoSignal, Signal
  <2> QED
    BY <2>3, <2>4, ContractSteps DEF Simulated, Contract!CNext
<1> QED
  BY <1>2, <1>3

LEMMA NextImplements == ASSUME Gate, Gate', [Next]_vars PROVE Simulated
<1>1. CASE StartCycle \/ ContextFails
  BY <1>1, StartImplements
<1>2. ASSUME NEW a \in Agents, TaskStep(a) \/ Placeholder(a) \/ WriteStub(a) PROVE Simulated
  <2>1. CASE Answer(a) \/ Raise(a) \/ TimeOut(a)
    BY <2>1, AnswerImplements
  <2>2. CASE WriteStatus(a) \/ Placeholder(a)
    <3>1. UNCHANGED <<pc, result, signal, channel>>
      BY <2>2, StatusWriteSets DEF WriteStatus, Placeholder
    <3> QED
      BY <3>1, QuietStep
  <2>3. CASE WriteStub(a)
    <3>1. pc \in Working /\ pc' \in Working /\ UNCHANGED <<result, signal, channel>>
      BY <2>3, StatusWriteSets DEF WriteStub, Working
    <3> QED
      BY <3>1, WorkingStep
  <2> QED
    BY <1>2, <2>1, <2>2, <2>3 DEF TaskStep
<1>3. CASE CollectVeto \/ Collect
  <2>1. pc \in Working /\ pc' \in Working /\ UNCHANGED <<result, signal, channel>>
    BY <1>3 DEF CollectVeto, Collect, Working, tasks, redis
  <2> QED
    BY <2>1, WorkingStep
<1>4. ASSUME NEW a, Health(a) PROVE Simulated
  <2>1. UNCHANGED <<pc, result, signal, channel>>
    BY <1>4 DEF Health, MarkDegraded, MarkFailed, MarkRecovered, RecordSample, SetState, tasks, redis
  <2> QED
    BY <2>1, QuietStep
<1>5. CASE UNCHANGED vars
  BY <1>5, QuietStep DEF vars, tasks, redis
<1> QED
  BY <1>1, <1>2, <1>3, <1>4, <1>5, StubsImplement, ConcludeImplements, CloseImplements
     DEF Next, Coroutine

\* Every cycle of the pipeline, whatever its agents, time-outs and failed writes,
\* keeps the contract: one answer of the risk gate, one decision after it, no
\* trade after a veto, and nothing announced but the decision taken.
THEOREM PipelineImplementsContract == Spec => ContractSpec
<1>1. Gate /\ Gate' /\ [Next]_vars => [Contract!CNext]_(Contract!cvars)
  BY NextImplements, ContractVariables DEF Simulated
<1> QED
  BY <1>1, InitImplements, GateHolds, PTL DEF Spec, ContractSpec, Contract!CSpec

-----------------------------------------------------------------------------
(* Earned trades.  A trade the gates let through stays the decision of the *)
(* results it was made from, because no task is left that could change one *)

\* A task is at work only while the coroutine waits for it; what has been collected
\* has finished; an agent that has not scored has neither points nor a vote; and a
\* trade is the decision of the results as they stand.
TradeStands ==
  /\ \A a \in Agents : task[a] \in {"scoring", "writing"} => pc = "waiting" /\ a \in pending
  /\ pc = "waiting" /\ ~simple => \A a \in Agents \ pending : task[a] = "done"
  /\ pc = "finalize" /\ ~simple => \A a \in Agents : task[a] = "done"
  /\ pc = "stubs" => simple
  /\ \A a \in Agents : result[a].kind # "scored" => result[a].points = 0 /\ result[a].vote = "neutral"
  /\ signal.decision \in Trades =>
       /\ signal.decision = FinalDecision(result)
       /\ ~simple => \A a \in Agents : task[a] = "done"

LEMMA NoSignalNoTrade == NoSignal.decision \notin Trades
  BY DEF NoSignal, Signal, Trades

LEMMA QuietResults ==
  /\ \A k \in {"none", "warmup", "failed", "timeout", "exception", "veto"} :
       ZeroResult(k).points = 0 /\ ZeroResult(k).vote = "neutral"
  /\ NoResult.points = 0 /\ NoResult.vote = "neutral"
  /\ \A r \in Answers \cup RiskAnswers :
       r.kind # "scored" => r.points = 0 /\ r.vote = "neutral"
  BY DEF ZeroResult, NoResult, Result, Answers, RiskAnswers

\* A step that touches none of these variables keeps it.
LEMMA TradeIsStable ==
  ASSUME TradeStands, UNCHANGED <<pc, simple, task, result, pending, signal>>
  PROVE  TradeStands'
<1>1. FinalDecision(result') = FinalDecision(result)
  OBVIOUS
<1> QED
  BY <1>1 DEF TradeStands

LEMMA InitTrade == Init => TradeStands
  BY NoSignalNoTrade, QuietResults DEF Init, TradeStands, NoResult, ZeroResult, Result

LEMMA StartKeepsTrade == ASSUME StartCycle \/ ContextFails PROVE TradeStands'
<1>1. signal'.decision \notin Trades
  BY NoSignalNoTrade DEF StartCycle, ContextFails
<1>2. CASE StartCycle
  <2>1. /\ pc' = "waiting" /\ pending' = Dispatched /\ simple' = simple
        /\ task' = [x \in Agents |-> IF x \notin Dispatched THEN "none"
                                     ELSE IF Skipped(x) THEN "writing" ELSE "scoring"]
        /\ result' = [x \in Agents |-> IF x \in Dispatched /\ Skipped(x)
                                         THEN SkipResult(x) ELSE NoResult]
    BY <1>2 DEF StartCycle
  <2>2. \A x \in Agents : SkipResult(x).points = 0 /\ SkipResult(x).vote = "neutral"
    BY QuietResults DEF SkipResult
  <2>3. \A x \in Agents : result'[x].points = 0 /\ result'[x].vote = "neutral"
    BY <2>1, <2>2, QuietResults
  <2>4. \A x \in Agents : task'[x] \in {"scoring", "writing"} => x \in pending'
    BY <2>1
  <2>5. ~simple' => Agents \ pending' = {}
    BY <2>1 DEF Dispatched
  <2> QED
    BY <1>1, <2>1, <2>3, <2>4, <2>5 DEF TradeStands
<1>3. CASE ContextFails
  <2>1. /\ pc' = "idle" /\ task' = [x \in Agents |-> "none"]
        /\ result' = [x \in Agents |-> NoResult]
    BY <1>3 DEF ContextFails
  <2> QED
    BY <1>1, <2>1, QuietResults DEF TradeStands
<1> QED
  BY <1>2, <1>3

LEMMA AnswerKeepsTrade ==
  ASSUME Gate, TradeStands, NEW a \in Agents, Answer(a) \/ Raise(a) \/ TimeOut(a)
  PROVE  TradeStands'
<1>1. PICK r : /\ TaskEnds(a, r)
               /\ r.kind # "scored" => r.points = 0 /\ r.vote = "neutral"
  BY QuietResults DEF Answer, Raise, TimeOut
<1>2. /\ task \in [Agents -> TaskStates] /\ result \in [Agents -> Results]
      /\ pc = "waiting" /\ a \in pending /\ signal = NoSignal
  BY <1>1, WorkingHasNoSignal DEF Gate, Shape, TradeStands, TaskEnds, Working
<1>3. /\ task' = [task EXCEPT ![a] = "writing"] /\ result' = [result EXCEPT ![a] = r]
      /\ UNCHANGED <<pc, simple, pending, signal>>
  BY <1>1 DEF TaskEnds
<1>4. \A x \in Agents \ {a} : task'[x] = task[x] /\ result'[x] = result[x]
  BY <1>2, <1>3
<1>5. task'[a] = "writing" /\ result'[a] = r
  BY <1>2, <1>3
<1>6. signal'.decision \notin Trades
  BY <1>2, <1>3, NoSignalNoTrade
<1>7. \A x \in Agents : task'[x] \in {"scoring", "writing"} => x \in pending'
  BY <1>2, <1>3, <1>4 DEF TradeStands
<1>8. \A x \in Agents : result'[x].kind # "scored" => result'[x].points = 0 /\ result'[x].vote = "neutral"
  BY <1>1, <1>4, <1>5 DEF TradeStands
<1>9. ~simple' => \A x \in Agents \ pending' : task'[x] = "done"
  BY <1>2, <1>3, <1>4 DEF TradeStands
<1> QED
  BY <1>2, <1>3, <1>6, <1>7, <1>8, <1>9 DEF TradeStands

LEMMA WriteKeepsTrade ==
  ASSUME Gate, TradeStands, NEW a \in Agents, WriteStatus(a) \/ Placeholder(a) \/ WriteStub(a)
  PROVE  TradeStands'
<1>1. UNCHANGED <<simple, cycle, result, pending, signal, channel>>
  BY StatusWriteSets DEF WriteStatus, Placeholder, WriteStub
<1>2. CASE WriteStatus(a)
  <2>1. task[a] = "writing" /\ task' = [task EXCEPT ![a] = "done"] /\ pc' = pc
    BY <1>2 DEF WriteStatus
  <2>2. task \in [Agents -> TaskStates] /\ pc = "waiting" /\ signal = NoSignal
    BY <2>1, WorkingHasNoSignal DEF Gate, Shape, TradeStands, Working
  <2>3. \A x \in Agents : task'[x] = task[x] \/ task'[x] = "done"
    BY <2>1, <2>2
  <2>4. signal'.decision \notin Trades
    BY <1>1, <2>2, NoSignalNoTrade
  <2>5. pc' = "waiting" /\ pending' = pending /\ simple' = simple /\ result' = result
    BY <1>1, <2>1, <2>2
  <2>6. \A x \in Agents : task'[x] \in {"scoring", "writing"} => x \in pending'
    BY <2>3, <2>5 DEF TradeStands
  <2>7. ~simple' => \A x \in Agents \ pending' : task'[x] = "done"
    BY <2>2, <2>3, <2>5 DEF TradeStands
  <2>8. \A x \in Agents : result'[x].kind # "scored" => result'[x].points = 0 /\ result'[x].vote = "neutral"
    BY <2>5 DEF TradeStands
  <2> QED
    BY <2>4, <2>5, <2>6, <2>7, <2>8 DEF TradeStands
<1>3. CASE Placeholder(a)
  <2>1. UNCHANGED <<pc, task>>
    BY <1>3 DEF Placeholder
  <2> QED
    BY <1>1, <2>1, TradeIsStable
<1>4. CASE WriteStub(a)
  <2>1. pc = "stubs" /\ pc' \in {"stubs", "finalize"} /\ task' = task /\ simple /\ simple'
    BY <1>1, <1>4 DEF WriteStub, TradeStands
  <2>2. signal'.decision \notin Trades
    BY <1>1, <2>1, WorkingHasNoSignal, NoSignalNoTrade DEF Working
  <2> QED
    BY <1>1, <2>1, <2>2 DEF TradeStands
<1> QED
  BY <1>2, <1>3, <1>4

LEMMA CollectKeepsTrade ==
  ASSUME Gate, TradeStands, CollectVeto \/ Collect
  PROVE  TradeStands'
<1>1. /\ pc = "waiting" /\ UNCHANGED <<simple, result, signal>>
      /\ task \in [Agents -> TaskStates]
  BY DEF CollectVeto, Collect, tasks, redis, Gate, Shape
<1>2. signal'.decision \notin Trades
  BY <1>1, WorkingHasNoSignal, NoSignalNoTrade DEF Working
<1>3. \A x \in Agents : result'[x].kind # "scored" => result'[x].points = 0 /\ result'[x].vote = "neutral"
  BY <1>1 DEF TradeStands
<1>4. \A x \in Batch : task[x] = "done"
  BY DEF Batch
<1>5. CASE CollectVeto
  <2>1. /\ pc' = "placeholders"
        /\ task' = [x \in Agents |-> IF x \in pending \ Batch THEN "cancelled" ELSE task[x]]
    BY <1>5 DEF CollectVeto
  <2>2. \A x \in Agents : task'[x] \notin {"scoring", "writing"}
    BY <1>1, <1>4, <2>1 DEF TradeStands
  <2> QED
    BY <1>2, <1>3, <2>1, <2>2 DEF TradeStands
<1>6. CASE Collect
  <2>1. /\ task' = task /\ pending' = pending \ Batch
        /\ pc' = IF pending' # {} THEN "waiting" ELSE IF simple THEN "stubs" ELSE "finalize"
    BY <1>6 DEF Collect, tasks
  <2>2. \A x \in Agents : task'[x] \in {"scoring", "writing"} => x \in pending'
    BY <1>1, <1>4, <2>1 DEF TradeStands
  <2>3. ~simple => \A x \in Agents \ pending' : task'[x] = "done"
    BY <1>1, <1>4, <2>1 DEF TradeStands
  <2> QED
    BY <1>1, <1>2, <1>3, <2>1, <2>2, <2>3 DEF TradeStands
<1> QED
  BY <1>5, <1>6

LEMMA StubsKeepTrade ==
  ASSUME Gate, TradeStands, ScoreStubs \/ StubsFail
  PROVE  TradeStands'
<1>1. /\ pc = "stubs" /\ simple /\ UNCHANGED <<simple, task, signal>>
  BY DEF ScoreStubs, StubsFail, tasks, redis, TradeStands
<1>2. signal'.decision \notin Trades
  BY <1>1, WorkingHasNoSignal, NoSignalNoTrade DEF Working
<1>3. \A x \in Agents : task'[x] \notin {"scoring", "writing"}
  BY <1>1 DEF TradeStands
<1>4. \A x \in Agents : result'[x].kind # "scored" => result'[x].points = 0 /\ result'[x].vote = "neutral"
  <2>1. CASE ScoreStubs
    <3>1. PICK bias \in Votes, full \in SUBSET Analysts :
            result' = [x \in Agents |-> IF x = Risk THEN result[x]
                         ELSE Result("scored", IF x \in full THEN 1 ELSE 0, bias)]
      BY <2>1 DEF ScoreStubs
    <3>2. \A x \in Agents : result'[x] = result[x] \/ result'[x].kind = "scored"
      BY <3>1 DEF Result
    <3> QED
      BY <3>2 DEF TradeStands
  <2>2. CASE StubsFail
    BY <2>2 DEF StubsFail, tasks, TradeStands
  <2> QED
    BY <2>1, <2>2
<1>5. pc' \in {"stubs", "idle"} /\ simple'
  BY <1>1 DEF ScoreStubs, StubsFail
<1> QED
  BY <1>2, <1>3, <1>4, <1>5 DEF TradeStands

\* The decision is that of the results, and these stay.
LEMMA ConcludeKeepsTrade ==
  ASSUME TradeStands, EndVeto \/ Finalize
  PROVE  TradeStands'
<1>1. /\ pc \in {"placeholders", "finalize"} /\ pc' = "cache"
      /\ UNCHANGED <<simple, task, result, pending>>
  BY DEF EndVeto, Finalize, Conclude, tasks
<1>2. signal'.decision \in Trades => signal'.decision = FinalDecision(result) /\ pc = "finalize"
  <2>1. CASE EndVeto
    <3>1. signal' = Signal(cycle, "No Position", 0)
      BY <2>1 DEF EndVeto, Conclude
    <3> QED
      BY <3>1 DEF Signal, Trades
  <2>2. CASE Finalize
    <3>1. signal' = Signal(cycle, FinalDecision(result), FinalScore(result)) /\ pc = "finalize"
      BY <2>2 DEF Finalize, Conclude
    <3> QED
      BY <3>1 DEF Signal
  <2> QED
    BY <2>1, <2>2
<1>3. FinalDecision(result') = FinalDecision(result)
  BY <1>1
<1>4. signal'.decision \in Trades =>
        /\ signal'.decision = FinalDecision(result')
        /\ ~simple' => \A x \in Agents : task'[x] = "done"
  BY <1>1, <1>2, <1>3 DEF TradeStands
<1>5. \A x \in Agents : task'[x] \notin {"scoring", "writing"}
  BY <1>1 DEF TradeStands
<1>6. \A x \in Agents : result'[x].kind # "scored" => result'[x].points = 0 /\ result'[x].vote = "neutral"
  BY <1>1 DEF TradeStands
<1> QED
  BY <1>1, <1>4, <1>5, <1>6 DEF TradeStands

LEMMA PersistKeepsTrade ==
  ASSUME TradeStands, CacheSignal \/ Publish
  PROVE  TradeStands'
<1>1. /\ pc \in {"cache", "publish"} /\ pc' \in {"publish", "idle"}
      /\ UNCHANGED <<simple, task, result, pending, signal>>
  BY DEF CacheSignal, Publish, tasks
<1>2. FinalDecision(result') = FinalDecision(result)
  BY <1>1
<1>3. \A x \in Agents : task'[x] \notin {"scoring", "writing"}
  BY <1>1 DEF TradeStands
<1> QED
  BY <1>1, <1>2, <1>3 DEF TradeStands

LEMMA HealthKeepsTrade == ASSUME TradeStands, NEW a, Health(a) PROVE TradeStands'
<1>1. UNCHANGED <<pc, simple, task, result, pending, signal>>
  BY DEF Health, MarkDegraded, MarkFailed, MarkRecovered, RecordSample, SetState, tasks
<1> QED
  BY <1>1, TradeIsStable

LEMMA NextKeepsTrade == Gate /\ TradeStands /\ [Next]_vars => TradeStands'
<1> SUFFICES ASSUME Gate, TradeStands, [Next]_vars PROVE TradeStands'
  OBVIOUS
<1>1. CASE StartCycle \/ ContextFails
  BY <1>1, StartKeepsTrade
<1>2. CASE \E a \in Agents : TaskStep(a)
  BY <1>2, AnswerKeepsTrade, WriteKeepsTrade DEF TaskStep
<1>3. CASE Coroutine
  BY <1>3, CollectKeepsTrade, StubsKeepTrade, ConcludeKeepsTrade, PersistKeepsTrade,
     WriteKeepsTrade DEF Coroutine
<1>4. CASE \E a \in Markers : Health(a)
  BY <1>4, HealthKeepsTrade
<1>5. CASE UNCHANGED vars
  BY <1>5, TradeIsStable DEF vars, tasks
<1> QED
  BY <1>1, <1>2, <1>3, <1>4, <1>5 DEF Next

LEMMA TradeHolds == Spec => []TradeStands
  BY InitTrade, NextKeepsTrade, GateHolds, PTL DEF Spec

\* A trade that is announced has a quorum of categories, more votes for it than
\* against it and the minimum score, counting only agents whose tasks ended
\* (_check_quorum, _finalize_concurrent_execution, _persist_outputs).
THEOREM TradesAreEarned == Spec => []EarnedTrades
<1>1. Gate /\ TradeStands => EarnedTrades
  <2> SUFFICES ASSUME Gate, TradeStands, signal \in channel, signal.decision \in Trades
               PROVE  EarnedTrades
    BY DEF EarnedTrades
  <2> DEFINE side == IF signal.decision \in {"Strong Buy", "Buy"} THEN "bullish" ELSE "bearish"
             other == IF side = "bullish" THEN "bearish" ELSE "bullish"
             ended == {a \in Analysts : simple \/ task[a] = "done"}
             silent == {a \in ended : result[a].kind \in {"warmup", "timeout", "exception"}}
             spoke == {a \in ended : result[a].kind = "scored"}
  <2>2. /\ signal.decision = FinalDecision(result)
        /\ simple \/ \A a \in Agents : task[a] = "done"
    BY DEF TradeStands
  <2>1. Cardinality({Category[a] : a \in ended \ silent}) >= MinCategories
    <3>1. CheckQuorum(result)
      BY <2>2 DEF FinalDecision, Trades
    <3>2. {a \in Analysts : result[a].kind \notin {"warmup", "timeout", "exception"}} = ended \ silent
      BY <2>2, RiskIsAgent
    <3> QED
      BY <3>1, <3>2 DEF CheckQuorum
  <2>3. /\ signal.decision = CalculateDecision(Score(result), DetermineDirection(result))
        /\ ~(Score(result) < MinTradeScore)
    BY <2>2 DEF FinalDecision, Trades
  <2>4. DetermineDirection(result) = side
    BY <2>3 DEF CalculateDecision, DetermineDirection, Trades
  <2>5. CountDirection(result, side) > CountDirection(result, other)
    <3>1. CASE side = "bullish"
      BY <2>4, <3>1 DEF DetermineDirection
    <3>2. CASE side = "bearish"
      BY <2>4, <3>2 DEF DetermineDirection
    <3> QED
      BY <3>1, <3>2
  <2>6. \A a \in Analysts : a \notin spoke => result[a].points = 0 /\ result[a].vote = "neutral"
    BY <2>2, RiskIsAgent DEF TradeStands
  <2>7. \A a \in Analysts : result[a].vote \in Votes
    BY RiskIsAgent DEF Gate, Shape, Results
  <2>8. {a \in spoke : result[a].vote = side} = {a \in Analysts : result[a].vote = side}
    BY <2>6
  <2>9. {a \in spoke : result[a].vote \notin {side, "neutral"}} = {a \in Analysts : result[a].vote = other}
    BY <2>6, <2>7 DEF Votes
  <2>10. {a \in spoke : result[a].points = 1} = {a \in Analysts : result[a].points = 1}
    BY <2>6
  <2>12. Cardinality({a \in spoke : result[a].vote = side})
           > Cardinality({a \in spoke : result[a].vote \notin {side, "neutral"}})
    BY <2>5, <2>8, <2>9 DEF CountDirection
  <2>13. ~(Points({a \in spoke : result[a].points = 1}) < MinTradeScore)
    <3>1. {a \in Analysts : result[a].points = 1} \in SUBSET Analysts
      OBVIOUS
    <3> DEFINE total == Points({a \in Analysts : result[a].points = 1})
    <3>2. total \in Nat
      BY <3>1, PointsNatural
    <3>3. ~((IF total >= 100 THEN 100 ELSE total) < MinTradeScore)
      BY <2>3 DEF Score
    <3> HIDE DEF total
    <3>4. ~(total < MinTradeScore)
      BY <3>2, <3>3, PipelineAssumption
    <3> QED
      BY <3>4, <2>10 DEF total
  <2> QED
    BY <2>1, <2>12, <2>13 DEF EarnedTrades
<1> QED
  BY <1>1, GateHolds, TradeHolds, PTL

-----------------------------------------------------------------------------
(* The health entries of a cycle of agents                                 *)

Healths == {"WARMING_UP", "READY", "DEGRADED", "FAILED"}
Entry(c, shown) == [cycle |-> c, shown |-> shown]

\* What the entry of an agent is, given how its task stands.
EntryStands(a) ==
  /\ task[a] # "none"
  /\ task[a] \in {"writing", "done"} =>
       /\ report[a] \in Healths
       /\ report[a] = "READY" => result[a].kind \in {"scored", "veto"}
  /\ task[a] = "done" /\ a \notin lost => status[a] = Entry(cycle, report[a])
  /\ task[a] = "cancelled" => pc # "waiting"
  /\ pc = "placeholders" /\ a \in todo => task[a] = "cancelled"
  /\ task[a] = "cancelled" /\ a \notin lost /\ ~(pc = "placeholders" /\ a \in todo)
       => status[a] = Entry(cycle, "SKIPPED")

\* In a cycle of agents, from its start to the next.
InCycle == ~simple /\ (pc # "idle" \/ signal # NoSignal)

StatusStands ==
  /\ DOMAIN status = Agents /\ status = [a \in Agents |-> status[a]]
  /\ DOMAIN report = Agents /\ report = [a \in Agents |-> report[a]]
  /\ InCycle => \A a \in Agents : EntryStands(a)

LEMMA DeriveHealthIs ==
  ASSUME NEW st, NEW r
  PROVE  /\ DeriveHealth(st, r) \in Healths
         /\ DeriveHealth(st, r) = "READY" => r.kind \notin {"warmup", "timeout", "exception"}
                                              /\ st # "FAILED"
  BY DEF DeriveHealth, Healths

\* One step of one agent's task or entry.
LEMMA OneEntry ==
  ASSUME StatusStands, NEW a \in Agents, InCycle' => InCycle, EntryStands(a)',
         InCycle => \A x \in Agents \ {a} : EntryStands(x)',
         DOMAIN status' = Agents /\ status' = [x \in Agents |-> status'[x]],
         DOMAIN report' = Agents /\ report' = [x \in Agents |-> report'[x]]
  PROVE  StatusStands'
  BY DEF StatusStands

\* An agent of which nothing changes.
LEMMA EntryIsStable ==
  ASSUME NEW x \in Agents, EntryStands(x), pc' = pc, cycle' = cycle,
         task'[x] = task[x], result'[x] = result[x], report'[x] = report[x],
         status'[x] = status[x], x \in lost <=> x \in lost', x \in todo <=> x \in todo'
  PROVE  EntryStands(x)'
  BY DEF EntryStands, Entry

\* SetStatus writes the entry of one agent, or loses it.
LEMMA SetStatusWrites ==
  ASSUME StatusStands, NEW a \in Agents, NEW shown, SetStatus(a, shown)
  PROVE  /\ DOMAIN status' = Agents /\ status' = [x \in Agents |-> status'[x]]
         /\ report' = report /\ cycle' = cycle /\ result' = result /\ simple' = simple
         /\ signal' = signal
         /\ \A x \in Agents \ {a} : status'[x] = status[x] /\ (x \in lost <=> x \in lost')
         /\ a \notin lost' => a \notin lost /\ status'[a] = Entry(cycle, shown)
<1>1. DOMAIN status = Agents /\ status = [x \in Agents |-> status[x]]
  BY DEF StatusStands
<1>2. report' = report /\ cycle' = cycle /\ result' = result /\ simple' = simple /\ signal' = signal
  BY DEF SetStatus
<1>3. CASE status' = [status EXCEPT ![a] = [cycle |-> cycle, shown |-> shown]] /\ lost' = lost
  BY <1>1, <1>2, <1>3 DEF Entry
<1>4. CASE lost' = lost \cup {a} /\ status' = status
  BY <1>1, <1>2, <1>4
<1> QED
  BY <1>3, <1>4 DEF SetStatus

LEMMA InitStatus == Init => StatusStands
<1> SUFFICES ASSUME Init PROVE StatusStands
  OBVIOUS
<1>1. ~InCycle
  BY DEF Init, InCycle
<1>2. agentState \in [Agents -> Healths] /\ report = agentState
  BY DEF Init, Healths
<1>3. status = [a \in Agents |-> [cycle |-> 0, shown |-> "absent"]]
  BY DEF Init
<1> QED
  BY <1>1, <1>2, <1>3 DEF StatusStands

LEMMA StartKeepsStatus == ASSUME StatusStands, StartCycle \/ ContextFails PROVE StatusStands'
<1>1. status' = status /\ DOMAIN status = Agents /\ status = [a \in Agents |-> status[a]]
  BY DEF StartCycle, ContextFails, StatusStands
<1>2. CASE StartCycle
  <2>1. /\ pc' = "waiting"
        /\ task' = [x \in Agents |-> IF x \notin Dispatched THEN "none"
                                     ELSE IF Skipped(x) THEN "writing" ELSE "scoring"]
        /\ result' = [x \in Agents |-> IF x \in Dispatched /\ Skipped(x)
                                         THEN SkipResult(x) ELSE NoResult]
        /\ report' = [x \in Agents |-> DeriveHealth(agentState[x], result'[x])]
        /\ simple' = simple
    BY <1>2 DEF StartCycle
  <2>2. ASSUME NEW x \in Agents, ~simple PROVE EntryStands(x)'
    <3>1. task'[x] = IF Skipped(x) THEN "writing" ELSE "scoring"
      BY <2>1, <2>2 DEF Dispatched
    <3>2. report'[x] \in Healths
      BY <2>1, DeriveHealthIs
    <3>3. Skipped(x) => report'[x] # "READY"
      <4> SUFFICES ASSUME Skipped(x) PROVE report'[x] # "READY"
        OBVIOUS
      <4>1. result'[x] = SkipResult(x)
        BY <2>1, <2>2 DEF Dispatched
      <4>2. SkipResult(x).kind = "warmup" \/ agentState[x] = "FAILED"
        BY ResultsAreTyped DEF SkipResult
      <4>3. report'[x] = DeriveHealth(agentState[x], result'[x])
        BY <2>1
      <4> QED
        BY <4>1, <4>2, <4>3, DeriveHealthIs
    <3> QED
      BY <2>1, <3>1, <3>2, <3>3 DEF EntryStands
  <2>3. DOMAIN report' = Agents /\ report' = [x \in Agents |-> report'[x]]
    BY <2>1
  <2> QED
    BY <1>1, <2>1, <2>2, <2>3 DEF StatusStands, InCycle
<1>3. CASE ContextFails
  BY <1>1, <1>3 DEF ContextFails, StatusStands, InCycle, NoSignal, Signal
<1> QED
  BY <1>2, <1>3

LEMMA AnswerKeepsStatus ==
  ASSUME Gate, TradeStands, StatusStands, NEW a \in Agents, Answer(a) \/ Raise(a) \/ TimeOut(a)
  PROVE  StatusStands'
<1>1. PICK r : TaskEnds(a, r) /\ r.kind \in {"scored", "veto", "exception", "timeout"}
  BY ResultsAreTyped DEF Answer, Raise, TimeOut
<1>2. /\ task \in [Agents -> TaskStates] /\ result \in [Agents -> Results]
      /\ DOMAIN report = Agents /\ report = [x \in Agents |-> report[x]]
      /\ DOMAIN status = Agents /\ status = [x \in Agents |-> status[x]]
      /\ pc = "waiting"
  BY <1>1 DEF Gate, Shape, StatusStands, TradeStands, TaskEnds
<1>3. /\ task' = [task EXCEPT ![a] = "writing"] /\ result' = [result EXCEPT ![a] = r]
      /\ report' = [report EXCEPT ![a] = DeriveHealth(agentState[a], r)]
      /\ UNCHANGED <<pc, cycle, simple, todo, signal, status, lost>>
  BY <1>1 DEF TaskEnds, redis
<1>4. /\ task'[a] = "writing" /\ result'[a] = r
      /\ report'[a] = DeriveHealth(agentState[a], r)
      /\ DOMAIN report' = Agents /\ report' = [x \in Agents |-> report'[x]]
  BY <1>2, <1>3
<1>5. \A x \in Agents \ {a} : /\ task'[x] = task[x] /\ result'[x] = result[x]
                              /\ report'[x] = report[x]
  BY <1>2, <1>3
<1>6. EntryStands(a)'
  BY <1>1, <1>2, <1>3, <1>4, DeriveHealthIs DEF EntryStands
<1>7. InCycle => \A x \in Agents \ {a} : EntryStands(x)'
  BY <1>3, <1>5, EntryIsStable DEF StatusStands
<1>8. InCycle' => InCycle
  BY <1>3 DEF InCycle, NoSignal, Signal
<1> QED
  BY <1>2, <1>3, <1>4, <1>6, <1>7, <1>8, OneEntry

LEMMA WriteStatusKeepsStatus ==
  ASSUME Gate, TradeStands, StatusStands, NEW a \in Agents, WriteStatus(a)
  PROVE  StatusStands'
<1>1. /\ task[a] = "writing" /\ task' = [task EXCEPT ![a] = "done"]
      /\ UNCHANGED <<pc, todo>> /\ SetStatus(a, report[a])
  BY DEF WriteStatus
<1>2. task \in [Agents -> TaskStates] /\ pc = "waiting"
  BY <1>1 DEF Gate, Shape, TradeStands
<1>3. /\ DOMAIN status' = Agents /\ status' = [x \in Agents |-> status'[x]]
      /\ report' = report /\ cycle' = cycle /\ result' = result /\ simple' = simple
      /\ signal' = signal
      /\ \A x \in Agents \ {a} : status'[x] = status[x] /\ (x \in lost <=> x \in lost')
      /\ a \notin lost' => a \notin lost /\ status'[a] = Entry(cycle, report[a])
  BY <1>1, SetStatusWrites
<1>4. task'[a] = "done" /\ \A x \in Agents \ {a} : task'[x] = task[x]
  BY <1>1, <1>2
<1>5. DOMAIN report' = Agents /\ report' = [x \in Agents |-> report'[x]]
  BY <1>3 DEF StatusStands
<1>6. InCycle => EntryStands(a)'
  <2> SUFFICES ASSUME InCycle PROVE EntryStands(a)'
    OBVIOUS
  <2>1. report[a] \in Healths /\ (report[a] = "READY" => result[a].kind \in {"scored", "veto"})
    BY <1>1 DEF StatusStands, EntryStands
  <2> QED
    BY <1>1, <1>2, <1>3, <1>4, <2>1 DEF EntryStands, Entry
<1>7. InCycle => \A x \in Agents \ {a} : EntryStands(x)'
  BY <1>1, <1>3, <1>4, EntryIsStable DEF StatusStands
<1>8. InCycle' => InCycle
  BY <1>1, <1>3 DEF InCycle, NoSignal, Signal
<1> QED
  BY <1>3, <1>5, <1>6, <1>7, <1>8 DEF StatusStands

\* A cancelled agent's placeholder, or a stub's entry.
LEMMA PlaceholderKeepsStatus ==
  ASSUME TradeStands, StatusStands, NEW a \in Agents, Placeholder(a) \/ WriteStub(a)
  PROVE  StatusStands'
<1>1. PICK shown : SetStatus(a, shown) /\ (Placeholder(a) => shown = "SKIPPED")
  BY DEF Placeholder, WriteStub
<1>2. /\ DOMAIN status' = Agents /\ status' = [x \in Agents |-> status'[x]]
      /\ report' = report /\ cycle' = cycle /\ result' = result /\ simple' = simple
      /\ signal' = signal
      /\ \A x \in Agents \ {a} : status'[x] = status[x] /\ (x \in lost <=> x \in lost')
      /\ a \notin lost' => a \notin lost /\ status'[a] = Entry(cycle, shown)
  BY <1>1, SetStatusWrites
<1>3. DOMAIN report' = Agents /\ report' = [x \in Agents |-> report'[x]]
  BY <1>2 DEF StatusStands
<1>4. CASE WriteStub(a)
  <2>1. simple'
    BY <1>2, <1>4 DEF WriteStub, TradeStands
  <2> QED
    BY <1>2, <1>3, <2>1 DEF StatusStands, InCycle
<1>5. CASE Placeholder(a)
  <2>1. /\ pc = "placeholders" /\ a \in todo /\ todo' = todo \ {a} /\ UNCHANGED <<pc, task>>
        /\ shown = "SKIPPED"
    BY <1>1, <1>5 DEF Placeholder
  <2>2. InCycle => task[a] = "cancelled"
    BY <2>1 DEF StatusStands, EntryStands
  <2>3. InCycle => EntryStands(a)'
    BY <1>2, <2>1, <2>2 DEF EntryStands, Entry
  <2>4. InCycle => \A x \in Agents \ {a} : EntryStands(x)'
    BY <1>2, <2>1, EntryIsStable DEF StatusStands
  <2>5. InCycle' => InCycle
    BY <1>2, <2>1 DEF InCycle, NoSignal, Signal
  <2> QED
    BY <1>2, <1>3, <2>3, <2>4, <2>5 DEF StatusStands
<1> QED
  BY <1>4, <1>5

\* The tasks a veto cancels are those whose entry is still to be written.
LEMMA CollectKeepsStatus ==
  ASSUME Gate, TradeStands, StatusStands, CollectVeto \/ Collect
  PROVE  StatusStands'
<1>1. /\ pc = "waiting" /\ UNCHANGED <<cycle, simple, result, report, signal, lost>>
      /\ DOMAIN report = Agents /\ report = [x \in Agents |-> report[x]]
      /\ DOMAIN status = Agents /\ status = [x \in Agents |-> status[x]]
  BY DEF CollectVeto, Collect, tasks, redis, StatusStands
<1>2. InCycle' => InCycle
  BY <1>1 DEF InCycle
<1>3. CASE CollectVeto
  <2>1. PICK landed \in SUBSET {x \in pending : task[x] = "writing"} :
          status' = [x \in Agents |-> IF x \in landed
                       THEN [cycle |-> cycle, shown |-> report[x]] ELSE status[x]]
    BY <1>3 DEF CollectVeto
  <2>2. /\ task' = [x \in Agents |-> IF x \in pending \ Batch THEN "cancelled" ELSE task[x]]
        /\ todo' = pending \ Batch /\ pc' = "placeholders"
    BY <1>3 DEF CollectVeto
  <2>3. landed \subseteq pending \ Batch
    BY <2>1 DEF Batch
  <2>4. ASSUME NEW x \in Agents, EntryStands(x) PROVE EntryStands(x)'
    <3>1. CASE x \in pending \ Batch
      <4>1. task'[x] = "cancelled" /\ x \in todo'
        BY <2>2, <3>1
      <4> QED
        BY <2>2, <4>1 DEF EntryStands
    <3>2. CASE x \notin pending \ Batch
      <4>1. task'[x] = task[x] /\ status'[x] = status[x] /\ x \notin todo'
        BY <2>1, <2>2, <2>3, <3>2
      <4>2. task[x] # "cancelled"
        BY <1>1, <2>4 DEF EntryStands
      <4> QED
        BY <1>1, <2>2, <2>4, <4>1, <4>2 DEF EntryStands, Entry
    <3> QED
      BY <3>1, <3>2
  <2>5. DOMAIN status' = Agents /\ status' = [x \in Agents |-> status'[x]]
    BY <2>1
  <2> QED
    BY <1>1, <1>2, <2>4, <2>5 DEF StatusStands
<1>4. CASE Collect
  <2>1. UNCHANGED <<task, todo, status>> /\ pc' \in {"waiting", "stubs", "finalize"}
    BY <1>4 DEF Collect, tasks, redis
  <2>2. ASSUME NEW x \in Agents, EntryStands(x) PROVE EntryStands(x)'
    BY <1>1, <2>1, <2>2 DEF EntryStands, Entry
  <2> QED
    BY <1>1, <1>2, <2>1, <2>2 DEF StatusStands
<1> QED
  BY <1>3, <1>4

\* Once every placeholder is written, where the coroutine is no longer matters.
LEMMA LateKeepsStatus ==
  ASSUME TradeStands, StatusStands, ScoreStubs \/ StubsFail \/ EndVeto \/ Finalize \/ CacheSignal \/ Publish
  PROVE  StatusStands'
<1>1. CASE ScoreStubs \/ StubsFail
  <2>1. simple' /\ UNCHANGED <<status, report>>
    BY <1>1 DEF ScoreStubs, StubsFail, TradeStands, tasks, redis
  <2> QED
    BY <2>1 DEF StatusStands, InCycle
<1>2. CASE EndVeto \/ Finalize \/ CacheSignal \/ Publish
  <2>1. /\ UNCHANGED <<cycle, simple, task, result, report, status, todo, lost>>
        /\ pc \in {"placeholders", "finalize", "cache", "publish"}
        /\ pc = "placeholders" => todo = {}
        /\ pc' \in {"cache", "publish", "idle"}
    BY <1>2 DEF EndVeto, Finalize, Conclude, CacheSignal, Publish, tasks, redis
  <2>2. ASSUME NEW x \in Agents, EntryStands(x) PROVE EntryStands(x)'
    BY <2>1, <2>2 DEF EntryStands, Entry
  <2>3. InCycle' => InCycle
    BY <2>1 DEF InCycle
  <2> QED
    BY <2>1, <2>2, <2>3 DEF StatusStands
<1> QED
  BY <1>1, <1>2

LEMMA HealthKeepsStatus ==
  ASSUME StatusStands, UNCHANGED <<pc, cycle, simple, tasks, todo, signal, redis>>
  PROVE  StatusStands'
<1>1. UNCHANGED <<pc, cycle, simple, task, result, report, todo, signal, status, lost>>
  BY DEF tasks, redis
<1>2. InCycle' => InCycle
  BY <1>1 DEF InCycle
<1>3. ASSUME NEW x \in Agents, EntryStands(x) PROVE EntryStands(x)'
  BY <1>1, <1>3 DEF EntryStands, Entry
<1> QED
  BY <1>1, <1>2, <1>3 DEF StatusStands

LEMMA NextKeepsStatus == Gate /\ TradeStands /\ StatusStands /\ [Next]_vars => StatusStands'
<1> SUFFICES ASSUME Gate, TradeStands, StatusStands, [Next]_vars PROVE StatusStands'
  OBVIOUS
<1>1. CASE StartCycle \/ ContextFails
  BY <1>1, StartKeepsStatus
<1>2. CASE \E a \in Agents : TaskStep(a)
  BY <1>2, AnswerKeepsStatus, WriteStatusKeepsStatus DEF TaskStep
<1>3. CASE Coroutine
  BY <1>3, CollectKeepsStatus, LateKeepsStatus, PlaceholderKeepsStatus DEF Coroutine
<1>4. ASSUME NEW a, Health(a) PROVE StatusStands'
  <2>1. UNCHANGED <<pc, cycle, simple, tasks, todo, signal, redis>>
    BY <1>4 DEF Health, MarkDegraded, MarkFailed, MarkRecovered, RecordSample, SetState
  <2> QED
    BY <2>1, HealthKeepsStatus
<1>5. CASE UNCHANGED vars
  BY <1>5, HealthKeepsStatus DEF vars
<1> QED
  BY <1>1, <1>2, <1>3, <1>4, <1>5 DEF Next

LEMMA StatusHolds == Spec => []StatusStands
  BY InitStatus, NextKeepsStatus, GateHolds, TradeHolds, PTL DEF Spec

\* When a cycle of agents is over, every health entry whose write did not fail was
\* written by that cycle: SKIPPED for the agents it cancelled, READY only for agents
\* that answered (_persist_agent_status,
\* _persist_cancelled_agent_placeholder).
THEOREM StatusIsTheCycles == Spec => []StatusIsCurrent
<1>1. Gate /\ TradeStands /\ StatusStands => StatusIsCurrent
  <2> SUFFICES ASSUME Gate, TradeStands, StatusStands, Decided, ~simple,
                      NEW a \in Agents \ lost
               PROVE  /\ status[a].cycle = cycle
                      /\ status[a].shown = "SKIPPED" <=> task[a] = "cancelled"
                      /\ status[a].shown = "READY" => result[a].kind \in {"scored", "veto"}
    BY DEF StatusIsCurrent
  <2>1. InCycle /\ pc \notin {"waiting", "placeholders"}
    BY DEF InCycle, Decided
  <2>2. EntryStands(a) /\ task[a] \in TaskStates /\ task[a] \notin {"scoring", "writing"}
    BY <2>1 DEF StatusStands, TradeStands, Gate, Shape
  <2>3. CASE task[a] = "done"
    BY <2>2, <2>3 DEF EntryStands, Entry, Healths
  <2>4. CASE task[a] = "cancelled"
    BY <2>1, <2>2, <2>4 DEF EntryStands, Entry
  <2> QED
    BY <2>2, <2>3, <2>4 DEF EntryStands, TaskStates
<1> QED
  BY <1>1, GateHolds, TradeHolds, StatusHolds, PTL

-----------------------------------------------------------------------------
(* Types.  What Gate leaves open: the agents' health, what Redis and the   *)
(* subscribers hold, and that every score published is on the 0..100       *)
(* scale, which rests on the scorer's sum being a natural number.          *)

Shown == [cycle : 0..MaxCycles,
          shown : {"absent", "WARMING_UP", "READY", "DEGRADED", "FAILED", "SKIPPED"}]
Signals == [cycle : 0..MaxCycles, decision : Decisions, score : 0..100]

AgentsTyped ==
  /\ agentState \in [Agents -> Healths] /\ simple \in BOOLEAN
  /\ cycle \in 0..MaxCycles
  /\ report \in [Agents -> Healths]
  /\ pending \subseteq Agents /\ todo \subseteq Agents

OutputsTyped ==
  /\ lost \subseteq Agents
  /\ status \in [Agents -> Shown]
  /\ {signal, cache, latest} \cup channel \subseteq Signals
  /\ failures \in 0..MaxWriteFailures

Typed == AgentsTyped /\ OutputsTyped

\* Points are capped at 100 and never negative (_normalise_score).
LEMMA ScoreOnScale == ASSUME NEW r PROVE Score(r) \in 0..100
<1> DEFINE full == {a \in Analysts : r[a].points = 1}
<1>1. full \in SUBSET Analysts
  OBVIOUS
<1>2. Points(full) \in Nat
  BY <1>1, PointsNatural
<1> QED
  BY <1>2 DEF Score

\* An agent that reaches its full score never lowers the cycle's score, whatever
\* the shares and the order the agents are summed in (_fixed_weight_score,
\* _normalise_score).
THEOREM FullScoresNeverHurt ==
  ASSUME NEW r, NEW q,
         \A a \in Analysts : r[a].points = 1 => q[a].points = 1
  PROVE  Score(r) <= Score(q)
<1> DEFINE S == {a \in Analysts : r[a].points = 1}
           T == {a \in Analysts : q[a].points = 1}
<1>1. S \in SUBSET Analysts /\ T \in SUBSET Analysts /\ S \subseteq T
  OBVIOUS
<1>2. Score(r) = (IF Points(S) >= 100 THEN 100 ELSE Points(S))
  BY DEF Score
<1>3. Score(q) = (IF Points(T) >= 100 THEN 100 ELSE Points(T))
  BY DEF Score
<1> HIDE DEF S, T
<1>4. Points(S) \in Nat /\ Points(T) \in Nat /\ Points(S) <= Points(T)
  BY <1>1, PointsNatural, PointsMonotone
<1> QED
  BY <1>2, <1>3, <1>4

LEMMA FinalScoreOnScale == ASSUME NEW r PROVE FinalScore(r) \in 0..100
  BY ScoreOnScale DEF FinalScore

LEMMA HealthIsKnown == ASSUME NEW st \in Healths, NEW r PROVE DeriveHealth(st, r) \in Healths
  BY DEF DeriveHealth, Healths

LEMMA NoSignalTyped == NoSignal \in Signals
  BY PipelineAssumption DEF NoSignal, Signal, Signals, Decisions

LEMMA InitTyped == Init => Typed
<1> SUFFICES ASSUME Init PROVE Typed
  OBVIOUS
<1>1. agentState \in [Agents -> Healths] /\ report = agentState
  BY DEF Init, Healths
<1>2. cycle \in 0..MaxCycles /\ failures \in 0..MaxWriteFailures
  BY PipelineAssumption DEF Init
<1>3. status \in [Agents -> Shown]
  BY PipelineAssumption DEF Init, Shown
<1>4. {signal, cache, latest} \cup channel \subseteq Signals
  BY NoSignalTyped DEF Init
<1> QED
  BY <1>1, <1>2, <1>3, <1>4 DEF Init, Typed, AgentsTyped, OutputsTyped

\* A cycle that starts reports what the agents' states call for.
LEMMA StartKeepsTyped == ASSUME Typed, StartCycle \/ ContextFails PROVE Typed'
<1> USE DEF Typed, AgentsTyped, OutputsTyped
<1>1. cycle' \in 0..MaxCycles
  BY PipelineAssumption DEF StartCycle, ContextFails
<1>2. signal' \in Signals /\ UNCHANGED <<cache, latest, channel, status, failures, agentState, simple>>
  BY NoSignalTyped DEF StartCycle, ContextFails
<1>3. report' \in [Agents -> Healths]
  <2>1. CASE StartCycle
    <3>1. report' = [a \in Agents |-> DeriveHealth(agentState[a], result'[a])]
      BY <2>1 DEF StartCycle
    <3>2. \A a \in Agents : agentState[a] \in Healths
      OBVIOUS
    <3> QED
      BY <3>1, <3>2, HealthIsKnown
  <2>2. CASE ContextFails
    BY <2>2 DEF ContextFails
  <2> QED
    BY <2>1, <2>2
<1>4. pending' \subseteq Agents /\ todo' \subseteq Agents /\ lost' \subseteq Agents
  BY RiskIsAgent DEF StartCycle, ContextFails, Dispatched
<1>5. OutputsTyped'
  BY <1>2, <1>4
<1>6. AgentsTyped'
  BY <1>1, <1>2, <1>3, <1>4
<1> QED
  BY <1>5, <1>6

LEMMA AnswerKeepsTyped ==
  ASSUME Typed, NEW a \in Agents, Answer(a) \/ Raise(a) \/ TimeOut(a)
  PROVE  Typed'
<1> USE DEF Typed, AgentsTyped, OutputsTyped
<1>1. PICK r : TaskEnds(a, r)
  BY DEF Answer, Raise, TimeOut
<1>2. DeriveHealth(agentState[a], r) \in Healths
  BY HealthIsKnown
<1>3. report' \in [Agents -> Healths]
  BY <1>1, <1>2 DEF TaskEnds
<1>4. UNCHANGED <<agentState, simple, cycle, pending, todo, signal, redis>>
  BY <1>1 DEF TaskEnds
<1> QED
  BY <1>3, <1>4 DEF redis

\* A status write puts down an entry of this cycle, or is counted as failed.
LEMMA StatusWriteTyped ==
  ASSUME Typed, NEW a \in Agents, NEW shown, SetStatus(a, shown),
         shown \in Healths \cup {"SKIPPED"}, todo' \subseteq Agents
  PROVE  Typed'
<1> USE DEF Typed, AgentsTyped, OutputsTyped
<1>1. UNCHANGED <<agentState, simple, cycle, report, pending, signal, cache, latest, channel>>
  BY DEF SetStatus
<1>2. [cycle |-> cycle, shown |-> shown] \in Shown
  BY DEF Shown, Healths
<1>3. status' \in [Agents -> Shown]
  BY <1>2 DEF SetStatus
<1>4. lost' \subseteq Agents /\ failures' \in 0..MaxWriteFailures
  BY PipelineAssumption DEF SetStatus
<1>5. AgentsTyped'
  BY <1>1
<1> QED
  BY <1>1, <1>3, <1>4, <1>5

LEMMA WriteKeepsTyped ==
  ASSUME Typed, NEW a \in Agents, WriteStatus(a) \/ Placeholder(a) \/ WriteStub(a)
  PROVE  Typed'
<1>1. todo' \subseteq Agents
  BY DEF Typed, AgentsTyped, WriteStatus, Placeholder, WriteStub
<1>2. CASE WriteStatus(a)
  <2>1. SetStatus(a, report[a]) /\ report[a] \in Healths
    BY <1>2 DEF WriteStatus, Typed, AgentsTyped
  <2> QED
    BY <1>1, <2>1, StatusWriteTyped
<1>3. CASE Placeholder(a)
  BY <1>1, <1>3, StatusWriteTyped DEF Placeholder
<1>4. CASE WriteStub(a)
  <2>1. agentState[a] \in Healths /\ SetStatus(a, DeriveHealth(agentState[a], result[a]))
    BY <1>4 DEF WriteStub, Typed, AgentsTyped
  <2>2. DeriveHealth(agentState[a], result[a]) \in Healths
    BY <2>1, HealthIsKnown
  <2> QED
    BY <1>1, <2>1, <2>2, StatusWriteTyped
<1> QED
  BY <1>2, <1>3, <1>4

LEMMA CollectKeepsTyped ==
  ASSUME Typed, CollectVeto \/ Collect \/ ScoreStubs \/ StubsFail
  PROVE  Typed'
<1> USE DEF Typed, AgentsTyped, OutputsTyped
<1>1. /\ UNCHANGED <<agentState, simple, cycle, report, signal, cache, latest, channel,
                     failures, lost>>
      /\ pending' \subseteq Agents /\ todo' \subseteq Agents
  BY RiskIsAgent DEF CollectVeto, Collect, ScoreStubs, StubsFail, tasks, redis
<1>2. status' \in [Agents -> Shown]
  <2>1. CASE CollectVeto
    <3>1. PICK landed : status' = [a \in Agents |-> IF a \in landed
                    THEN [cycle |-> cycle, shown |-> report[a]] ELSE status[a]]
      BY <2>1 DEF CollectVeto
    <3>2. \A a \in Agents : [cycle |-> cycle, shown |-> report[a]] \in Shown
      BY DEF Shown, Healths
    <3> QED
      BY <3>1, <3>2
  <2>2. CASE Collect \/ ScoreStubs \/ StubsFail
    BY <2>2 DEF Collect, ScoreStubs, StubsFail, redis
  <2> QED
    BY <2>1, <2>2
<1>3. AgentsTyped'
  BY <1>1
<1> QED
  BY <1>1, <1>2, <1>3

\* The signal is built from a known decision and a score on the scale.
LEMMA ConcludeKeepsTyped == ASSUME Typed, EndVeto \/ Finalize PROVE Typed'
<1> USE DEF Typed, AgentsTyped, OutputsTyped
<1>1. \E d \in Decisions, sc \in 0..100 : Conclude(d, sc)
  <2>1. CASE EndVeto
    <3>1. Conclude("No Position", 0)
      BY <2>1 DEF EndVeto
    <3>2. "No Position" \in Decisions /\ 0 \in 0..100
      BY DEF Decisions
    <3> QED
      BY <3>1, <3>2
  <2>2. CASE Finalize
    <3>1. /\ FinalDecision(result) \in Decisions /\ FinalScore(result) \in 0..100
          /\ Conclude(FinalDecision(result), FinalScore(result))
      BY <2>2, FinalDecisionKnown, FinalScoreOnScale DEF Finalize
    <3> QED
      BY <3>1
  <2> QED
    BY <2>1, <2>2
<1>2. PICK d \in Decisions, sc \in 0..100 : Conclude(d, sc)
  BY <1>1
<1>3. signal' \in Signals
  BY <1>2 DEF Conclude, Signal, Signals
<1>4. UNCHANGED <<agentState, simple, cycle, report, pending, todo, redis>>
  BY <1>2 DEF Conclude, tasks
<1> QED
  BY <1>3, <1>4 DEF redis

LEMMA PersistKeepsTyped == ASSUME Typed, CacheSignal \/ Publish PROVE Typed'
<1> USE DEF Typed, AgentsTyped, OutputsTyped
<1>1. UNCHANGED <<agentState, simple, cycle, report, pending, todo, signal, status, lost>>
  BY DEF CacheSignal, Publish, tasks
<1>2. failures' \in 0..MaxWriteFailures
  BY PipelineAssumption DEF CacheSignal, Publish
<1>3. {cache', latest'} \cup channel' \subseteq Signals
  BY DEF CacheSignal, Publish
<1>4. AgentsTyped'
  BY <1>1
<1> QED
  BY <1>1, <1>2, <1>3, <1>4

LEMMA HealthKeepsTyped == ASSUME Typed, NEW a \in Agents, Health(a) PROVE Typed'
<1>1. PICK s \in Healths : SetState(a, s)
  BY DEF Health, MarkDegraded, MarkFailed, MarkRecovered, RecordSample, Healths
<1>2. agentState' \in [Agents -> Healths]
  BY <1>1 DEF SetState, Typed, AgentsTyped
<1>3. UNCHANGED <<simple, cycle, report, pending, todo, signal, redis>>
  BY <1>1 DEF SetState, tasks
<1> QED
  BY <1>2, <1>3 DEF Typed, AgentsTyped, OutputsTyped, redis

LEMMA NextKeepsTyped == Typed /\ [Next]_vars => Typed'
<1> SUFFICES ASSUME Typed, [Next]_vars PROVE Typed'
  OBVIOUS
<1>1. CASE StartCycle \/ ContextFails
  BY <1>1, StartKeepsTyped
<1>2. CASE \E a \in Agents : TaskStep(a)
  BY <1>2, AnswerKeepsTyped, WriteKeepsTyped DEF TaskStep
<1>3. CASE Coroutine
  BY <1>3, CollectKeepsTyped, ConcludeKeepsTyped, PersistKeepsTyped, WriteKeepsTyped
  DEF Coroutine
<1>4. CASE \E a \in Markers : Health(a)
  BY <1>4, HealthKeepsTyped, PipelineAssumption
<1>5. CASE UNCHANGED vars
  BY <1>5 DEF vars, tasks, redis, Typed, AgentsTyped, OutputsTyped
<1> QED
  BY <1>1, <1>2, <1>3, <1>4, <1>5 DEF Next

\* Every variable keeps its type, for every set of agents, every share and every
\* number of cycles: above all, no score leaves the scale the gates and the
\* subscribers read it on (_normalise_score, _persist_outputs).
THEOREM PipelineIsTyped == Spec => []TypeOK
<1>1. Gate /\ Typed => TypeOK
  <2> SUFFICES ASSUME Gate, Typed PROVE TypeOK
    OBVIOUS
  <2>1. /\ pc \in Pcs /\ task \in [Agents -> TaskStates] /\ result \in [Agents -> Results]
    BY DEF Gate, Shape
  <2> QED
    BY <2>1 DEF TypeOK, Typed, AgentsTyped, OutputsTyped, Shown, Signals, Healths, Pcs, TaskStates
<1>2. Spec => []Typed
  BY InitTyped, NextKeepsTyped, PTL DEF Spec
<1> QED
  BY <1>1, <1>2, GateHolds, PTL

-----------------------------------------------------------------------------
(* No task is stranded                                                     *)

\* No agent's task outlives the wait of the cycle that created it, and the
\* coroutine waits only while there is something to wait for: a task that scores,
\* writes its status or has ended, never one that was not created, was cancelled
\* or was collected before (_execute_all_concurrently, asyncio.wait).
NoneStranded ==
  /\ \A a \in Agents : task[a] \in {"scoring", "writing"} => pc = "waiting" /\ a \in pending
  /\ pc = "waiting" =>
       /\ pending # {} /\ pending \subseteq Agents
       /\ \A a \in pending : task[a] \in {"scoring", "writing", "done"}

LEMMA DispatchedIsSome == Dispatched # {} /\ Dispatched \subseteq Agents
  BY DEF Dispatched, Agents

LEMMA NextStrandsNone == Gate /\ NoneStranded /\ [Next]_vars => NoneStranded'
<1> SUFFICES ASSUME Gate, NoneStranded, [Next]_vars PROVE NoneStranded'
  OBVIOUS
<1> USE DEF NoneStranded
<1>0. task \in [Agents -> TaskStates]
  BY DEF Gate, Shape
<1>1. CASE UNCHANGED <<pc, task, pending>>
  BY <1>1
<1>2. CASE StartCycle
  <2>1. /\ pc' = "waiting" /\ pending' = Dispatched
        /\ task' = [a \in Agents |-> IF a \notin Dispatched THEN "none"
                                     ELSE IF Skipped(a) THEN "writing" ELSE "scoring"]
    BY <1>2 DEF StartCycle
  <2> QED
    BY <2>1, DispatchedIsSome
<1>3. CASE ContextFails
  <2>1. pc = "idle" /\ pc' = "idle" /\ task' = [a \in Agents |-> "none"]
    BY <1>3 DEF ContextFails
  <2> QED
    BY <2>1
<1>4. ASSUME NEW a \in Agents, Answer(a) \/ Raise(a) \/ TimeOut(a) PROVE NoneStranded'
  BY <1>0, <1>4, TaskEndsKinds
<1>5. ASSUME NEW a \in Agents, WriteStatus(a) PROVE NoneStranded'
  <2>1. /\ task[a] = "writing" /\ task' = [task EXCEPT ![a] = "done"]
        /\ UNCHANGED <<pc, pending>>
    BY <1>5 DEF WriteStatus, SetStatus
  <2> QED
    BY <1>0, <2>1
<1>6. CASE CollectVeto
  <2>1. /\ pc = "waiting" /\ pc' = "placeholders"
        /\ task' = [a \in Agents |-> IF a \in pending \ Batch THEN "cancelled" ELSE task[a]]
    BY <1>6 DEF CollectVeto
  <2>2. \A a \in Agents : task'[a] \notin {"scoring", "writing"}
    BY <2>1 DEF Batch
  <2> QED
    BY <2>1, <2>2
<1>7. CASE Collect
  <2>1. /\ pc = "waiting" /\ pending' = pending \ Batch /\ task' = task
        /\ pc' = IF pending' # {} THEN "waiting" ELSE IF simple THEN "stubs" ELSE "finalize"
    BY <1>7 DEF Collect, tasks
  <2>2. \A a \in Agents : task[a] \in {"scoring", "writing"} => a \in pending'
    BY <2>1 DEF Batch
  <2>3. pc' = "waiting" <=> pending' # {}
    BY <2>1
  <2> QED
    BY <2>1, <2>2, <2>3
<1>8. CASE \/ EndVeto \/ ScoreStubs \/ StubsFail \/ Finalize \/ CacheSignal \/ Publish
           \/ \E a \in Agents : Placeholder(a) \/ WriteStub(a)
  <2>1. pc # "waiting" /\ pc' # "waiting" /\ task' = task
    BY <1>8 DEF EndVeto, ScoreStubs, StubsFail, Finalize, Conclude, CacheSignal, Publish,
                Placeholder, WriteStub, tasks
  <2> QED
    BY <2>1
<1>9. CASE \E a \in Markers : Health(a)
  BY <1>1, <1>9 DEF Health, MarkDegraded, MarkFailed, MarkRecovered, RecordSample, SetState, tasks
<1> QED
  BY <1>1, <1>2, <1>3, <1>4, <1>5, <1>6, <1>7, <1>8, <1>9 DEF Next, TaskStep, Coroutine, vars, tasks

\* However the agents answer, hang, are vetoed or cancelled, the coroutine can go
\* on and no task of one cycle is left to report in the next.
THEOREM NoTaskIsStranded == Spec => []NoneStranded
<1>1. Init => NoneStranded
  BY DEF Init, NoneStranded
<1> QED
  BY <1>1, NextStrandsNone, GateHolds, PTL DEF Spec

=============================================================================
