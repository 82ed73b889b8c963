------------------------- MODULE TradingHaltProofs -------------------------
(***************************************************************************)
(* TradingHalt for every number of operators, assets, outages, restarts    *)
(* and failed reads.                                                       *)
(***************************************************************************)
EXTENDS TradingHalt, TLAPS

\* The allowance of analyses is a number (CheckKey, Analyse).
LEMMA AllowanceIsNat == Allowance \in Nat
  BY UniverseAssumption, BoundAssumption DEF Allowance

\* A cycle in progress has an asset left, so that todo stays a number.
CycleHasWork == loop = "cycle" => todo > 0

Typing == TypeOK /\ CycleHasWork

\* The inductive form of the type invariant.
LEMMA TypingHolds == Spec => []Typing
<1>1. Init => Typing
  BY UniverseAssumption, BoundAssumption, AllowanceIsNat
     DEF Init, Typing, CycleHasWork, TypeOK, Stores, Events
<1>2. Typing /\ [Next]_vars => Typing'
  <2> SUFFICES ASSUME Typing, [Next]_vars PROVE Typing'
    OBVIOUS
  <2> USE UniverseAssumption, BoundAssumption, AllowanceIsNat
      DEF Typing, CycleHasWork, TypeOK, stores, budget, history, Stores, Events, HaltSteps, ResumeSteps, Goto, Raise
  <2>1. CASE UNCHANGED vars
    BY <2>1 DEF vars
  <2>2. ASSUME NEW o \in Operators, RequestHalt(o) PROVE Typing'
    BY <2>2 DEF RequestHalt
  <2>3. ASSUME NEW o \in Operators, RequestResume(o) PROVE Typing'
    BY <2>3 DEF RequestResume
  <2>4. ASSUME NEW o \in Operators, SetKey(o) PROVE Typing'
    <3>1. CASE Reachable(proxy)
      <4>1. key' = [key EXCEPT ![proxy] = TRUE] /\ wrote' = [wrote EXCEPT ![o] = proxy]
        BY <2>4, <3>1 DEF SetKey
      <4>4. key' \in [Stores -> BOOLEAN]
        BY <4>1
      <4>5. wrote' \in [Operators -> Stores]
        BY <4>1
      <4>2. pc' \in [Operators -> {"idle"} \cup HaltSteps \cup ResumeSteps]
        BY <2>4, <3>1 DEF SetKey
      <4>3. UNCHANGED <<up, proxy, channel, audit, standing, after, contested, loop, todo, budget>>
        BY <2>4, <3>1 DEF SetKey
      <4> QED
        BY <4>4, <4>5, <4>2, <4>3
    <3>2. CASE ~Reachable(proxy)
      BY <2>4, <3>2 DEF SetKey
    <3> QED
      BY <3>1, <3>2
  <2>5. ASSUME NEW o \in Operators, PublishHalt(o) PROVE Typing'
    <3>1. CASE Reachable(proxy)
      <4>1. channel' \in [Stores -> Events]
        BY <2>5, <3>1 DEF PublishHalt
      <4>2. pc' \in [Operators -> {"idle"} \cup HaltSteps \cup ResumeSteps]
        BY <2>5, <3>1 DEF PublishHalt
      <4>3. UNCHANGED <<up, proxy, key, audit, history, loop, todo, budget>>
        BY <2>5, <3>1 DEF PublishHalt
      <4> QED
        BY <4>1, <4>2, <4>3
    <3>2. CASE ~Reachable(proxy)
      BY <2>5, <3>2 DEF PublishHalt
    <3> QED
      BY <3>1, <3>2
  <2>6. ASSUME NEW o \in Operators, AnswerHalt(o) PROVE Typing'
    BY <2>6 DEF AnswerHalt
  <2>7. ASSUME NEW o \in Operators, DeleteKey(o) PROVE Typing'
    BY <2>7 DEF DeleteKey
  <2>8. ASSUME NEW o \in Operators, SetTrigger(o) PROVE Typing'
    BY <2>8 DEF SetTrigger
  <2>9. ASSUME NEW o \in Operators, PublishResume(o) PROVE Typing'
    BY <2>9 DEF PublishResume
  <2>10. ASSUME NEW o \in Operators, AnswerResume(o) PROVE Typing'
    BY <2>10 DEF AnswerResume
  <2>11. CASE CheckKey
    BY <2>11 DEF CheckKey, Schedule, CycleOf
  <2>12. CASE MissKey
    BY <2>12 DEF MissKey, Schedule, CycleOf
  <2>13. CASE Analyse
    BY <2>13 DEF Analyse
  <2>14. CASE Awake
    BY <2>14 DEF Awake
  <2>15. CASE LoseServer
    <3>1. outages' \in 0..MaxOutages
      BY <2>15 DEF LoseServer
    <3>2. up' \in BOOLEAN
      BY <2>15 DEF LoseServer
    <3> QED
      BY <2>15, <3>1, <3>2 DEF LoseServer
  <2>18. CASE ServerReturns
    BY <2>18 DEF ServerReturns
  <2>16. CASE Restart
    BY <2>16 DEF Restart
  <2>17. CASE Reconnect
    BY <2>17 DEF Reconnect
  <2> QED
    BY <2>1, <2>2, <2>3, <2>4, <2>5, <2>6, <2>7, <2>8, <2>9, <2>10, <2>11, <2>12,
       <2>13, <2>14, <2>15, <2>16, <2>17, <2>18 DEF Next, Call, Loop
<1> QED
  BY <1>1, <1>2, PTL DEF Spec

\* Every variable keeps its type (KillSwitch, RedisRuntime, _loop).
THEOREM TypeCorrect == Spec => []TypeOK
  BY TypingHolds, PTL DEF Typing

-----------------------------------------------------------------------------
(* A halt the server took is kept *)

\* While a resume runs no halt stands and every halt in progress is contested
\* (KillSwitch.resume).
ResumeContests ==
  Resuming => /\ standing = {}
              /\ \A o \in Operators : pc[o] \in HaltSteps => o \in contested

\* The server still has the key of a halt it took and nobody contested, between
\* the SET and the answer (KillSwitch.halt).
UnansweredIsKept ==
  \A o \in Operators :
    /\ pc[o] \in {"halt.publish", "halt.audit"}
    /\ o \notin contested
    /\ wrote[o] = "server"
    => key["server"]

HaltInv == Typing /\ ResumeContests /\ UnansweredIsKept /\ ServerHaltSurvives

\* HaltInv is inductive: a resume can only delete a key nobody relies on.
LEMMA HaltInvInductive == HaltInv /\ Typing' /\ [Next]_vars => HaltInv'
<1> SUFFICES ASSUME HaltInv, Typing', [Next]_vars PROVE HaltInv'
  OBVIOUS
<1> USE DEF HaltInv, ResumeContests, UnansweredIsKept, ServerHaltSurvives, Resuming,
            Typing, TypeOK, HaltSteps, ResumeSteps, Stores, Goto, Raise, stores, history
<1>1. CASE UNCHANGED vars
  BY <1>1 DEF vars
<1>2. ASSUME NEW o \in Operators, RequestHalt(o) PROVE HaltInv'
  BY <1>2 DEF RequestHalt
<1>3. ASSUME NEW o \in Operators, RequestResume(o) PROVE HaltInv'
  BY <1>3 DEF RequestResume
<1>4. ASSUME NEW o \in Operators, SetKey(o) PROVE HaltInv'
  <2>1. CASE Reachable(proxy)
    BY <1>4, <2>1 DEF SetKey
  <2>2. CASE ~Reachable(proxy)
    BY <1>4, <2>2 DEF SetKey
  <2> QED
    BY <2>1, <2>2
<1>5. ASSUME NEW o \in Operators, PublishHalt(o) PROVE HaltInv'
  BY <1>5 DEF PublishHalt
<1>6. ASSUME NEW o \in Operators, AnswerHalt(o) PROVE HaltInv'
  BY <1>6 DEF AnswerHalt
<1>7. ASSUME NEW o \in Operators, DeleteKey(o) PROVE HaltInv'
  BY <1>7 DEF DeleteKey
<1>8. ASSUME NEW o \in Operators, SetTrigger(o) PROVE HaltInv'
  BY <1>8 DEF SetTrigger
<1>9. ASSUME NEW o \in Operators, PublishResume(o) PROVE HaltInv'
  BY <1>9 DEF PublishResume
<1>10. ASSUME NEW o \in Operators, AnswerResume(o) PROVE HaltInv'
  BY <1>10 DEF AnswerResume
<1>11. CASE CheckKey \/ MissKey \/ Analyse \/ Awake \/ LoseServer \/ ServerReturns
  BY <1>11 DEF CheckKey, MissKey, Analyse, Awake, LoseServer, ServerReturns
<1>12. CASE Restart
  BY <1>12 DEF Restart
<1>13. CASE Reconnect
  BY <1>13 DEF Reconnect
<1> QED
  BY <1>1, <1>2, <1>3, <1>4, <1>5, <1>6, <1>7, <1>8, <1>9, <1>10, <1>11, <1>12, <1>13
     DEF Next, Call, Loop

LEMMA HaltInvHolds == Spec => []HaltInv
<1>1. Init /\ Typing => HaltInv
  BY DEF Init, HaltInv, ResumeContests, UnansweredIsKept, ServerHaltSurvives, Resuming,
         HaltSteps, ResumeSteps
<1> QED
  BY <1>1, HaltInvInductive, TypingHolds, PTL DEF Spec

\* A halt the server took outlives any number of outages and restarts, with any
\* number of operators halting and resuming at once (KillSwitch, RedisRuntime).
THEOREM ServerKeepsHalt == Spec => []ServerHaltSurvives
  BY HaltInvHolds, PTL DEF HaltInv

-----------------------------------------------------------------------------
(* A process that was started on the server, until it restarts *)

\* Nothing but a restart leads to the in-process substitute (_reconnect_loop
\* only leads away from it).
OnServer ==
  restarts = 0 => /\ proxy = "server"
                  /\ \A o \in Operators : wrote[o] = "server"
                  /\ standing \subseteq {"server"}

\* OnServer is inductive (create_redis_runtime is the only way to the substitute).
LEMMA StaysOnServer == Spec => []OnServer
<1>1. Init => OnServer
  BY DEF Init, OnServer
<1>2. OnServer /\ Typing /\ [Next]_vars => OnServer'
  <2> SUFFICES ASSUME OnServer, Typing, [Next]_vars PROVE OnServer'
    OBVIOUS
  <2> USE BoundAssumption DEF OnServer, Typing, TypeOK, Goto, Raise, history, budget
  <2>1. CASE UNCHANGED vars
    BY <2>1 DEF vars
  <2>2. ASSUME NEW o \in Operators, RequestHalt(o) \/ RequestResume(o) PROVE OnServer'
    BY <2>2 DEF RequestHalt, RequestResume
  <2>3. ASSUME NEW o \in Operators, SetKey(o) PROVE OnServer'
    BY <2>3 DEF SetKey
  <2>4. ASSUME NEW o \in Operators, AnswerHalt(o) PROVE OnServer'
    BY <2>4 DEF AnswerHalt
  <2>5. ASSUME NEW o \in Operators,
               \/ PublishHalt(o) \/ DeleteKey(o) \/ SetTrigger(o)
               \/ PublishResume(o) \/ AnswerResume(o)
        PROVE  OnServer'
    BY <2>5 DEF PublishHalt, DeleteKey, SetTrigger, PublishResume, AnswerResume
  <2>6. CASE Loop \/ MissKey
    BY <2>6 DEF Loop, CheckKey, MissKey, Analyse, Awake
  <2>7. CASE LoseServer \/ ServerReturns
    BY <2>7 DEF LoseServer, ServerReturns
  <2>8. CASE Restart
    BY <2>8 DEF Restart
  <2>9. CASE Reconnect
    BY <2>9 DEF Reconnect
  <2> QED
    BY <2>1, <2>2, <2>3, <2>4, <2>5, <2>6, <2>7, <2>8, <2>9 DEF Next, Call
<1> QED
  BY <1>1, <1>2, TypingHolds, PTL DEF Spec

\* An API process that started on the server keeps every answered halt in force
\* where its loop looks, whatever outages it lives through (KillSwitch).
THEOREM AnsweredHaltIsInForce == Spec => []HaltHoldsUntilRestart
<1>1. HaltInv /\ OnServer => HaltHoldsUntilRestart
  BY DEF HaltInv, OnServer, ServerHaltSurvives, AnsweredHaltHolds, HaltHoldsUntilRestart
<1> QED
  BY <1>1, HaltInvHolds, StaysOnServer, PTL

\* What is left of the cycle fits in the allowance of the halt (_loop).
Budgeted ==
  restarts = 0 => /\ loop # "cycle" => todo = 0
                  /\ standing = {} => after = 0
                  /\ standing # {} => after + todo <= Universe * (1 + misses)

\* An analysis, or giving up the rest of the cycle, uses up at least one asset.
LEMMA AnalyseCounts ==
  ASSUME Typing, Analyse
  PROVE  /\ todo \in Nat /\ after \in Nat /\ misses \in Nat
         /\ todo' \in Nat /\ todo' + 1 <= todo
         /\ loop' # "cycle" => todo' = 0
         /\ after' \in Nat /\ after' <= after + 1 /\ (standing = {} => after' = after)
         /\ UNCHANGED <<standing, misses>>
<1>1. todo \in Nat /\ todo > 0 /\ loop = "cycle"
  BY UniverseAssumption DEF Typing, TypeOK, CycleHasWork, Analyse
<1>2. after \in Nat /\ misses \in Nat
  BY AllowanceIsNat, BoundAssumption DEF Typing, TypeOK
<1>3. todo' = todo - 1 \/ todo' = 0
  BY DEF Analyse
<1>4. todo' \in Nat /\ todo' + 1 <= todo
  BY <1>1, <1>3
<1>5. loop' # "cycle" => todo' = 0
  BY DEF Analyse
<1>6. after' \in Nat /\ after' <= after + 1 /\ (standing = {} => after' = after)
  <2>1. after' = after \/ (standing # {} /\ after' = after + 1)
    BY DEF Analyse
  <2> QED
    BY <1>2, <2>1
<1> QED
  BY <1>1, <1>2, <1>4, <1>5, <1>6 DEF Analyse, budget

\* Budgeted is inductive: an answered halt makes CheckKey schedule nothing (_loop).
LEMMA BudgetedHolds == Spec => []Budgeted
<1> USE UniverseAssumption, BoundAssumption
<1>1. Init => Budgeted
  BY DEF Init, Budgeted
<1>2. Budgeted /\ Typing /\ HaltHoldsUntilRestart /\ [Next]_vars => Budgeted'
  <2> SUFFICES ASSUME Budgeted, Typing, HaltHoldsUntilRestart, [Next]_vars PROVE Budgeted'
    OBVIOUS
  <2> USE DEF Budgeted, Typing, CycleHasWork, TypeOK, Goto, Raise, history, budget
  <2> DEFINE limit == Universe * (1 + misses)
  <2>0. limit \in Nat /\ Universe <= limit /\ Universe * (1 + (misses + 1)) = limit + Universe
    OBVIOUS
  <2>1. CASE UNCHANGED vars
    BY <2>1 DEF vars
  <2>2. ASSUME NEW o \in Operators, RequestHalt(o) PROVE Budgeted'
    BY <2>2 DEF RequestHalt
  <2>3. ASSUME NEW o \in Operators, RequestResume(o) PROVE Budgeted'
    BY <2>3 DEF RequestResume
  <2>4. ASSUME NEW o \in Operators, AnswerHalt(o) PROVE Budgeted'
    BY <2>0, <2>4 DEF AnswerHalt
  <2>5. ASSUME NEW o \in Operators,
               \/ SetKey(o) \/ PublishHalt(o) \/ DeleteKey(o) \/ SetTrigger(o)
               \/ PublishResume(o) \/ AnswerResume(o)
        PROVE  Budgeted'
    BY <2>5 DEF SetKey, PublishHalt, DeleteKey, SetTrigger, PublishResume, AnswerResume
  <2>6. CASE CheckKey
    BY <2>6 DEF CheckKey, Schedule, CycleOf, AnsweredHaltHolds, HaltHoldsUntilRestart
  <2>7. CASE MissKey
    BY <2>0, <2>7 DEF MissKey, Schedule, CycleOf
  <2>8. CASE Analyse
    <3>1. UNCHANGED restarts
      BY <2>8 DEF Analyse
    <3> QED
      BY <2>0, <2>8, <3>1, AnalyseCounts
  <2>9. CASE Awake
    BY <2>9 DEF Awake
  <2>10. CASE LoseServer \/ ServerReturns
    BY <2>10 DEF LoseServer, ServerReturns
  <2>11. CASE Restart
    BY <2>11 DEF Restart
  <2>12. CASE Reconnect
    BY <2>12 DEF Reconnect
  <2> QED
    BY <2>1, <2>2, <2>3, <2>4, <2>5, <2>6, <2>7, <2>8, <2>9, <2>10, <2>11, <2>12
       DEF Next, Call, Loop
<1> QED
  BY <1>1, <1>2, TypingHolds, AnsweredHaltIsInForce, PTL DEF Spec

\* After an answered halt the loop begins at most one cycle's analyses, and one
\* cycle more per failed read of the key, for every universe of assets (_loop).
THEOREM HaltBoundsAnalyses == Spec => []HaltStopsAnalyses
<1>1. Budgeted /\ Typing => HaltStopsAnalyses
  <2> SUFFICES ASSUME Budgeted, Typing, restarts = 0, standing # {}
               PROVE  after <= Universe * (1 + misses)
    BY DEF HaltStopsAnalyses
  <2>1. Universe * (1 + misses) \in Nat
    BY UniverseAssumption, BoundAssumption DEF Typing, TypeOK
  <2> QED
    BY <2>1, UniverseAssumption, AllowanceIsNat DEF Budgeted, Typing, TypeOK
<1> QED
  BY <1>1, BudgetedHolds, TypingHolds, PTL

-----------------------------------------------------------------------------
(* Back on the server                                                      *)

\* However often the process was restarted, on the server or on the substitute:
\* once it looks at the server again it begins no cycle under a halt that the
\* server took, and a started cycle only gets shorter, unless a read of the key
\* fails: the safety half of HaltReachesTheLoop (_loop, _reconnect_loop).
NoNewCycle ==
  [][proxy = "server" /\ "server" \in standing =>
       todo' <= todo \/ misses' > misses]_vars

THEOREM HaltIsHeardAgain == Spec => NoNewCycle
<1>1. Typing /\ ServerHaltSurvives /\ [Next]_vars =>
        [proxy = "server" /\ "server" \in standing =>
           todo' <= todo \/ misses' > misses]_vars
  <2> SUFFICES ASSUME Typing, ServerHaltSurvives, Next, proxy = "server", "server" \in standing
               PROVE  todo' <= todo \/ misses' > misses
    OBVIOUS
  <2>1. todo \in Nat /\ misses \in Nat /\ key["server"]
    BY UniverseAssumption, BoundAssumption DEF Typing, TypeOK, ServerHaltSurvives
  <2>2. CASE CheckKey
    <3>1. todo' = CycleOf(key["server"])
      BY <2>2 DEF CheckKey, Schedule
    <3> QED
      BY <2>1, <3>1 DEF CycleOf
  <2>3. CASE MissKey
    BY <2>1, <2>3 DEF MissKey
  <2>4. CASE Analyse
    BY <2>1, <2>4, AnalyseCounts
  <2>5. CASE Restart
    BY <2>1, <2>5 DEF Restart
  <2>6. CASE UNCHANGED todo
    BY <2>1, <2>6
  <2> QED
    BY <2>2, <2>3, <2>4, <2>5, <2>6
       DEF Next, Call, Loop, Awake, RequestHalt, RequestResume, SetKey, PublishHalt, AnswerHalt,
           DeleteKey, SetTrigger, PublishResume, AnswerResume, LoseServer, ServerReturns, Reconnect
<1> QED
  BY <1>1, TypingHolds, ServerKeepsHalt, PTL DEF Spec, NoNewCycle

=============================================================================
