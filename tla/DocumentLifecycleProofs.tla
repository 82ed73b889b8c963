---------------------- MODULE DocumentLifecycleProofs ----------------------
(***************************************************************************)
(* DocumentLifecycle for every set of documents and replicas, every        *)
(* threshold, pool size and number of faults.                              *)
(***************************************************************************)
EXTENDS DocumentLifecycle, FiniteSetTheorems, TLAPS

\* The steps of one call of transition().
Transit == {"read", "dbread", "fill", "commit", "invalidate"}

\* What a task holds where it needs it: transition() has its arguments, a
\* contradiction scan has a document and a verdict to come back to, and only a
\* task of the pass lists documents.
Furnished(t) ==
  /\ pc[t] = "list" => t[2] \in PassTasks
  /\ pc[t] \in Transit => target[t] \in Docs /\ goal[t] \in States /\ doc[t] \in Docs
  /\ pc[t] \in Transit /\ target[t] # doc[t] => verdict[t] \in States
  /\ pc[t] = "contradict" => doc[t] \in Docs /\ verdict[t] \in States
  /\ pc[t] = "payload" => doc[t] \in Docs
  /\ pc[t] \in {"fill", "commit", "invalidate"} => from[t] \in States

StoreOK ==
  /\ state \in [Docs -> States]
  /\ loggedFrom \in [Docs -> States \cup {NoEntry}]
  /\ contradictions \in [Docs -> 0..Threshold]
  /\ overdue \in [Docs -> BOOLEAN]
  /\ archivedPayload \subseteq Docs
  /\ onceVerified \subseteq Docs
  /\ cache \in [Docs -> States \cup {NoEntry}]
  /\ faults \in 0..MaxFaults
  /\ payloadFaults \in 0..MaxPayloadFaults

LocalsOK ==
  /\ pc \in [Tasks -> Steps]
  /\ queue \in [Tasks -> SUBSET Docs]
  /\ opposites \in [Tasks -> SUBSET Docs]
  /\ doc \in [Tasks -> Docs \cup {NoEntry}]
  /\ target \in [Tasks -> Docs \cup {NoEntry}]
  /\ verdict \in [Tasks -> States \cup {NoEntry}]
  /\ goal \in [Tasks -> States \cup {NoEntry}]
  /\ from \in [Tasks -> States \cup {NoEntry}]
  /\ \A t \in Tasks : Furnished(t)

Typing == StoreOK /\ LocalsOK

\* Leaving a document clears what the task held (the except clauses).
LEMMA AbandonTypes ==
  ASSUME LocalsOK, NEW t \in Tasks, Abandon(t) PROVE LocalsOK'
  BY DEF LocalsOK, Furnished, Abandon, Forget, Goto, Transit, Steps

\* transition() returns to the scan, to the payload update or to the loop.
LEMMA ReturnTypes ==
  ASSUME LocalsOK, NEW t \in Tasks, pc[t] \in Transit, Return(t) PROVE LocalsOK'
<1>1. CASE Abandon(t)
  BY <1>1, AbandonTypes
<1>2. CASE /\ target[t] # doc[t]
           /\ Goto(t, "contradict")
           /\ from' = [from EXCEPT ![t] = NoEntry]
           /\ UNCHANGED <<queue, doc, verdict, opposites, target, goal>>
  BY <1>2 DEF LocalsOK, Furnished, Goto, Transit, Steps
<1>3. CASE Goto(t, "payload") /\ UNCHANGED locals
  BY <1>3 DEF LocalsOK, Furnished, Goto, locals, Transit, Steps
<1> QED
  BY <1>1, <1>2, <1>3 DEF Return

\* What transition() decides on the state it was told.
LEMMA DecideTypes ==
  ASSUME LocalsOK, NEW t \in Tasks, pc[t] \in Transit, NEW f \in States, Decide(t, f)
  PROVE  LocalsOK'
<1>1. CASE Return(t)
  BY <1>1, ReturnTypes
<1>2. CASE Abandon(t)
  BY <1>2, AbandonTypes
<1>3. CASE /\ Goto(t, "commit")
           /\ from' = [from EXCEPT ![t] = f]
           /\ UNCHANGED <<queue, doc, verdict, opposites, target, goal>>
  BY <1>3 DEF LocalsOK, Furnished, Goto, Transit, Steps
<1> QED
  BY <1>1, <1>2, <1>3 DEF Decide

LEMMA InitTypes == Init => Typing
  BY ThresholdAssumption, BoundsAssumption
     DEF Init, Typing, StoreOK, LocalsOK, Furnished, Transit, Steps, NoEntry

\* A task only ever hands on what it was given: every step keeps the types.
LEMMA StepTypes == Typing /\ [Next]_vars => Typing'
<1> SUFFICES ASSUME Typing, [Next]_vars PROVE Typing'
  OBVIOUS
<1> USE DEF Typing, store, budget
<1>1. CASE UNCHANGED vars
  BY <1>1 DEF vars, StoreOK, LocalsOK, Furnished, locals
<1>2. ASSUME NEW r \in Replicas, StartPass(r) PROVE Typing'
  <2>1. \A t \in PassOf(r) : t[2] \in PassTasks
    BY DEF PassOf
  <2> QED
    BY <1>2, <2>1 DEF StartPass, StoreOK, LocalsOK, Furnished, locals, Transit, Steps
<1>3. ASSUME NEW r \in Replicas, EndPass(r) PROVE Typing'
  BY <1>3 DEF EndPass, StoreOK, LocalsOK, Furnished, locals, Transit, Steps
<1>4. ASSUME NEW r \in Replicas, Crash(r) PROVE Typing'
  BY <1>4, BoundsAssumption DEF Crash, StoreOK, LocalsOK, Furnished, Transit, Steps
<1>5. ASSUME NEW t \in Tasks, ListDocuments(t) PROVE Typing'
  <2>1. Listed(t[2]) \in SUBSET Docs
    <3>1. t[2] \in PassTasks
      BY <1>5 DEF ListDocuments, LocalsOK, Furnished
    <3> QED
      BY <3>1 DEF Listed, PassTasks
  <2>2. queue' \in [Tasks -> SUBSET Docs]
    BY <1>5, <2>1 DEF ListDocuments, LocalsOK
  <2> QED
    BY <1>5, <2>2 DEF ListDocuments, Goto, StoreOK, LocalsOK, Furnished, Transit, Steps
<1>6. ASSUME NEW t \in Tasks, LeaveLoop(t) PROVE Typing'
  BY <1>6 DEF LeaveLoop, Goto, StoreOK, LocalsOK, Furnished, locals, Transit, Steps
<1>7. ASSUME NEW t \in Tasks, TakePending(t) PROVE Typing'
  BY <1>7 DEF TakePending, Goto, StoreOK, LocalsOK, Furnished, Transit, Steps, Verdicts, States
<1>8. ASSUME NEW t \in Tasks, RecordContradiction(t) PROVE Typing'
  <2>1. PICK e \in opposites[t] :
          LET reached == contradictions[e] + 1 >= Threshold IN
          /\ contradictions' = [contradictions EXCEPT ![e] =
                                  IF reached THEN Threshold ELSE @ + 1]
          /\ opposites' = [opposites EXCEPT ![t] = @ \ {e}]
          /\ target' = [target EXCEPT ![t] = e]
          /\ goal' = [goal EXCEPT ![t] = "pending_verification"]
          /\ Goto(t, IF reached THEN "read" ELSE "contradict")
    BY <1>8 DEF RecordContradiction
  <2>2. e \in Docs
    BY <2>1 DEF LocalsOK
  <2>3. contradictions' \in [Docs -> 0..Threshold]
    BY <2>1, <2>2, ThresholdAssumption DEF StoreOK
  <2>4. StoreOK'
    BY <1>8, <2>3 DEF RecordContradiction, StoreOK
  <2>5. LocalsOK'
    BY <1>8, <2>1, <2>2 DEF RecordContradiction, Goto, LocalsOK, Furnished, Transit, Steps, States
  <2> QED
    BY <2>4, <2>5
<1>9. ASSUME NEW t \in Tasks, ApplyVerdict(t) PROVE Typing'
  BY <1>9 DEF ApplyVerdict, Goto, StoreOK, LocalsOK, Furnished, Transit, Steps
<1>10. ASSUME NEW t \in Tasks, TakeStale(t) PROVE Typing'
  BY <1>10 DEF TakeStale, Goto, StoreOK, LocalsOK, Furnished, Transit, Steps, States
<1>11. ASSUME NEW t \in Tasks, NotifyQdrant(t) PROVE Typing'
  <2>1. LocalsOK'
    BY <1>11, AbandonTypes DEF NotifyQdrant
  <2> QED
    BY <1>11, <2>1 DEF NotifyQdrant, StoreOK, LocalsOK, Furnished
<1>12. ASSUME NEW t \in Tasks, NotifyQdrantFails(t) PROVE Typing'
  <2>1. LocalsOK'
    BY <1>12, AbandonTypes DEF NotifyQdrantFails
  <2> QED
    BY <1>12, <2>1, BoundsAssumption DEF NotifyQdrantFails, StoreOK
<1>13. ASSUME NEW t \in Tasks, GetCached(t) PROVE Typing'
  <2>1. CASE cache[target[t]] # NoEntry /\ Decide(t, cache[target[t]])
    <3>1. cache[target[t]] \in States /\ pc[t] \in Transit
      BY <1>13, <2>1 DEF GetCached, StoreOK, LocalsOK, Furnished, Transit
    <3>2. LocalsOK'
      BY <2>1, <3>1, DecideTypes
    <3> QED
      BY <1>13, <3>2 DEF GetCached, StoreOK
  <2>2. CASE Goto(t, "dbread") /\ UNCHANGED locals
    BY <1>13, <2>2 DEF GetCached, Goto, locals, StoreOK, LocalsOK, Furnished, Transit, Steps
  <2> QED
    BY <1>13, <2>1, <2>2 DEF GetCached
<1>14. ASSUME NEW t \in Tasks, GetFromDatabase(t) PROVE Typing'
  BY <1>14 DEF GetFromDatabase, Goto, StoreOK, LocalsOK, Furnished, Transit, Steps
<1>15. ASSUME NEW t \in Tasks, FillCache(t) PROVE Typing'
  <2>1. from[t] \in States /\ target[t] \in Docs /\ pc[t] \in Transit
    BY <1>15 DEF FillCache, LocalsOK, Furnished, Transit
  <2>2. LocalsOK'
    BY <1>15, <2>1, DecideTypes DEF FillCache
  <2> QED
    BY <1>15, <2>1, <2>2 DEF FillCache, StoreOK
<1>16. ASSUME NEW t \in Tasks, ExecuteTransition(t) PROVE Typing'
  BY <1>16 DEF ExecuteTransition, Written, Goto, locals, StoreOK, LocalsOK, Furnished,
               Transit, Steps
<1>17. ASSUME NEW t \in Tasks, InvalidateCache(t) PROVE Typing'
  <2>1. LocalsOK'
    BY <1>17, ReturnTypes DEF InvalidateCache, Transit
  <2> QED
    BY <1>17, <2>1 DEF InvalidateCache, StoreOK
<1>18. ASSUME NEW t \in Tasks, CallFails(t) PROVE Typing'
  <2>1. LocalsOK'
    BY <1>18, AbandonTypes DEF CallFails
  <2> QED
    BY <1>18, <2>1, BoundsAssumption DEF CallFails, StoreOK
<1>22. ASSUME NEW t \in Tasks, ListingFails(t) PROVE Typing'
  BY <1>22, BoundsAssumption DEF ListingFails, Goto, StoreOK, LocalsOK, Furnished, locals,
                                Transit, Steps
<1>19. ASSUME NEW t \in Tasks, NEW d \in Docs, Submit(t, d) PROVE Typing'
  BY <1>19 DEF Submit, Goto, StoreOK, LocalsOK, Furnished, Transit, Steps, States
<1>20. ASSUME NEW d \in Docs, CacheExpires(d) PROVE Typing'
  BY <1>20 DEF CacheExpires, StoreOK, LocalsOK, Furnished, locals
<1>21. ASSUME NEW d \in Docs, DaysPass(d) PROVE Typing'
  BY <1>21 DEF DaysPass, StoreOK, LocalsOK, Furnished, locals
<1> QED
  BY <1>1, <1>2, <1>3, <1>4, <1>5, <1>6, <1>7, <1>8, <1>9, <1>10, <1>11, <1>12, <1>13,
     <1>14, <1>15, <1>16, <1>17, <1>18, <1>19, <1>20, <1>21, <1>22 DEF Next, TaskStep

LEMMA TypingHolds == Spec => []Typing
  BY InitTypes, StepTypes, PTL DEF Spec

\* Every variable keeps its type, in every interleaving of passes, submissions,
\* crashes and failed calls (DocumentStateMachine, AgentZeroStateManager).
THEOREM TypeCorrect == Spec => []TypeOK
<1>1. Typing => TypeOK
  BY DEF Typing, StoreOK, LocalsOK, TypeOK
<1> QED
  BY <1>1, TypingHolds, PTL

-----------------------------------------------------------------------------
(* The log *)

\* What a task is about to write was validated against what it was told.
CommitIsLegal == \A t \in Tasks : pc[t] = "commit" => goal[t] \in Successors(from[t])

LogInv == CommitIsLegal /\ LogLooksLegal

\* Leaving, returning from or deciding a transition puts a task at the UPDATE
\* only with a validated move.
LEMMA AbandonCommits ==
  ASSUME LocalsOK, CommitIsLegal, NEW t \in Tasks, Abandon(t) PROVE CommitIsLegal'
  BY DEF CommitIsLegal, LocalsOK, Abandon, Forget, Goto

LEMMA ReturnCommits ==
  ASSUME LocalsOK, CommitIsLegal, NEW t \in Tasks, Return(t) PROVE CommitIsLegal'
<1>1. CASE Abandon(t)
  BY <1>1, AbandonCommits
<1>2. CASE ~Abandon(t)
  BY <1>2 DEF Return, CommitIsLegal, LocalsOK, Goto, locals
<1> QED
  BY <1>1, <1>2

LEMMA DecideCommits ==
  ASSUME LocalsOK, CommitIsLegal, NEW t \in Tasks, NEW f \in States, Decide(t, f)
  PROVE  CommitIsLegal'
<1>1. CASE Return(t)
  BY <1>1, ReturnCommits
<1>2. CASE Abandon(t)
  BY <1>2, AbandonCommits
<1>3. CASE /\ goal[t] \in Successors(f)
           /\ Goto(t, "commit")
           /\ from' = [from EXCEPT ![t] = f]
           /\ UNCHANGED <<queue, doc, verdict, opposites, target, goal>>
  BY <1>3 DEF CommitIsLegal, LocalsOK, Goto
<1> QED
  BY <1>1, <1>2, <1>3 DEF Decide

\* The tasks keep their promise in every step ...
LEMMA CommitStep == Typing /\ CommitIsLegal /\ [Next]_vars => CommitIsLegal'
<1> SUFFICES ASSUME Typing, CommitIsLegal, [Next]_vars PROVE CommitIsLegal'
  OBVIOUS
<1> USE DEF Typing
<1>1. CASE UNCHANGED vars
  BY <1>1 DEF vars, locals, CommitIsLegal
<1>2. ASSUME NEW r \in Replicas, StartPass(r) \/ EndPass(r) PROVE CommitIsLegal'
  BY <1>2 DEF StartPass, EndPass, locals, CommitIsLegal, LocalsOK
<1>3. ASSUME NEW r \in Replicas, Crash(r) PROVE CommitIsLegal'
  BY <1>3 DEF Crash, CommitIsLegal, LocalsOK
<1>4. ASSUME NEW t \in Tasks,
             \/ ListDocuments(t) \/ LeaveLoop(t) \/ TakePending(t)
             \/ RecordContradiction(t) \/ ApplyVerdict(t) \/ TakeStale(t)
             \/ GetFromDatabase(t) \/ ExecuteTransition(t) \/ ListingFails(t)
      PROVE  CommitIsLegal'
  BY <1>4 DEF ListingFails, ListDocuments, LeaveLoop, TakePending, RecordContradiction, ApplyVerdict,
              TakeStale, GetFromDatabase, ExecuteTransition, Goto, locals, CommitIsLegal,
              LocalsOK
<1>5. ASSUME NEW t \in Tasks, NotifyQdrant(t) \/ NotifyQdrantFails(t) \/ CallFails(t)
      PROVE  CommitIsLegal'
  BY <1>5, AbandonCommits DEF NotifyQdrant, NotifyQdrantFails, CallFails
<1>6. ASSUME NEW t \in Tasks, GetCached(t) PROVE CommitIsLegal'
  <2>1. CASE cache[target[t]] # NoEntry /\ Decide(t, cache[target[t]])
    <3>1. cache[target[t]] \in States
      BY <1>6, <2>1 DEF GetCached, StoreOK, LocalsOK, Furnished, Transit
    <3> QED
      BY <2>1, <3>1, DecideCommits
  <2>2. CASE Goto(t, "dbread") /\ UNCHANGED locals
    BY <2>2 DEF Goto, locals, CommitIsLegal, LocalsOK
  <2> QED
    BY <1>6, <2>1, <2>2 DEF GetCached
<1>7. ASSUME NEW t \in Tasks, FillCache(t) PROVE CommitIsLegal'
  <2>1. from[t] \in States
    BY <1>7 DEF FillCache, LocalsOK, Furnished
  <2> QED
    BY <1>7, <2>1, DecideCommits DEF FillCache
<1>8. ASSUME NEW t \in Tasks, InvalidateCache(t) PROVE CommitIsLegal'
  BY <1>8, ReturnCommits DEF InvalidateCache
<1>9. ASSUME NEW t \in Tasks, NEW d \in Docs, Submit(t, d) PROVE CommitIsLegal'
  BY <1>9 DEF Submit, Goto, CommitIsLegal, LocalsOK
<1>10. ASSUME NEW d \in Docs, CacheExpires(d) \/ DaysPass(d) PROVE CommitIsLegal'
  BY <1>10 DEF CacheExpires, DaysPass, locals, CommitIsLegal
<1> QED
  BY <1>1, <1>2, <1>3, <1>4, <1>5, <1>6, <1>7, <1>8, <1>9, <1>10 DEF Next, TaskStep

\* ... and only the UPDATE, with its log row, changes a state or the log.
LEMMA OnlyUpdatesWrite ==
  [Next]_vars => \/ UNCHANGED <<state, loggedFrom>>
                 \/ \E t \in Tasks : ExecuteTransition(t)
  BY DEF Next, TaskStep, vars, store, StartPass, EndPass, Crash, ListDocuments, LeaveLoop,
         TakePending, RecordContradiction, ApplyVerdict, TakeStale, NotifyQdrant, GetCached,
         GetFromDatabase, FillCache, InvalidateCache, CallFails, ListingFails, NotifyQdrantFails,
         Submit, CacheExpires, DaysPass

LEMMA LogStep == Typing /\ LogInv /\ [Next]_vars => LogInv'
<1> SUFFICES ASSUME Typing, LogInv, [Next]_vars PROVE LogLooksLegal'
  BY CommitStep DEF LogInv
<1>1. CASE UNCHANGED <<state, loggedFrom>>
  BY <1>1 DEF LogInv, LogLooksLegal
<1>2. ASSUME NEW t \in Tasks, ExecuteTransition(t) PROVE LogLooksLegal'
  <2>1. target[t] \in Docs /\ goal[t] \in Successors(from[t])
    BY <1>2 DEF ExecuteTransition, LogInv, CommitIsLegal, Typing, LocalsOK, Furnished, Transit
  <2> QED
    BY <1>2, <2>1 DEF ExecuteTransition, Written, LogInv, LogLooksLegal, Typing, StoreOK
<1> QED
  BY <1>1, <1>2, OnlyUpdatesWrite

\* The newest log row of every document is a legal edge, even when replicas race
\* and the move itself was not legal (_execute_transition, _log_transition).
THEOREM LogIsLegal == Spec => []LogLooksLegal
<1>1. Init => LogInv
  BY DEF Init, LogInv, CommitIsLegal, LogLooksLegal
<1>2. LogInv => LogLooksLegal
  BY DEF LogInv
<1> QED
  BY <1>1, <1>2, LogStep, TypingHolds, PTL DEF Spec

-----------------------------------------------------------------------------
(* One replica, at most one failed call or crash: every move is legal. *)
(*                                                                           *)
(* The three tasks of a pass and the submitter leave different states, so no *)
(* other task moves a document a task has taken, and a copy that has fallen  *)
(* behind is one from which nobody asks for a legal move.  A fault may leave *)
(* copies that are one move old until they expire: what is asked on the      *)
(* strength of such a copy is legal from the true state too, or a move to    *)
(* the state the document already has.  The second fault is one too many.    *)

\* The state in which a task takes a document.
Start(k) ==
  CASE k = "pending" -> "pending_verification"
    [] k = "expire"  -> "flagged_review"
    [] k = "age"     -> "soft_deleted"
    [] k = "submit"  -> "raw"

Busy(t) == pc[t] \in Transit \cup {"contradict"}

\* The task has committed the verdict on its own document.
Served(t) == pc[t] = "invalidate" /\ target[t] = doc[t]

Owns(t, d) == d \in queue[t] \/ (Busy(t) /\ doc[t] = d /\ ~Served(t))

\* The documents a task has taken stay as it found them until it moves them.
OwnedStay(t) ==
  \A d \in Docs :
    Owns(t, d) => /\ state[d] = Start(t[2])
                  /\ t[2] \in {"expire", "age"} => overdue[d]

\* What each task may ask for.
Asks(t) ==
  /\ Busy(t) => doc[t] \notin queue[t]
  /\ t[2] = "submit" => queue[t] = {}
  /\ pc[t] = "contradict" => t[2] = "pending"
  /\ Busy(t) /\ t[2] = "pending" => /\ verdict[t] \in Verdicts
                                    /\ opposites[t] \subseteq onceVerified
                                    /\ doc[t] \notin opposites[t]
  /\ pc[t] \in Transit /\ target[t] # doc[t]
       => t[2] = "pending" /\ goal[t] = "pending_verification" /\ target[t] \in onceVerified
  /\ pc[t] \in Transit /\ target[t] = doc[t]
       => /\ t[2] = "pending" => goal[t] \in Verdicts
          /\ t[2] = "expire"  => goal[t] = "soft_deleted"
          /\ t[2] = "age"     => goal[t] = "archived"
          /\ t[2] = "submit"  => goal[t] = "pending_verification"

\* A copy that has fallen behind: the states a document passes through once it is
\* rejected, while a contradiction scan was reading it.
Behind(copy, truth) ==
  \/ copy = "flagged_review" /\ truth \in {"soft_deleted", "archived"}
  \/ copy = "soft_deleted" /\ truth = "archived"

\* The state validated is the true one; after a fault, what is asked is legal from
\* the true state or changes nothing.
Warranted(t) ==
  \/ from[t] = state[target[t]]
  \/ faults > 0 /\ goal[t] \in Successors(state[target[t]]) \cup {state[target[t]]}

\* What a task knows of its target: close after the read, right at the UPDATE,
\* and after it the target is in a state it has just entered.
Knows(t) ==
  /\ pc[t] = "fill" => from[t] = state[target[t]] \/ Behind(from[t], state[target[t]])
  /\ pc[t] = "commit" => Warranted(t)
  /\ pc[t] = "invalidate" => ~overdue[target[t]] /\ state[target[t]] # "raw"

TaskOK(t) == OwnedStay(t) /\ Asks(t) /\ Knows(t)

NeverRaw == \A d \in onceVerified : state[d] # "raw"

Invalidating(k, d) == \E t \in Tasks : t[2] = k /\ pc[t] = "invalidate" /\ target[t] = d

\* A copy one move old: the states the pass takes a document from and to.
Old(copy, truth) ==
  \/ copy = "pending_verification" /\ truth \in Verdicts
  \/ copy = "verified" /\ truth = "pending_verification"

\* The task may still write what it read, to the cache or to the row.
Holding == {"dbread", "fill", "commit", "invalidate"}

\* A copy from before the document was submitted, which the pass has not passed by.
RawCopy(d) ==
  /\ cache[d] = "raw" /\ state[d] = "pending_verification" /\ d \notin onceVerified
  /\ \A t \in Tasks : t[2] = "pending" /\ target[t] = d => pc[t] \notin Holding

\* The cached copy is right, or behind, or old and about to be deleted; after a
\* fault, old, or anything that is about to be deleted.
Close(d) ==
  \/ cache[d] = NoEntry
  \/ cache[d] = state[d]
  \/ Behind(cache[d], state[d])
  \/ RawCopy(d)
  \/ /\ Old(cache[d], state[d]) /\ ~overdue[d]
     /\ faults > 0 \/ Invalidating("pending", d)
  \/ faults > 0 /\ Invalidating("pending", d)

OnCourse ==
  /\ \A t \in Tasks : TaskOK(t)
  /\ NeverRaw
  /\ \A d \in Docs : Close(d)

-----------------------------------------------------------------------------
\* One replica runs the pass.
Alone == \A p, q \in Replicas : p = q

LEMMA KindsDiffer ==
  ASSUME Alone, NEW t \in Tasks, NEW u \in Tasks, t # u PROVE t[2] # u[2]
  BY DEF Alone, Tasks

LEMMA StartsDiffer ==
  ASSUME NEW k \in Kinds, NEW l \in Kinds, Start(k) = Start(l) PROVE k = l
  BY DEF Start, Kinds, PassTasks

\* The state a legal move leaves and the one it enters.
LEMMA SuccessorFacts ==
  ASSUME NEW s \in States, NEW g \in Successors(s)
  PROVE  /\ g \in States /\ g # "raw" /\ g # s
         /\ g = "pending_verification" => s \in {"raw", "verified"}
         /\ g = "verified" => s = "pending_verification"
         /\ s = "raw" => g = "pending_verification"
         /\ s = "flagged_review" => g = "soft_deleted"
         /\ s = "soft_deleted" => g = "archived"
         /\ s # "archived"
  BY DEF Successors, States

\* What a task has on its own document: it stands where the task found it.
LEMMA OwnTarget ==
  ASSUME Typing, NEW t \in Tasks, TaskOK(t), pc[t] \in Transit \ {"invalidate"},
         target[t] = doc[t]
  PROVE  /\ state[target[t]] = Start(t[2])
         /\ t[2] \in {"expire", "age"} => overdue[target[t]]
<1>1. target[t] \in Docs /\ Owns(t, target[t])
  BY DEF Typing, LocalsOK, Furnished, Owns, Busy, Served
<1> QED
  BY <1>1 DEF TaskOK, OwnedStay

\* ... and on a contradicted one: it has been verified, and goes back.
LEMMA ForeignTarget ==
  ASSUME Typing, NeverRaw, NEW t \in Tasks, TaskOK(t), pc[t] \in Transit, target[t] # doc[t]
  PROVE  /\ t[2] = "pending" /\ goal[t] = "pending_verification"
         /\ target[t] \in onceVerified /\ state[target[t]] # "raw"
  BY DEF TaskOK, Asks, NeverRaw

\* A task is not misled by a copy that is right or behind.
LEMMA CloseEnough ==
  ASSUME Typing, NeverRaw, NEW t \in Tasks, TaskOK(t), pc[t] \in Transit \ {"invalidate"},
         NEW f \in States,
         f = state[target[t]] \/ Behind(f, state[target[t]]),
         f = goal[t] \/ goal[t] \in Successors(f)
  PROVE  f = state[target[t]]
<1> SUFFICES ASSUME Behind(f, state[target[t]]) PROVE FALSE
  OBVIOUS
<1>1. f \in {"flagged_review", "soft_deleted"}
  BY DEF Behind
<1>2. goal[t] # "pending_verification"
  BY <1>1, SuccessorFacts
<1>3. target[t] = doc[t]
  BY <1>2, ForeignTarget
<1>4. t[2] \in Kinds
  BY DEF Tasks
<1>5. t[2] = "age" /\ goal[t] = "archived" /\ state[target[t]] = "soft_deleted"
  BY <1>3, <1>4, OwnTarget DEF Behind, Start, Kinds, PassTasks, TaskOK, Asks
<1>6. f = "flagged_review"
  BY <1>5 DEF Behind
<1> QED
  BY <1>5, <1>6, SuccessorFacts

\* A pending task is never about to be deleting a copy that another task of its
\* replica relies on.
LEMMA InvalidatingIsUnread ==
  ASSUME Alone, Typing, OnCourse, NEW t \in Tasks, pc[t] = "read",
         Invalidating("pending", target[t])
  PROVE  FALSE
<1> DEFINE d == target[t]
<1>1. d \in Docs /\ t[2] \in Kinds /\ pc[t] \in Transit \ {"invalidate"} /\ TaskOK(t) /\ NeverRaw
  BY DEF Typing, LocalsOK, Furnished, Transit, Tasks, OnCourse
<1>2. PICK u \in Tasks : u[2] = "pending" /\ pc[u] = "invalidate" /\ target[u] = d
  BY DEF Invalidating
<1>3. ~overdue[d] /\ state[d] # "raw"
  BY <1>2 DEF OnCourse, TaskOK, Knows
<1>4. t[2] # "pending"
  BY <1>2, KindsDiffer
<1>5. d = doc[t]
  BY <1>1, <1>4, ForeignTarget
<1>6. t[2] = "submit"
  BY <1>1, <1>3, <1>4, <1>5, OwnTarget DEF Kinds, PassTasks
<1> QED
  BY <1>1, <1>3, <1>5, <1>6, OwnTarget DEF Start

\* ... nor by a cached copy; after a fault, what it makes the task ask is legal.
LEMMA CacheEnough ==
  ASSUME Alone, Typing, OnCourse, NEW t \in Tasks, pc[t] = "read",
         cache[target[t]] # NoEntry,
         cache[target[t]] = goal[t] \/ goal[t] \in Successors(cache[target[t]])
  PROVE  /\ ~RawCopy(target[t])
         /\ \/ cache[target[t]] = state[target[t]]
            \/ /\ faults > 0
               /\ goal[t] # cache[target[t]]
                    => goal[t] \in Successors(state[target[t]]) \cup {state[target[t]]}
<1> DEFINE d == target[t]
<1>1. /\ d \in Docs /\ t[2] \in Kinds /\ cache[d] \in States /\ goal[t] \in States
      /\ pc[t] \in Transit \ {"invalidate"}
  BY DEF Typing, StoreOK, LocalsOK, Furnished, Transit, Tasks
<1>2. TaskOK(t) /\ NeverRaw /\ Close(d)
  BY <1>1 DEF OnCourse
<1>3. ~Invalidating("pending", d)
  BY InvalidatingIsUnread
<1>4. ~RawCopy(d)
  <2> SUFFICES ASSUME RawCopy(d) PROVE FALSE
    OBVIOUS
  <2>1. d = doc[t]
    BY <1>1, <1>2, ForeignTarget DEF RawCopy
  <2>2. t[2] = "pending"
    BY <1>1, <1>2, <2>1, OwnTarget DEF RawCopy, Start, Kinds, PassTasks
  <2>3. goal[t] \in Verdicts
    BY <1>1, <1>2, <2>1, <2>2 DEF TaskOK, Asks
  <2> QED
    BY <2>3 DEF RawCopy, Verdicts, Successors
<1>5. CASE Behind(cache[d], state[d])
  BY <1>1, <1>2, <1>4, <1>5, CloseEnough
<1>6. CASE Old(cache[d], state[d]) /\ ~overdue[d] /\ faults > 0
  <2>1. CASE d # doc[t]
    <3>1. goal[t] = "pending_verification"
      BY <1>1, <1>2, <2>1, ForeignTarget
    <3> QED
      BY <1>4, <1>6, <3>1 DEF Old
  <2>2. CASE d = doc[t]
    <3>1. state[d] = Start(t[2]) /\ t[2] \notin {"expire", "age"}
      BY <1>1, <1>2, <1>6, <2>2, OwnTarget
    <3>2. t[2] = "pending" /\ state[d] = "pending_verification" /\ cache[d] = "verified"
      BY <1>1, <1>6, <3>1 DEF Old, Verdicts, Start, Kinds, PassTasks
    <3>3. goal[t] \in Verdicts
      BY <1>1, <1>2, <2>2, <3>2 DEF TaskOK, Asks
    <3> QED
      BY <1>4, <1>6, <3>2, <3>3 DEF Verdicts, Successors
  <2> QED
    BY <2>1, <2>2
<1> QED
  BY <1>1, <1>2, <1>3, <1>4, <1>5, <1>6 DEF Close

-----------------------------------------------------------------------------
\* A task that does not move, and whose documents do not, keeps what it has.
Still(t) ==
  /\ pc'[t] = pc[t] /\ queue'[t] = queue[t] /\ doc'[t] = doc[t]
  /\ verdict'[t] = verdict[t] /\ opposites'[t] = opposites[t]
  /\ target'[t] = target[t] /\ goal'[t] = goal[t] /\ from'[t] = from[t]

\* No document moves, and no fault is undone.
Stays ==
  /\ UNCHANGED <<state, overdue, onceVerified>>
  /\ faults > 0 => faults' > 0

\* Only t moves.
Local(t) == Stays /\ \A u \in Tasks : u # t => Still(u)

\* What t may still write was not read under a copy from before the submission.
Fresh(t) ==
  pc'[t] \in Holding => target'[t] = target[t] /\ (pc[t] \in Holding \/ ~RawCopy(target[t]))

LEMMA StillOK ==
  ASSUME NEW t \in Tasks, TaskOK(t), Still(t), Stays
  PROVE  TaskOK(t)'
<1>1. OwnedStay(t)'
  BY DEF TaskOK, OwnedStay, Owns, Busy, Served, Still, Stays
<1>2. Asks(t)'
  BY DEF TaskOK, Asks, Busy, Still, Stays
<1>3. Knows(t)'
  BY DEF TaskOK, Knows, Warranted, Behind, Still, Stays
<1> QED
  BY <1>1, <1>2, <1>3 DEF TaskOK

LEMMA RawCopyStands ==
  ASSUME NEW t \in Tasks, \A u \in Tasks : u # t => Still(u), Fresh(t),
         NEW d, UNCHANGED <<cache[d], state[d], onceVerified>>, RawCopy(d)
  PROVE  RawCopy(d)'
<1>1. ASSUME NEW u \in Tasks, u[2] = "pending", target'[u] = d PROVE pc'[u] \notin Holding
  <2>1. CASE u = t
    BY <1>1, <2>1 DEF Fresh, RawCopy
  <2>2. CASE u # t
    BY <1>1, <2>2 DEF Still, RawCopy
  <2> QED
    BY <2>1, <2>2
<1> QED
  BY <1>1 DEF RawCopy

LEMMA InvalidatingStands ==
  ASSUME NEW t \in Tasks, pc[t] # "invalidate",
         \A u \in Tasks : u # t => Still(u),
         NEW k, NEW d, Invalidating(k, d)
  PROVE  Invalidating(k, d)'
<1>1. PICK u \in Tasks : u[2] = k /\ pc[u] = "invalidate" /\ target[u] = d
  BY DEF Invalidating
<1> QED
  BY <1>1 DEF Invalidating, Still

\* A copy stays close as long as what makes it so does.
LEMMA CloseStands ==
  ASSUME NEW d, Close(d), UNCHANGED <<cache[d], state[d], overdue[d]>>,
         faults > 0 => faults' > 0,
         Invalidating("pending", d) => Invalidating("pending", d)',
         RawCopy(d) => RawCopy(d)'
  PROVE  Close(d)'
<1>1. CASE RawCopy(d)
  BY <1>1 DEF Close
<1>2. CASE \/ Old(cache[d], state[d]) /\ ~overdue[d] /\ (faults > 0 \/ Invalidating("pending", d))
           \/ faults > 0 /\ Invalidating("pending", d)
  BY <1>2 DEF Close, Old
<1>3. CASE cache[d] = NoEntry \/ cache[d] = state[d] \/ Behind(cache[d], state[d])
  BY <1>3 DEF Close, Behind
<1> QED
  BY <1>1, <1>2, <1>3 DEF Close

\* A step of one task that moves no document and deletes no cached copy.
LEMMA LocalStep ==
  ASSUME OnCourse, NEW t \in Tasks, Local(t), pc[t] # "invalidate", UNCHANGED cache,
         TaskOK(t)', Fresh(t)
  PROVE  OnCourse'
<1>1. \A u \in Tasks : TaskOK(u)'
  BY StillOK DEF OnCourse, Local
<1>2. NeverRaw'
  BY DEF OnCourse, NeverRaw, Local, Stays
<1>3. ASSUME NEW d \in Docs PROVE Close(d)'
  <2>1. Invalidating("pending", d) => Invalidating("pending", d)'
    BY InvalidatingStands DEF Local
  <2>2. RawCopy(d) => RawCopy(d)'
    BY RawCopyStands DEF Local, Stays
  <2>3. Close(d)
    BY DEF OnCourse
  <2> QED
    BY <2>1, <2>2, <2>3, CloseStands DEF Local, Stays
<1> QED
  BY <1>1, <1>2, <1>3 DEF OnCourse

\* A task that leaves a document keeps only its queue.
LEMMA AbandonOK ==
  ASSUME LocalsOK, NEW t \in Tasks, TaskOK(t), Abandon(t), Stays
  PROVE  TaskOK(t)' /\ Fresh(t) /\ \A u \in Tasks : u # t => Still(u)
<1>1. /\ pc' = [pc EXCEPT ![t] = "next"] /\ queue' = queue
      /\ \A u \in Tasks : u # t => Still(u)
  BY DEF LocalsOK, Abandon, Forget, Goto, Still
<1>2. pc'[t] = "next"
  BY <1>1 DEF LocalsOK
<1>3. OwnedStay(t)'
  BY <1>1, <1>2 DEF TaskOK, OwnedStay, Owns, Busy, Transit, Stays
<1>4. Fresh(t)
  BY <1>2 DEF Fresh, Holding
<1> QED
  BY <1>1, <1>2, <1>3, <1>4 DEF TaskOK, Asks, Knows, Busy, Transit

LEMMA ReturnOK ==
  ASSUME LocalsOK, NEW t \in Tasks, TaskOK(t), Return(t), pc[t] \in Transit, Stays
  PROVE  TaskOK(t)' /\ Fresh(t) /\ \A u \in Tasks : u # t => Still(u)
<1>1. CASE Abandon(t)
  BY <1>1, AbandonOK
<1>2. CASE /\ target[t] # doc[t]
           /\ Goto(t, "contradict")
           /\ from' = [from EXCEPT ![t] = NoEntry]
           /\ UNCHANGED <<queue, doc, verdict, opposites, target, goal>>
  <2>1. pc'[t] = "contradict" /\ \A u \in Tasks : u # t => Still(u)
    BY <1>2 DEF LocalsOK, Goto, Still
  <2>2. Owns(t, doc[t])
    BY <1>2 DEF Owns, Busy, Served
  <2>3. OwnedStay(t)'
    BY <1>2, <2>1, <2>2 DEF TaskOK, OwnedStay, Owns, Busy, Served, Stays
  <2>4. Asks(t)'
    BY <1>2, <2>1 DEF TaskOK, Asks, Busy, Transit, Stays
  <2> QED
    BY <2>1, <2>3, <2>4 DEF TaskOK, Knows, Fresh, Holding
<1>3. CASE Goto(t, "payload") /\ UNCHANGED locals
  <2>1. pc'[t] = "payload" /\ \A u \in Tasks : u # t => Still(u)
    BY <1>3 DEF LocalsOK, Goto, Still, locals
  <2>2. TaskOK(t)'
    BY <1>3, <2>1 DEF TaskOK, OwnedStay, Owns, Asks, Knows, Busy, Transit, locals, Stays
  <2> QED
    BY <2>1, <2>2 DEF Fresh, Holding
<1> QED
  BY <1>1, <1>2, <1>3 DEF Return

\* A task that decides on what the row says, or on what is as good, goes on.
LEMMA DecideOK ==
  ASSUME LocalsOK, NEW t \in Tasks, TaskOK(t), pc[t] \in {"read", "fill"},
         NEW f \in States, Decide(t, f), Stays, UNCHANGED faults,
         goal[t] \in Successors(f) =>
           \/ f = state[target[t]]
           \/ faults > 0 /\ goal[t] \in Successors(state[target[t]]) \cup {state[target[t]]},
         pc[t] = "fill" \/ (goal[t] \in Successors(f) => ~RawCopy(target[t]))
  PROVE  TaskOK(t)' /\ Fresh(t) /\ \A u \in Tasks : u # t => Still(u)
<1>1. CASE Return(t)
  BY <1>1, ReturnOK DEF Transit
<1>2. CASE Abandon(t)
  BY <1>2, AbandonOK
<1>3. CASE /\ goal[t] \in Successors(f)
           /\ Goto(t, "commit")
           /\ from' = [from EXCEPT ![t] = f]
           /\ UNCHANGED <<queue, doc, verdict, opposites, target, goal>>
  <2>1. pc'[t] = "commit" /\ from'[t] = f /\ \A u \in Tasks : u # t => Still(u)
    BY <1>3 DEF LocalsOK, Goto, Still
  <2>2. OwnedStay(t)' /\ Asks(t)'
    BY <1>3, <2>1 DEF TaskOK, OwnedStay, Owns, Asks, Busy, Served, Transit, Stays
  <2>3. Knows(t)'
    BY <1>3, <2>1 DEF Knows, Warranted, Stays
  <2>4. Fresh(t)
    BY <1>3, <2>1 DEF Fresh, Holding
  <2> QED
    BY <2>1, <2>2, <2>3, <2>4 DEF TaskOK
<1> QED
  BY <1>1, <1>2, <1>3 DEF Decide

-----------------------------------------------------------------------------
\* The steps by which a task finds its work, and the read of the row.
LEMMA WorkSteps ==
  ASSUME Typing, OnCourse, NEW t \in Tasks,
         \/ ListDocuments(t) \/ LeaveLoop(t) \/ TakePending(t)
         \/ RecordContradiction(t) \/ ApplyVerdict(t) \/ TakeStale(t)
         \/ GetFromDatabase(t)
  PROVE  OnCourse'
<1> USE DEF Typing, store, locals, budget, Stays
<1>1. TaskOK(t) /\ t[2] \in Kinds
  BY DEF OnCourse, Tasks
<1>2. CASE ListDocuments(t)
  <2>1. /\ pc[t] = "list" /\ pc'[t] = "next" /\ queue'[t] = Listed(t[2]) /\ Local(t)
        /\ t[2] \in PassTasks /\ UNCHANGED cache
    BY <1>2 DEF ListDocuments, Goto, LocalsOK, Furnished, Local, Still
  <2>2. \A d \in Listed(t[2]) : /\ state[d] = Start(t[2])
                                /\ t[2] \in {"expire", "age"} => overdue[d]
    BY <2>1 DEF Listed, Start, PassTasks
  <2>3. TaskOK(t)'
    BY <2>1, <2>2 DEF TaskOK, OwnedStay, Owns, Asks, Knows, Busy, Transit, Local, PassTasks
  <2> QED
    BY <2>1, <2>3, LocalStep DEF Fresh, Holding
<1>3. CASE LeaveLoop(t)
  <2>1. pc[t] = "next" /\ pc'[t] \in {"idle", "done"} /\ Local(t) /\ UNCHANGED <<cache, locals>>
    BY <1>3 DEF LeaveLoop, Goto, LocalsOK, Local, Still
  <2>2. TaskOK(t)'
    BY <1>1, <2>1 DEF TaskOK, OwnedStay, Owns, Asks, Knows, Busy, Transit, Local
  <2> QED
    BY <2>1, <2>2, LocalStep DEF Fresh, Holding
<1>4. CASE TakePending(t)
  <2>1. PICK d \in queue[t], v \in Verdicts :
          \E found \in SUBSET {e \in onceVerified : Opposed(d, e)} :
            /\ queue' = [queue EXCEPT ![t] = @ \ {d}]
            /\ doc' = [doc EXCEPT ![t] = d]
            /\ verdict' = [verdict EXCEPT ![t] = v]
            /\ opposites' = [opposites EXCEPT ![t] = found]
    BY <1>4 DEF TakePending
  <2>2. /\ pc[t] = "next" /\ t[2] = "pending" /\ pc'[t] = "contradict" /\ Local(t)
        /\ queue'[t] = queue[t] \ {d} /\ doc'[t] = d /\ verdict'[t] = v
        /\ opposites'[t] \subseteq onceVerified /\ d \notin opposites'[t]
        /\ UNCHANGED cache
    BY <1>4, <2>1 DEF TakePending, Goto, LocalsOK, Local, Still, Opposed
  <2>3. OwnedStay(t)'
    BY <1>1, <2>1, <2>2 DEF TaskOK, OwnedStay, Owns, Local
  <2>4. Asks(t)'
    BY <2>1, <2>2 DEF Asks, Transit, Local
  <2> QED
    BY <2>2, <2>3, <2>4, LocalStep DEF TaskOK, Knows, Fresh, Holding
<1>5. CASE RecordContradiction(t)
  <2>1. PICK e \in opposites[t] :
          /\ opposites' = [opposites EXCEPT ![t] = @ \ {e}]
          /\ target' = [target EXCEPT ![t] = e]
          /\ goal' = [goal EXCEPT ![t] = "pending_verification"]
          /\ Goto(t, IF contradictions[e] + 1 >= Threshold THEN "read" ELSE "contradict")
    BY <1>5 DEF RecordContradiction
  <2>2. /\ pc[t] = "contradict" /\ t[2] = "pending" /\ pc'[t] \in {"read", "contradict"}
        /\ opposites'[t] = opposites[t] \ {e} /\ target'[t] = e
        /\ goal'[t] = "pending_verification" /\ Local(t)
        /\ UNCHANGED <<cache, queue, doc, verdict>>
    BY <1>1, <1>5, <2>1 DEF RecordContradiction, Goto, LocalsOK, Local, Still, TaskOK, Asks
  <2>3. e \in onceVerified /\ e # doc[t]
    BY <1>1, <2>2 DEF TaskOK, Asks, Busy
  <2>4. OwnedStay(t)'
    BY <1>1, <2>2 DEF TaskOK, OwnedStay, Owns, Busy, Served, Local
  <2>5. Asks(t)'
    BY <1>1, <2>2, <2>3 DEF TaskOK, Asks, Busy, Transit, Local
  <2> QED
    BY <2>2, <2>4, <2>5, LocalStep DEF TaskOK, Knows, Fresh, Holding
<1>6. CASE ApplyVerdict(t)
  <2>1. /\ pc[t] = "contradict" /\ t[2] = "pending" /\ pc'[t] = "read"
        /\ target'[t] = doc[t] /\ goal'[t] = verdict[t] /\ Local(t)
        /\ UNCHANGED <<cache, queue, doc, verdict, opposites>>
    BY <1>1, <1>6 DEF ApplyVerdict, Goto, LocalsOK, Local, Still, TaskOK, Asks
  <2>2. OwnedStay(t)'
    BY <1>1, <2>1 DEF TaskOK, OwnedStay, Owns, Busy, Served, Local
  <2>3. Asks(t)'
    BY <1>1, <2>1 DEF TaskOK, Asks, Busy, Transit, Local
  <2> QED
    BY <2>1, <2>2, <2>3, LocalStep DEF TaskOK, Knows, Fresh, Holding
<1>7. CASE TakeStale(t)
  <2>1. PICK d \in queue[t] :
          /\ queue' = [queue EXCEPT ![t] = @ \ {d}]
          /\ doc' = [doc EXCEPT ![t] = d]
          /\ target' = [target EXCEPT ![t] = d]
    BY <1>7 DEF TakeStale
  <2>2. /\ pc[t] = "next" /\ t[2] \in {"expire", "age"} /\ pc'[t] = "read" /\ Local(t)
        /\ queue'[t] = queue[t] \ {d} /\ doc'[t] = d /\ target'[t] = d
        /\ goal'[t] = (IF t[2] = "age" THEN "archived" ELSE "soft_deleted")
        /\ UNCHANGED cache
    BY <1>7, <2>1 DEF TakeStale, Goto, LocalsOK, Local, Still
  <2>3. OwnedStay(t)'
    BY <1>1, <2>1, <2>2 DEF TaskOK, OwnedStay, Owns, Local
  <2>4. Asks(t)'
    BY <2>1, <2>2 DEF Asks, Transit, Local
  <2> QED
    BY <2>2, <2>3, <2>4, LocalStep DEF TaskOK, Knows, Fresh, Holding
<1>8. CASE GetFromDatabase(t)
  <2>1. /\ pc[t] = "dbread" /\ pc'[t] = "fill" /\ from'[t] = state[target[t]] /\ Local(t)
        /\ UNCHANGED <<cache, queue, doc, verdict, opposites, target, goal>>
    BY <1>8 DEF GetFromDatabase, Goto, LocalsOK, Local, Still
  <2>2. OwnedStay(t)'
    BY <1>1, <2>1 DEF TaskOK, OwnedStay, Owns, Busy, Served, Transit, Local
  <2>3. Asks(t)'
    BY <1>1, <2>1 DEF TaskOK, Asks, Busy, Transit, Local
  <2>4. Knows(t)'
    BY <2>1 DEF Knows, Local
  <2> QED
    BY <2>1, <2>2, <2>3, <2>4, LocalStep DEF TaskOK, Fresh, Holding
<1> QED
  BY <1>2, <1>3, <1>4, <1>5, <1>6, <1>7, <1>8

\* get_state, from the cached copy or from the row it has just read.
LEMMA ReadSteps ==
  ASSUME Alone, Typing, OnCourse, NEW t \in Tasks, GetCached(t) \/ FillCache(t)
  PROVE  OnCourse'
<1> USE DEF Typing, store, locals, budget, Stays
<1>1. TaskOK(t) /\ NeverRaw
  BY DEF OnCourse
<1>2. CASE GetCached(t)
  <2>1. CASE cache[target[t]] # NoEntry /\ Decide(t, cache[target[t]])
    <3>1. pc[t] = "read" /\ cache[target[t]] \in States
      BY <1>2, <2>1 DEF GetCached, StoreOK, LocalsOK, Furnished, Transit
    <3>2. goal[t] \in Successors(cache[target[t]]) =>
            /\ ~RawCopy(target[t])
            /\ \/ cache[target[t]] = state[target[t]]
               \/ faults > 0 /\ goal[t] \in Successors(state[target[t]]) \cup {state[target[t]]}
      BY <2>1, <3>1, CacheEnough, SuccessorFacts
    <3>3. UNCHANGED <<state, overdue, onceVerified, cache, faults>>
      BY <1>2 DEF GetCached
    <3>4. TaskOK(t)' /\ Fresh(t) /\ \A u \in Tasks : u # t => Still(u)
      BY <1>1, <2>1, <3>1, <3>2, <3>3, DecideOK
    <3> QED
      BY <3>1, <3>3, <3>4, LocalStep DEF Local
  <2>2. CASE Goto(t, "dbread") /\ UNCHANGED locals
    <3>1. pc[t] = "read" /\ pc'[t] = "dbread" /\ Local(t) /\ UNCHANGED <<cache, locals>>
      BY <1>2, <2>2 DEF GetCached, Goto, LocalsOK, Local, Still
    <3>2. OwnedStay(t)'
      BY <1>1, <3>1 DEF TaskOK, OwnedStay, Owns, Busy, Served, Transit, Local
    <3>3. Asks(t)'
      BY <1>1, <3>1 DEF TaskOK, Asks, Busy, Transit, Local
    <3>4. cache[target[t]] = NoEntry
      BY <1>2, <2>2, <3>1 DEF GetCached, Decide, Return, Abandon, Goto, LocalsOK
    <3>5. Fresh(t)
      BY <3>1, <3>4 DEF Fresh, RawCopy, NoEntry
    <3> QED
      BY <3>1, <3>2, <3>3, <3>5, LocalStep DEF TaskOK, Knows
  <2> QED
    BY <1>2, <2>1, <2>2 DEF GetCached
<1>3. CASE FillCache(t)
  <2>1. /\ pc[t] = "fill" /\ target[t] \in Docs /\ from[t] \in States
        /\ cache' = [cache EXCEPT ![target[t]] = from[t]] /\ Decide(t, from[t])
        /\ UNCHANGED <<state, overdue, onceVerified, faults>>
    BY <1>3 DEF FillCache, LocalsOK, Furnished, Transit
  <2>2. from[t] = state[target[t]] \/ Behind(from[t], state[target[t]])
    BY <1>1, <2>1 DEF TaskOK, Knows
  <2>3. goal[t] \in Successors(from[t]) => from[t] = state[target[t]]
    BY <1>1, <2>1, <2>2, CloseEnough DEF Transit
  <2>4. TaskOK(t)' /\ Fresh(t) /\ \A u \in Tasks : u # t => Still(u)
    BY <1>1, <2>1, <2>3, DecideOK
  <2>5. \A u \in Tasks : TaskOK(u)'
    BY <2>1, <2>4, StillOK DEF OnCourse
  <2>6. ASSUME NEW d \in Docs PROVE Close(d)'
    <3>1. CASE d = target[t]
      BY <2>1, <2>2, <3>1 DEF Close, StoreOK, Behind
    <3>2. CASE d # target[t]
      <4>1. cache'[d] = cache[d] /\ Close(d)
        BY <2>1, <3>2 DEF OnCourse, StoreOK
      <4>2. Invalidating("pending", d) => Invalidating("pending", d)'
        BY <2>1, <2>4, InvalidatingStands
      <4>3. RawCopy(d) => RawCopy(d)'
        BY <2>1, <2>4, <4>1, RawCopyStands
      <4> QED
        BY <2>1, <4>1, <4>2, <4>3, CloseStands
    <3> QED
      BY <3>1, <3>2
  <2> QED
    BY <1>1, <2>1, <2>5, <2>6 DEF OnCourse, NeverRaw
<1> QED
  BY <1>2, <1>3

-----------------------------------------------------------------------------
\* The UPDATE moves a document along the relation, or writes the state it has, and
\* the document is nobody else's.
LEMMA MoveIsSafe ==
  ASSUME Alone, Typing, CommitIsLegal, OnCourse, NEW t \in Tasks, pc[t] = "commit"
  PROVE  /\ target[t] \in Docs /\ state[target[t]] \in States
         /\ goal[t] \in States /\ goal[t] # "raw"
         /\ from[t] = state[target[t]] \/ faults > 0
         /\ \/ goal[t] \in Successors(state[target[t]])
            \/ goal[t] = state[target[t]] /\ target[t] # doc[t]
         /\ \A u \in Tasks : u # t => ~Owns(u, target[t])
         /\ target[t] # doc[t] => /\ state[target[t]] \in {"verified", "pending_verification"}
                                  /\ goal[t] = "pending_verification"
                                  /\ target[t] \in onceVerified /\ t[2] = "pending"
<1> USE DEF Typing
<1>1. /\ target[t] \in Docs /\ goal[t] \in States /\ state[target[t]] \in States
      /\ t[2] \in Kinds /\ pc[t] \in Transit \ {"invalidate"}
  BY DEF StoreOK, LocalsOK, Furnished, Transit, Tasks
<1>2. TaskOK(t) /\ NeverRaw
  BY DEF OnCourse
<1>3. /\ from[t] = state[target[t]] \/ faults > 0
      /\ goal[t] \in Successors(state[target[t]]) \/ goal[t] = state[target[t]]
  BY <1>2 DEF TaskOK, Knows, Warranted, CommitIsLegal
<1>4. ASSUME NEW u \in Tasks, Owns(u, target[t]) PROVE state[target[t]] = Start(u[2])
  BY <1>1, <1>4 DEF OnCourse, TaskOK, OwnedStay
<1>5. CASE target[t] = doc[t]
  <2>1. state[target[t]] = Start(t[2])
    BY <1>1, <1>2, <1>5, OwnTarget
  <2>2. ASSUME NEW u \in Tasks, u # t, Owns(u, target[t]) PROVE FALSE
    <3>1. u[2] \in Kinds /\ u[2] # t[2]
      BY <2>2, KindsDiffer DEF Tasks
    <3> QED
      BY <1>1, <1>4, <2>1, <2>2, <3>1, StartsDiffer
  <2>3. goal[t] # state[target[t]]
    BY <1>1, <1>2, <1>5, <2>1 DEF TaskOK, Asks, Start, Verdicts, Kinds, PassTasks
  <2>4. goal[t] \in Successors(state[target[t]]) /\ goal[t] # "raw"
    BY <1>1, <1>3, <2>3, SuccessorFacts
  <2> QED
    BY <1>1, <1>3, <1>5, <2>2, <2>4
<1>6. CASE target[t] # doc[t]
  <2>1. t[2] = "pending" /\ goal[t] = "pending_verification" /\ target[t] \in onceVerified
        /\ state[target[t]] # "raw"
    BY <1>1, <1>2, <1>6, ForeignTarget
  <2>2. state[target[t]] \in {"verified", "pending_verification"}
    BY <1>1, <1>3, <2>1, SuccessorFacts
  <2>3. ASSUME NEW u \in Tasks, u # t, Owns(u, target[t]) PROVE FALSE
    <3>1. u[2] \in Kinds /\ u[2] # "pending"
      BY <2>1, <2>3, KindsDiffer DEF Tasks
    <3> QED
      BY <1>4, <2>2, <2>3, <3>1 DEF Start, Kinds, PassTasks
  <2> QED
    BY <1>1, <1>3, <1>6, <2>1, <2>2, <2>3
<1> QED
  BY <1>5, <1>6

\* The UPDATE disturbs no other task ...
LEMMA MoveSparesOthers ==
  ASSUME Alone, Typing, CommitIsLegal, OnCourse, NEW t \in Tasks, ExecuteTransition(t),
         NEW u \in Tasks, u # t
  PROVE  TaskOK(u)'
<1> DEFINE d == target[t]
           s == state[d]
<1> USE DEF Typing
<1>1. /\ pc[t] = "commit" /\ Still(u)
      /\ state' = [state EXCEPT ![d] = goal[t]]
      /\ overdue' = [overdue EXCEPT ![d] = FALSE]
      /\ onceVerified \subseteq onceVerified'
  BY DEF ExecuteTransition, Written, Goto, Still, locals, LocalsOK
<1>2. /\ d \in Docs /\ s \in States /\ goal[t] # "raw" /\ ~Owns(u, d)
      /\ d # doc[t] => s \in {"verified", "pending_verification"} /\ t[2] = "pending"
      /\ d = doc[t] => goal[t] \in Successors(s)
  BY <1>1, MoveIsSafe
<1>3. /\ s = "flagged_review" => goal[t] = "soft_deleted"
      /\ s = "soft_deleted" => goal[t] = "archived"
  BY <1>2, SuccessorFacts
<1>4. TaskOK(u) /\ TaskOK(t) /\ NeverRaw /\ t[2] # u[2] /\ t[2] \in Kinds
  BY KindsDiffer DEF OnCourse, Tasks
<1>5. OwnedStay(u)'
  BY <1>1, <1>2, <1>4 DEF TaskOK, OwnedStay, Owns, Busy, Served, Still, StoreOK
<1>6. Asks(u)'
  BY <1>1, <1>4 DEF TaskOK, Asks, Busy, Transit, Still
<1>7. pc[u] \in {"fill", "commit"} /\ target[u] = d => s \in {"flagged_review", "soft_deleted"}
  <2> SUFFICES ASSUME pc[u] \in {"fill", "commit"}, target[u] = d
               PROVE  s \in {"flagged_review", "soft_deleted"}
    OBVIOUS
  <2>1. d # doc[u]
    BY <1>2 DEF Owns, Busy, Served, Transit
  <2>2. u[2] = "pending" /\ s # "raw"
    BY <1>4, <2>1, ForeignTarget DEF Transit
  <2>3. t[2] # "pending" /\ d = doc[t]
    BY <1>2, <1>4, <2>2
  <2>4. s = Start(t[2])
    BY <1>1, <1>4, <2>3, OwnTarget DEF Transit
  <2> QED
    BY <1>4, <2>2, <2>3, <2>4 DEF Start, Kinds, PassTasks
<1>8. pc[u] = "commit" => target[u] # d
  <2> SUFFICES ASSUME pc[u] = "commit", target[u] = d PROVE FALSE
    OBVIOUS
  <2>1. d # doc[u]
    BY <1>2 DEF Owns, Busy, Served, Transit
  <2>2. s \in {"verified", "pending_verification"}
    BY <2>1, MoveIsSafe
  <2> QED
    BY <1>7, <2>2
<1>9. pc[u] \in Transit => target[u] \in Docs
  BY DEF LocalsOK, Furnished
<1>10. ASSUME pc[u] = "fill"
       PROVE  from[u] = state'[target[u]] \/ Behind(from[u], state'[target[u]])
  <2>1. from[u] = state[target[u]] \/ Behind(from[u], state[target[u]])
    BY <1>4, <1>10 DEF TaskOK, Knows
  <2>2. CASE target[u] = d
    <3>1. state'[target[u]] = goal[t]
      BY <1>1, <1>2, <2>2 DEF StoreOK
    <3> QED
      BY <1>3, <1>7, <1>10, <2>1, <2>2, <3>1 DEF Behind
  <2>3. CASE target[u] # d
    BY <1>1, <1>9, <1>10, <2>1, <2>3 DEF StoreOK, Transit
  <2> QED
    BY <2>2, <2>3
<1>11. ASSUME pc[u] = "invalidate"
       PROVE  ~overdue'[target[u]] /\ state'[target[u]] # "raw"
  <2>1. ~overdue[target[u]] /\ state[target[u]] # "raw" /\ target[u] \in Docs
    BY <1>4, <1>9, <1>11 DEF TaskOK, Knows, Transit
  <2> QED
    BY <1>1, <1>2, <1>3, <2>1 DEF StoreOK
<1>12. ASSUME pc[u] = "commit" PROVE Warranted(u)'
  <2>1. Warranted(u) /\ target[u] # d /\ target[u] \in Docs
    BY <1>4, <1>8, <1>9, <1>12 DEF TaskOK, Knows, Transit
  <2>2. state'[target[u]] = state[target[u]]
    BY <1>1, <2>1 DEF StoreOK
  <2>3. faults' = faults
    BY DEF ExecuteTransition, budget
  <2> QED
    BY <1>1, <2>1, <2>2, <2>3 DEF Warranted, Still
<1>13. Knows(u)'
  BY <1>1, <1>10, <1>11, <1>12 DEF Knows, Still, Behind
<1> QED
  BY <1>5, <1>6, <1>13 DEF TaskOK

\* ... nor what the task that makes it still has in its queue ...
LEMMA MoveSparesOwn ==
  ASSUME Alone, Typing, CommitIsLegal, OnCourse, NEW t \in Tasks, ExecuteTransition(t)
  PROVE  TaskOK(t)' /\ pc'[t] = "invalidate"
<1> DEFINE d == target[t]
           s == state[d]
<1> USE DEF Typing
<1>1. /\ pc[t] = "commit" /\ pc'[t] = "invalidate" /\ UNCHANGED locals
      /\ state' = [state EXCEPT ![d] = goal[t]]
      /\ overdue' = [overdue EXCEPT ![d] = FALSE]
      /\ onceVerified \subseteq onceVerified'
  BY DEF ExecuteTransition, Written, Goto, LocalsOK
<1>2. /\ d \in Docs /\ s \in States /\ goal[t] # "raw"
      /\ d # doc[t] => t[2] = "pending" /\ goal[t] = "pending_verification"
  BY <1>1, MoveIsSafe
<1>3. goal[t] # "raw"
  BY <1>2
<1>4. TaskOK(t)
  BY DEF OnCourse
<1>5. Asks(t)'
  BY <1>1, <1>4 DEF TaskOK, Asks, Busy, Transit, locals
<1>6. ASSUME NEW e \in Docs, Owns(t, e)'
      PROVE  Owns(t, e) /\ (e = d => d # doc[t])
  <2>1. doc[t] \notin queue[t]
    BY <1>1, <1>4 DEF TaskOK, Asks, Busy, Transit
  <2>2. CASE d = doc[t]
    BY <1>1, <1>6, <2>1, <2>2 DEF Owns, Busy, Served, Transit, locals
  <2>3. CASE d # doc[t]
    BY <1>1, <1>6, <2>3 DEF Owns, Busy, Served, Transit, locals
  <2> QED
    BY <2>2, <2>3
<1>7. ASSUME NEW e \in Docs, Owns(t, e)'
      PROVE  state'[e] = Start(t[2]) /\ (t[2] \in {"expire", "age"} => overdue'[e])
  <2>1. Owns(t, e) /\ state[e] = Start(t[2]) /\ (t[2] \in {"expire", "age"} => overdue[e])
    BY <1>4, <1>6, <1>7 DEF TaskOK, OwnedStay
  <2>2. CASE e = d
    <3>1. t[2] = "pending" /\ state'[e] = "pending_verification"
      BY <1>1, <1>2, <1>6, <1>7, <2>2 DEF StoreOK
    <3> QED
      BY <3>1 DEF Start
  <2>3. CASE e # d
    BY <1>1, <1>2, <2>1, <2>3 DEF StoreOK
  <2> QED
    BY <2>2, <2>3
<1>8. OwnedStay(t)'
  BY <1>7 DEF OwnedStay
<1>9. Knows(t)'
  BY <1>1, <1>2, <1>3 DEF Knows, StoreOK, locals
<1> QED
  BY <1>1, <1>5, <1>8, <1>9 DEF TaskOK

\* ... and it leaves the cached copy close: the other documents' copies ...
LEMMA MoveKeepsOthersClose ==
  ASSUME Alone, Typing, CommitIsLegal, OnCourse, NEW t \in Tasks, ExecuteTransition(t),
         NEW e \in Docs, e # target[t]
  PROVE  Close(e)'
<1> DEFINE d == target[t]
<1> USE DEF Typing
<1>1. /\ pc[t] = "commit" /\ UNCHANGED <<locals, cache, faults>> /\ d \in Docs
      /\ state' = [state EXCEPT ![d] = goal[t]]
      /\ overdue' = [overdue EXCEPT ![d] = FALSE]
      /\ onceVerified' \subseteq onceVerified \cup {d}
      /\ \A u \in Tasks : u # t => Still(u)
  BY MoveIsSafe DEF ExecuteTransition, Written, Goto, LocalsOK, Still, locals, budget
<1>2. Close(e) /\ UNCHANGED <<cache[e], state[e], overdue[e]>>
  BY <1>1 DEF OnCourse, StoreOK
<1>3. Invalidating("pending", e) => Invalidating("pending", e)'
  BY <1>1, InvalidatingStands
<1>4. ASSUME RawCopy(e) PROVE RawCopy(e)'
  <2>1. ASSUME NEW u \in Tasks, u[2] = "pending", target'[u] = e PROVE pc'[u] \notin Holding
    <3>1. u # t
      BY <1>1, <2>1 DEF locals
    <3> QED
      BY <1>1, <1>4, <2>1, <3>1 DEF Still, RawCopy
  <2> QED
    BY <1>1, <1>2, <1>4, <2>1 DEF RawCopy
<1> QED
  BY <1>1, <1>2, <1>3, <1>4, CloseStands

\* ... that of a document the pending task moves, forth or back ...
LEMMA PendingMoveKeepsClose ==
  ASSUME Alone, Typing, CommitIsLegal, OnCourse, NEW t \in Tasks, ExecuteTransition(t),
         t[2] = "pending", NEW d \in Docs, d = target[t]
  PROVE  Close(d)'
<1> DEFINE s == state[d]
<1> USE DEF Typing
<1>1. /\ pc[t] = "commit" /\ pc'[t] = "invalidate" /\ UNCHANGED <<locals, cache, faults>>
      /\ state' = [state EXCEPT ![d] = goal[t]]
      /\ overdue' = [overdue EXCEPT ![d] = FALSE]
  BY DEF ExecuteTransition, Written, Goto, LocalsOK, locals, budget
<1>2. /\ d \in Docs /\ d # doc[t] => /\ s \in {"verified", "pending_verification"}
                                     /\ goal[t] = "pending_verification"
  BY <1>1, MoveIsSafe
<1>3. d \in Docs /\ Close(d) /\ TaskOK(t)
  BY <1>1, MoveIsSafe DEF OnCourse
<1>4. d = doc[t] => s = "pending_verification" /\ goal[t] \in Verdicts
  BY <1>1, <1>3, OwnTarget DEF Transit, Start, TaskOK, Asks
<1>5. /\ state'[d] = goal[t] /\ ~overdue'[d] /\ cache'[d] = cache[d] /\ faults' = faults
      /\ Invalidating("pending", d)'
  BY <1>1, <1>3 DEF StoreOK, Invalidating, locals
<1>6. ~RawCopy(d)
  BY <1>1 DEF RawCopy, Holding
<1>7. ~Invalidating("pending", d)
  BY <1>1, KindsDiffer DEF Invalidating
<1>8. CASE cache[d] = s
  <2>1. cache[d] = goal[t] \/ Old(cache[d], goal[t])
    BY <1>2, <1>3, <1>4, <1>8 DEF Old
  <2> QED
    BY <1>5, <2>1 DEF Close, Old
<1>9. ~Behind(cache[d], s)
  BY <1>2, <1>3, <1>4 DEF Behind
<1> QED
  BY <1>3, <1>5, <1>6, <1>7, <1>8, <1>9 DEF Close

\* ... and that of a document another task moves.
LEMMA OtherMoveKeepsClose ==
  ASSUME Alone, Typing, CommitIsLegal, OnCourse, NEW t \in Tasks, ExecuteTransition(t),
         t[2] # "pending", NEW d \in Docs, d = target[t]
  PROVE  Close(d)'
<1> DEFINE s == state[d]
<1> USE DEF Typing
<1>1. /\ pc[t] = "commit" /\ UNCHANGED <<locals, cache>>
      /\ state' = [state EXCEPT ![d] = goal[t]]
      /\ onceVerified' = IF goal[t] = "verified" THEN onceVerified \cup {d} ELSE onceVerified
      /\ \A u \in Tasks : u # t => Still(u)
  BY DEF ExecuteTransition, Written, Goto, LocalsOK, Still, locals
<1>2. d \in Docs /\ d = doc[t] /\ s \in States /\ goal[t] \in Successors(s)
  BY <1>1, MoveIsSafe
<1>3. Close(d) /\ TaskOK(t) /\ NeverRaw /\ t[2] \in Kinds
  BY <1>2 DEF OnCourse, Tasks
<1>4. s = Start(t[2]) /\ (t[2] \in {"expire", "age"} => overdue[d])
  BY <1>1, <1>2, <1>3, OwnTarget DEF Transit
<1>5. state'[d] = goal[t] /\ cache'[d] = cache[d]
  BY <1>1, <1>2 DEF StoreOK
<1>6. Invalidating("pending", d) => ~overdue[d] /\ s # "raw"
  BY DEF Invalidating, OnCourse, TaskOK, Knows
<1>7. CASE t[2] = "submit"
  <2>1. s = "raw" /\ goal[t] = "pending_verification" /\ d \notin onceVerified'
    BY <1>1, <1>2, <1>3, <1>4, <1>7, SuccessorFacts DEF Start, NeverRaw
  <2>2. cache[d] = NoEntry \/ cache[d] = "raw"
    BY <1>3, <1>6, <2>1 DEF Close, Behind, RawCopy, Old, Verdicts
  <2>3. ASSUME NEW u \in Tasks, u[2] = "pending", target[u] = d, pc[u] \in Holding PROVE FALSE
    <3>1. TaskOK(u) /\ pc[u] \in Transit
      BY <2>3 DEF OnCourse, Holding, Transit
    <3>2. CASE pc[u] = "invalidate"
      BY <2>1, <3>1, <2>3, <3>2 DEF TaskOK, Knows
    <3>3. CASE pc[u] # "invalidate" /\ d = doc[u]
      BY <2>1, <2>3, <3>1, <3>3, OwnTarget DEF Start
    <3>4. CASE pc[u] # "invalidate" /\ d # doc[u]
      BY <1>3, <2>1, <2>3, <3>1, <3>4, ForeignTarget
    <3> QED
      BY <3>2, <3>3, <3>4
  <2>4. \A u \in Tasks : u[2] = "pending" /\ target'[u] = d => pc'[u] \notin Holding
    BY <1>1, <1>7, <2>3 DEF Still
  <2> QED
    BY <1>5, <2>1, <2>2, <2>4 DEF Close, RawCopy
<1>8. CASE t[2] \in {"expire", "age"}
  <2>1. \/ s = "flagged_review" /\ goal[t] = "soft_deleted"
        \/ s = "soft_deleted" /\ goal[t] = "archived"
    BY <1>2, <1>4, <1>8, SuccessorFacts DEF Start
  <2>2. cache[d] = NoEntry \/ cache[d] = s \/ Behind(cache[d], s)
    BY <1>3, <1>4, <1>6, <1>8, <2>1 DEF Close, RawCopy
  <2> QED
    BY <1>5, <2>1, <2>2 DEF Close, Behind
<1> QED
  BY <1>3, <1>7, <1>8 DEF Kinds, PassTasks

LEMMA MoveStep ==
  ASSUME Alone, Typing, CommitIsLegal, OnCourse, NEW t \in Tasks, ExecuteTransition(t)
  PROVE  OnCourse'
<1>1. \A u \in Tasks : TaskOK(u)'
  BY MoveSparesOthers, MoveSparesOwn
<1>2. pc[t] = "commit"
  BY DEF ExecuteTransition
<1>3. /\ target[t] \in Docs /\ goal[t] # "raw"
      /\ state' = [state EXCEPT ![target[t]] = goal[t]]
      /\ onceVerified' \subseteq onceVerified \cup {target[t]}
  BY <1>2, MoveIsSafe DEF ExecuteTransition, Written
<1>4. NeverRaw'
  BY <1>3 DEF OnCourse, NeverRaw, Typing, StoreOK
<1>5. ASSUME NEW e \in Docs PROVE Close(e)'
  <2>1. CASE e # target[t]
    BY <2>1, MoveKeepsOthersClose
  <2>2. CASE e = target[t] /\ t[2] = "pending"
    BY <2>2, PendingMoveKeepsClose
  <2>3. CASE e = target[t] /\ t[2] # "pending"
    BY <2>3, OtherMoveKeepsClose
  <2> QED
    BY <2>1, <2>2, <2>3
<1> QED
  BY <1>1, <1>4, <1>5 DEF OnCourse

\* Deleting the cached copy.
LEMMA InvalidateStep ==
  ASSUME Alone, Typing, OnCourse, NEW t \in Tasks, InvalidateCache(t)
  PROVE  OnCourse'
<1> USE DEF Typing
<1>1. /\ pc[t] = "invalidate" /\ target[t] \in Docs
      /\ cache' = [cache EXCEPT ![target[t]] = NoEntry]
      /\ Stays
  BY DEF InvalidateCache, store, budget, Stays, LocalsOK, Furnished, Transit
<1>2. TaskOK(t)' /\ Fresh(t) /\ \A u \in Tasks : u # t => Still(u)
  BY <1>1, ReturnOK DEF InvalidateCache, OnCourse, Transit
<1>3. \A u \in Tasks : TaskOK(u)'
  BY <1>1, <1>2, StillOK DEF OnCourse
<1>4. ASSUME NEW d \in Docs PROVE Close(d)'
  <2>1. CASE d = target[t]
    BY <1>1, <2>1 DEF Close, StoreOK
  <2>2. CASE d # target[t]
    <3>1. cache'[d] = cache[d] /\ Close(d)
      BY <1>1, <2>2 DEF OnCourse, StoreOK
    <3>2. \A k : Invalidating(k, d) => Invalidating(k, d)'
      BY <1>2, <2>2 DEF Invalidating, Still
    <3>3. RawCopy(d) => RawCopy(d)'
      BY <1>1, <1>2, <3>1, RawCopyStands DEF Stays
    <3> QED
      BY <1>1, <3>1, <3>2, <3>3, CloseStands DEF Stays
  <2> QED
    BY <2>1, <2>2
<1> QED
  BY <1>1, <1>3, <1>4 DEF OnCourse, NeverRaw, Stays

\* The first fault makes old copies stay, and nothing worse (CallFails, ListingFails, Crash).
LEMMA FaultKeepsClose ==
  ASSUME NEW d, Close(d), UNCHANGED <<cache[d], state[d], overdue[d]>>,
         faults = 0, faults' = faults + 1, RawCopy(d) => RawCopy(d)'
  PROVE  Close(d)'
<1>1. ~(faults > 0) /\ faults' > 0
  OBVIOUS
<1>2. CASE RawCopy(d)
  BY <1>2 DEF Close
<1>3. CASE Old(cache[d], state[d]) /\ ~overdue[d]
  BY <1>1, <1>3 DEF Close, Old
<1>4. CASE cache[d] = NoEntry \/ cache[d] = state[d] \/ Behind(cache[d], state[d])
  BY <1>4 DEF Close, Behind
<1> QED
  BY <1>1, <1>2, <1>3, <1>4 DEF Close

LEMMA OnCourseStep ==
  Alone /\ Typing /\ CommitIsLegal /\ OnCourse /\ [Next]_vars /\ faults' <= 1
    => OnCourse'
<1> SUFFICES ASSUME Alone, Typing, CommitIsLegal, OnCourse, [Next]_vars, faults' <= 1
             PROVE  OnCourse'
  OBVIOUS
<1> USE DEF store, locals, budget
<1>1. CASE UNCHANGED vars
  <2>1. /\ UNCHANGED <<state, overdue, onceVerified, cache, faults, pc, locals>>
    BY <1>1 DEF vars
  <2>2. \A u \in Tasks : TaskOK(u)'
    BY <2>1, StillOK DEF OnCourse, Still, Stays
  <2>3. \A d \in Docs : Close(d)'
    BY <2>1 DEF OnCourse, Close, Behind, Old, RawCopy, Invalidating
  <2> QED
    BY <2>1, <2>2, <2>3 DEF OnCourse, NeverRaw
<1>2. ASSUME NEW r \in Replicas, StartPass(r) \/ EndPass(r) PROVE OnCourse'
  <2>1. /\ UNCHANGED <<store, cache, locals, faults>>
        /\ \A u \in Tasks : \/ pc'[u] = pc[u]
                            \/ /\ pc[u] \in {"idle", "done"} /\ pc'[u] \in {"idle", "list"}
    BY <1>2 DEF StartPass, EndPass
  <2>2. ASSUME NEW u \in Tasks PROVE TaskOK(u)'
    <3>1. TaskOK(u)
      BY DEF OnCourse
    <3>2. CASE pc'[u] = pc[u]
      BY <2>1, <3>1, <3>2, StillOK DEF Still, Stays
    <3>3. CASE pc[u] \in {"idle", "done"} /\ pc'[u] \in {"idle", "list"}
      BY <2>1, <3>1, <3>3 DEF TaskOK, OwnedStay, Owns, Asks, Knows, Busy, Transit
    <3> QED
      BY <2>1, <3>2, <3>3
  <2>3. \A u \in Tasks : pc[u] = "invalidate" => pc'[u] = "invalidate"
    BY <2>1
  <2>4. ASSUME NEW d \in Docs PROVE Close(d)'
    <3>1. \A k : Invalidating(k, d) => Invalidating(k, d)'
      BY <2>1, <2>3 DEF Invalidating
    <3>2. RawCopy(d) => RawCopy(d)'
      BY <2>1 DEF RawCopy, Holding
    <3>3. Close(d)
      BY DEF OnCourse
    <3> QED
      BY <2>1, <3>1, <3>2, <3>3, CloseStands
  <2> QED
    BY <2>1, <2>2, <2>4 DEF OnCourse, NeverRaw
<1>3. ASSUME NEW r \in Replicas, Crash(r) PROVE OnCourse'
  <2>1. /\ UNCHANGED <<state, overdue, onceVerified, cache>> /\ faults' = faults + 1
        /\ \A u \in Tasks : u[1] = r => pc'[u] = "idle" /\ queue'[u] = {}
    BY <1>3 DEF Crash
  <2>2. \A u \in Tasks : u[1] = r
    BY <1>3 DEF Alone, Tasks
  <2>3. faults = 0
    BY <2>1, BoundsAssumption DEF Typing, StoreOK
  <2>4. \A u \in Tasks : TaskOK(u)'
    BY <2>1, <2>2 DEF TaskOK, OwnedStay, Owns, Asks, Knows, Busy, Transit
  <2>5. ASSUME NEW d \in Docs PROVE Close(d)'
    <3>1. RawCopy(d) => RawCopy(d)'
      BY <2>1, <2>2 DEF RawCopy, Holding
    <3> QED
      BY <2>1, <2>3, <3>1, FaultKeepsClose DEF OnCourse
  <2> QED
    BY <2>1, <2>4, <2>5 DEF OnCourse, NeverRaw
<1>4. ASSUME NEW t \in Tasks, CallFails(t) PROVE OnCourse'
  <2>1. /\ Abandon(t) /\ UNCHANGED <<state, overdue, onceVerified, cache>>
        /\ faults' = faults + 1
    BY <1>4 DEF CallFails
  <2>2. faults = 0
    BY <2>1, BoundsAssumption DEF Typing, StoreOK
  <2>3. Stays
    BY <2>1, <2>2 DEF Stays
  <2>4. TaskOK(t)' /\ Fresh(t) /\ \A u \in Tasks : u # t => Still(u)
    BY <2>1, <2>3, AbandonOK DEF OnCourse, Typing
  <2>5. \A u \in Tasks : TaskOK(u)'
    BY <2>3, <2>4, StillOK DEF OnCourse
  <2>6. ASSUME NEW d \in Docs PROVE Close(d)'
    <3>1. RawCopy(d) => RawCopy(d)'
      BY <2>1, <2>4, RawCopyStands
    <3> QED
      BY <2>1, <2>2, <3>1, FaultKeepsClose DEF OnCourse
  <2> QED
    BY <2>1, <2>5, <2>6 DEF OnCourse, NeverRaw
<1>9. ASSUME NEW t \in Tasks, ListingFails(t) PROVE OnCourse'
  <2>1. /\ pc[t] = "list" /\ pc' = [pc EXCEPT ![t] = "done"] /\ UNCHANGED locals
        /\ UNCHANGED <<state, overdue, onceVerified, cache>> /\ faults' = faults + 1
    BY <1>9 DEF ListingFails, Goto
  <2>2. faults = 0
    BY <2>1, BoundsAssumption DEF Typing, StoreOK
  <2>3. Stays
    BY <2>1, <2>2 DEF Stays
  <2>4. \A u \in Tasks : u # t => Still(u)
    BY <2>1 DEF Still, Typing, LocalsOK
  <2>5. ASSUME NEW u \in Tasks PROVE TaskOK(u)'
    <3>1. TaskOK(u)
      BY DEF OnCourse
    <3>2. CASE u # t
      BY <2>3, <2>4, <3>1, <3>2, StillOK
    <3>3. CASE u = t
      BY <2>1, <3>1, <3>3 DEF TaskOK, OwnedStay, Owns, Asks, Knows, Busy, Transit, Typing, LocalsOK
    <3> QED
      BY <3>2, <3>3
  <2>6. Fresh(t)
    BY <2>1 DEF Fresh, Holding, Typing, LocalsOK
  <2>7. ASSUME NEW d \in Docs PROVE Close(d)'
    <3>1. RawCopy(d) => RawCopy(d)'
      BY <2>1, <2>4, <2>6, RawCopyStands
    <3> QED
      BY <2>1, <2>2, <3>1, FaultKeepsClose DEF OnCourse
  <2> QED
    BY <2>1, <2>5, <2>7 DEF OnCourse, NeverRaw
<1>5. ASSUME NEW t \in Tasks, NotifyQdrant(t) \/ NotifyQdrantFails(t) PROVE OnCourse'
  <2>1. pc[t] = "payload" /\ Abandon(t) /\ Stays /\ UNCHANGED cache
    BY <1>5 DEF NotifyQdrant, NotifyQdrantFails, Stays
  <2>2. TaskOK(t)' /\ Fresh(t) /\ Local(t)
    BY <2>1, AbandonOK DEF OnCourse, Typing, Local
  <2> QED
    BY <2>1, <2>2, LocalStep
<1>6. ASSUME NEW t \in Tasks, NEW d \in Docs, Submit(t, d) PROVE OnCourse'
  <2>1. /\ pc[t] = "idle" /\ t[2] = "submit" /\ state[d] = "raw" /\ pc'[t] = "read"
        /\ doc'[t] = d /\ target'[t] = d /\ goal'[t] = "pending_verification"
        /\ Local(t) /\ UNCHANGED <<cache, queue>>
    BY <1>6 DEF Submit, Goto, Typing, LocalsOK, Local, Still, Stays
  <2>2. TaskOK(t) /\ queue[t] = {}
    BY <2>1 DEF OnCourse, TaskOK, Asks
  <2>3. OwnedStay(t)'
    BY <2>1, <2>2 DEF OwnedStay, Owns, Start, Local, Stays
  <2>4. Asks(t)'
    BY <2>1, <2>2 DEF Asks, Busy, Transit
  <2> QED
    BY <2>1, <2>3, <2>4, LocalStep DEF TaskOK, Knows, Fresh, Holding
<1>7. ASSUME NEW d \in Docs, CacheExpires(d) PROVE OnCourse'
  <2>1. cache' = [cache EXCEPT ![d] = NoEntry] /\ UNCHANGED <<store, pc, locals, faults>>
    BY <1>7 DEF CacheExpires
  <2>2. \A u \in Tasks : TaskOK(u)'
    BY <2>1, StillOK DEF OnCourse, Still, Stays
  <2>3. ASSUME NEW e \in Docs PROVE Close(e)'
    <3>1. cache'[e] \in {NoEntry, cache[e]} /\ Close(e)
      BY <2>1 DEF Typing, StoreOK, OnCourse
    <3>2. \A k : Invalidating(k, e) => Invalidating(k, e)'
      BY <2>1 DEF Invalidating
    <3>3. RawCopy(e) /\ cache'[e] = cache[e] => RawCopy(e)'
      BY <2>1 DEF RawCopy
    <3>4. CASE cache'[e] = NoEntry
      BY <3>4 DEF Close
    <3>5. CASE cache'[e] = cache[e]
      BY <2>1, <3>1, <3>2, <3>3, <3>5, CloseStands
    <3> QED
      BY <3>1, <3>4, <3>5
  <2> QED
    BY <2>1, <2>2, <2>3 DEF OnCourse, NeverRaw
<1>8. ASSUME NEW d \in Docs, DaysPass(d) PROVE OnCourse'
  <2>1. /\ \A u \in Tasks : pc[u] = "idle"
        /\ overdue' = [overdue EXCEPT ![d] = TRUE]
        /\ cache' = [e \in Docs |-> NoEntry]
        /\ UNCHANGED <<state, onceVerified, pc, locals>>
    BY <1>8 DEF DaysPass
  <2>2. ASSUME NEW u \in Tasks PROVE TaskOK(u)'
    <3>1. TaskOK(u) /\ ~Busy(u) /\ ~Busy(u)' /\ pc'[u] = "idle"
      BY <2>1 DEF OnCourse, Busy, Transit
    <3>2. \A e \in Docs : overdue[e] => overdue'[e]
      BY <2>1 DEF Typing, StoreOK
    <3>3. OwnedStay(u)'
      BY <2>1, <3>1, <3>2 DEF TaskOK, OwnedStay, Owns
    <3>4. Asks(u)'
      BY <2>1, <3>1 DEF TaskOK, Asks, Transit
    <3> QED
      BY <3>1, <3>3, <3>4 DEF TaskOK, Knows
  <2> QED
    BY <2>1, <2>2 DEF OnCourse, NeverRaw, Close
<1> QED
  BY <1>1, <1>2, <1>3, <1>4, <1>5, <1>6, <1>7, <1>8, <1>9, WorkSteps, ReadSteps, MoveStep,
     InvalidateStep DEF Next, TaskStep

\* Nothing is in flight at first, and nothing is cached.
LEMMA OnCourseAtFirst == Init => OnCourse
  BY DEF Init, OnCourse, TaskOK, OwnedStay, Owns, Asks, Knows, Busy, Transit, NeverRaw, Close

\* No step repairs a fault (CallFails, ListingFails, Crash).
LEMMA FaultsAreCounted ==
  Typing /\ [Next]_vars => faults \in Nat /\ faults' \in {faults, faults + 1}
<1> SUFFICES ASSUME Typing, [Next]_vars PROVE faults' \in {faults, faults + 1}
  BY BoundsAssumption DEF Typing, StoreOK
<1>1. ASSUME NEW r \in Replicas, Crash(r) PROVE faults' = faults + 1
  BY <1>1 DEF Crash
<1>2. ASSUME NEW t \in Tasks, CallFails(t) \/ ListingFails(t) PROVE faults' = faults + 1
  BY <1>2 DEF CallFails, ListingFails
<1>3. CASE UNCHANGED vars
  BY <1>3 DEF vars, budget
<1>4. ASSUME NEW r \in Replicas, StartPass(r) \/ EndPass(r) PROVE faults' = faults
  BY <1>4 DEF StartPass, EndPass, budget
<1>5. ASSUME NEW t \in Tasks,
             \/ TaskStep(t) \/ NotifyQdrantFails(t) \/ \E d \in Docs : Submit(t, d)
      PROVE  faults' = faults
  BY <1>5 DEF TaskStep, ListDocuments, LeaveLoop, TakePending, RecordContradiction, ApplyVerdict,
              TakeStale, NotifyQdrant, NotifyQdrantFails, GetCached, GetFromDatabase, FillCache,
              ExecuteTransition, InvalidateCache, Submit, budget
<1>6. ASSUME NEW d \in Docs, CacheExpires(d) \/ DaysPass(d) PROVE faults' = faults
  BY <1>6 DEF CacheExpires, DaysPass, budget
<1> QED
  BY <1>1, <1>2, <1>3, <1>4, <1>5, <1>6 DEF Next

\* What one replica can rely on until its second fault.
Calm == faults <= 1 => OnCourse

\* Calm is inductive for one replica (get_state, transition).
LEMMA CalmHolds == ASSUME Alone PROVE Spec => [](CommitIsLegal /\ Calm)
<1>1. Init => CommitIsLegal /\ Calm
  BY OnCourseAtFirst DEF Init, CommitIsLegal, Calm
<1>2. Alone
  OBVIOUS
<1>3. Typing /\ CommitIsLegal /\ Calm /\ [Next]_vars => Calm'
  BY <1>2, OnCourseStep, FaultsAreCounted DEF Calm
<1> QED
  BY <1>1, <1>3, CommitStep, TypingHolds, PTL DEF Spec

\* With one replica and at most one failed Redis call or crash, the row moves only
\* along _validate_transition, although the UPDATE never looks at what it replaces
\* and the fault may leave old copies in the cache.
THEOREM MovesAreLegal == ASSUME Alone, MaxFaults \in 0..1 PROVE Spec => LegalMoves
<1>0. Typing => faults <= 1
  BY DEF Typing, StoreOK
<1>1. ASSUME Typing, CommitIsLegal, Calm, [Next]_vars
      PROVE  [\A d \in Docs : state'[d] # state[d] => state'[d] \in Successors(state[d])]_vars
  <2>1. CASE UNCHANGED <<state, loggedFrom>>
    BY <2>1
  <2>2. ASSUME NEW t \in Tasks, ExecuteTransition(t)
        PROVE  \A d \in Docs : state'[d] # state[d] => state'[d] \in Successors(state[d])
    <3>1. \/ goal[t] \in Successors(state[target[t]])
          \/ goal[t] = state[target[t]]
      BY <1>0, <1>1, <2>2, MoveIsSafe DEF ExecuteTransition, Calm
    <3> QED
      BY <1>1, <2>2, <3>1 DEF ExecuteTransition, Written, Typing, StoreOK
  <2> QED
    BY <1>1, <2>1, <2>2, OnlyUpdatesWrite
<1> QED
  BY <1>1, TypingHolds, CalmHolds, PTL DEF Spec, LegalMoves

\* Until the first failed call the log row names the state the document really left ...
THEOREM LogTellsTheMove == ASSUME Alone PROVE Spec => LogIsFaithful
<1>1. ASSUME Typing, CommitIsLegal, Calm, [Next]_vars
      PROVE  [faults' = 0 =>
                \A d \in Docs : state'[d] # state[d] => loggedFrom'[d] = state[d]]_vars
  <2> SUFFICES ASSUME faults' = 0
               PROVE  \A d \in Docs : state'[d] # state[d] => loggedFrom'[d] = state[d]
    OBVIOUS
  <2>0. OnCourse /\ ~(faults > 0)
    <3>1. faults = 0
      BY <1>1, FaultsAreCounted
    <3> QED
      BY <1>1, <3>1 DEF Calm
  <2>1. CASE UNCHANGED <<state, loggedFrom>>
    BY <2>1
  <2>2. ASSUME NEW t \in Tasks, ExecuteTransition(t)
        PROVE  \A d \in Docs : state'[d] # state[d] => loggedFrom'[d] = state[d]
    <3>1. from[t] = state[target[t]]
      BY <1>1, <2>0, <2>2, MoveIsSafe DEF ExecuteTransition
    <3> QED
      BY <1>1, <2>2, <3>1 DEF ExecuteTransition, Written, Typing, StoreOK
  <2> QED
    BY <1>1, <2>1, <2>2, OnlyUpdatesWrite
<1> QED
  BY <1>1, TypingHolds, CalmHolds, PTL DEF Spec, LogIsFaithful

\* ... and a transition() that returns without writing, to whatever caller, found the
\* document where it was asked to put it, whatever the cached copy said.
THEOREM SilenceIsTrue == ASSUME Alone PROVE Spec => SilentReturnIsTrue
<1>1. ASSUME Typing, CommitIsLegal, Calm, [Next]_vars
      PROVE  [\A t \in Tasks :
                faults' = 0 /\ NothingToDo(t) /\ pc'[t] # pc[t]
                  => state[target[t]] = goal[t]]_vars
  <2> SUFFICES ASSUME NEW t \in Tasks, faults' = 0, NothingToDo(t)
               PROVE  state[target[t]] = goal[t]
    OBVIOUS
  <2>0. OnCourse /\ ~(faults > 0)
    <3>1. faults = 0
      BY <1>1, FaultsAreCounted
    <3> QED
      BY <1>1, <3>1 DEF Calm
  <2>1. CASE pc[t] = "read" /\ cache[target[t]] = goal[t]
    <3>1. goal[t] \in States
      BY <1>1, <2>1 DEF Typing, LocalsOK, Furnished, Transit
    <3>2. cache[target[t]] # NoEntry
      BY <2>1, <3>1 DEF States, NoEntry
    <3> QED
      BY <1>1, <2>0, <2>1, <3>2, CacheEnough
  <2>2. CASE pc[t] = "fill" /\ from[t] = goal[t]
    <3>1. TaskOK(t) /\ NeverRaw /\ from[t] \in States
      BY <1>1, <2>0, <2>2 DEF OnCourse, Typing, LocalsOK, Furnished
    <3>2. from[t] = state[target[t]] \/ Behind(from[t], state[target[t]])
      BY <2>2, <3>1 DEF TaskOK, Knows
    <3> QED
      BY <1>1, <2>2, <3>1, <3>2, CloseEnough DEF Transit
  <2> QED
    BY <2>1, <2>2 DEF NothingToDo
<1> QED
  BY <1>1, TypingHolds, CalmHolds, PTL DEF Spec, SilentReturnIsTrue

-----------------------------------------------------------------------------
(* The connection pool: what PassEnds rests on, whatever fails or crashes.   *)

Outer(r) == {t \in {r} \X Kinds : HoldsOuter(t)}
Inner(r) == {t \in {r} \X Kinds : HoldsInner(t)}

NotOverdrawn == \A r \in Replicas : InUse(r) <= PoolSize

\* A replica has a connection left, or one of its tasks is writing the cache: it
\* waits for Redis alone and then gives its second connection back (get_state).
NoCircularWait ==
  \A r \in Replicas : InUse(r) < PoolSize \/ \E t \in {r} \X Kinds : pc[t] = "fill"

\* The tasks of one replica, and of one pass, are few.
LEMMA TasksAreFew ==
  /\ \A r \in Replicas : IsFiniteSet({r} \X Kinds) /\ {r} \X Kinds \subseteq Tasks
  /\ \A r \in Replicas : IsFiniteSet({r} \X PassTasks)
                         /\ Cardinality({r} \X PassTasks) = Cardinality(PassTasks)
  /\ Cardinality(PassTasks) \in Nat
<1>1. IsFiniteSet(PassTasks)
  <2>1. IsFiniteSet({}) /\ IsFiniteSet({"pending"})
    BY FS_EmptySet, FS_Singleton
  <2>2. IsFiniteSet({"pending"} \cup {"expire"})
    BY <2>1, FS_AddElement
  <2>3. IsFiniteSet(({"pending"} \cup {"expire"}) \cup {"age"})
    BY <2>2, FS_AddElement
  <2>4. PassTasks = ({"pending"} \cup {"expire"}) \cup {"age"}
    BY DEF PassTasks
  <2> QED
    BY <2>3, <2>4
<1>2. IsFiniteSet(Kinds)
  BY <1>1, FS_AddElement DEF Kinds
<1>3. Cardinality(PassTasks) \in Nat
  BY <1>1, FS_CardinalityType
<1>4. ASSUME NEW r \in Replicas
      PROVE  /\ IsFiniteSet({r} \X Kinds) /\ {r} \X Kinds \subseteq Tasks
             /\ IsFiniteSet({r} \X PassTasks)
             /\ Cardinality({r} \X PassTasks) = Cardinality(PassTasks)
  <2>1. IsFiniteSet({r}) /\ Cardinality({r}) = 1
    BY FS_Singleton
  <2>2. IsFiniteSet({r} \X Kinds)
    BY <1>2, <2>1, FS_Product
  <2>3. /\ IsFiniteSet({r} \X PassTasks)
        /\ Cardinality({r} \X PassTasks) = 1 * Cardinality(PassTasks)
    BY <1>1, <2>1, FS_Product
  <2>4. 1 * Cardinality(PassTasks) = Cardinality(PassTasks)
    BY <1>3
  <2>5. {r} \X Kinds \subseteq Tasks
    BY DEF Tasks
  <2> QED
    BY <2>2, <2>3, <2>4, <2>5
<1> QED
  BY <1>3, <1>4

\* Both kinds of connections are counted.
LEMMA PoolIsCounted ==
  ASSUME NEW r \in Replicas
  PROVE  /\ IsFiniteSet(Outer(r)) /\ IsFiniteSet(Inner(r))
         /\ Cardinality(Outer(r)) \in Nat /\ Cardinality(Inner(r)) \in Nat
         /\ InUse(r) = Cardinality(Outer(r)) + Cardinality(Inner(r))
         /\ IsFiniteSet(Outer(r))' /\ IsFiniteSet(Inner(r))'
         /\ Cardinality(Outer(r))' \in Nat /\ Cardinality(Inner(r))' \in Nat
         /\ InUse(r)' = Cardinality(Outer(r)') + Cardinality(Inner(r)')
<1>1. ASSUME NEW S \in SUBSET ({r} \X Kinds) PROVE IsFiniteSet(S) /\ Cardinality(S) \in Nat
  BY <1>1, TasksAreFew, FS_Subset, FS_CardinalityType
<1>2. /\ Outer(r) \in SUBSET ({r} \X Kinds) /\ Inner(r) \in SUBSET ({r} \X Kinds)
      /\ Outer(r)' \in SUBSET ({r} \X Kinds) /\ Inner(r)' \in SUBSET ({r} \X Kinds)
  BY DEF Outer, Inner
<1>3. /\ InUse(r) = Cardinality(Outer(r)) + Cardinality(Inner(r))
      /\ InUse(r)' = Cardinality(Outer(r)') + Cardinality(Inner(r)')
  BY DEF InUse, Outer, Inner
<1> QED
  BY <1>1, <1>2, <1>3

\* A step that gives no task a connection takes none from the pool.
LEMMA NothingDrawn ==
  ASSUME NEW r \in Replicas, InUse(r) <= PoolSize,
         \A u \in {r} \X Kinds : /\ HoldsOuter(u)' => HoldsOuter(u)
                                 /\ HoldsInner(u)' => HoldsInner(u)
  PROVE  InUse(r)' <= PoolSize
<1>1. Outer(r)' \in SUBSET Outer(r) /\ Inner(r)' \in SUBSET Inner(r)
  BY DEF Outer, Inner
<1>2. /\ Cardinality(Outer(r)') <= Cardinality(Outer(r))
      /\ Cardinality(Inner(r)') <= Cardinality(Inner(r))
  BY <1>1, PoolIsCounted, FS_Subset
<1> QED
  BY <1>2, PoolIsCounted, BoundsAssumption

\* A set that gains at most one element grows by one at most.
LEMMA AtMostOneMore ==
  ASSUME NEW S, IsFiniteSet(S), NEW x, NEW T \in SUBSET (S \cup {x})
  PROVE  Cardinality(T) <= Cardinality(S) + 1
<1>1. /\ IsFiniteSet(S \cup {x})
      /\ Cardinality(S \cup {x}) \in {Cardinality(S), Cardinality(S) + 1}
  BY FS_AddElement
<1>2. Cardinality(T) <= Cardinality(S \cup {x}) /\ Cardinality(T) \in Nat
  BY <1>1, FS_Subset, FS_CardinalityType
<1>3. Cardinality(S) \in Nat
  BY FS_CardinalityType
<1> QED
  BY <1>1, <1>2, <1>3

\* A step that takes one connection finds one (pool.acquire).
LEMMA OneDrawn ==
  ASSUME NEW r \in Replicas, InUse(r) < PoolSize, NEW t,
         \A u \in ({r} \X Kinds) \ {t} : /\ HoldsOuter(u)' => HoldsOuter(u)
                                         /\ HoldsInner(u)' => HoldsInner(u),
         \/ t \in {r} \X Kinds => (HoldsOuter(t)' => HoldsOuter(t))
         \/ t \in {r} \X Kinds => (HoldsInner(t)' => HoldsInner(t))
  PROVE  InUse(r)' <= PoolSize
<1>1. CASE t \in {r} \X Kinds => (HoldsOuter(t)' => HoldsOuter(t))
  <2>1. Outer(r)' \in SUBSET Outer(r)
    BY <1>1 DEF Outer
  <2>2. Inner(r)' \in SUBSET (Inner(r) \cup {t})
    BY DEF Inner
  <2>3. Cardinality(Outer(r)') <= Cardinality(Outer(r))
    BY <2>1, PoolIsCounted, FS_Subset
  <2>4. Cardinality(Inner(r)') <= Cardinality(Inner(r)) + 1
    BY <2>2, PoolIsCounted, AtMostOneMore
  <2> QED
    BY <2>3, <2>4, PoolIsCounted, BoundsAssumption
<1>2. CASE t \in {r} \X Kinds => (HoldsInner(t)' => HoldsInner(t))
  <2>1. Inner(r)' \in SUBSET Inner(r)
    BY <1>2 DEF Inner
  <2>2. Outer(r)' \in SUBSET (Outer(r) \cup {t})
    BY DEF Outer
  <2>3. Cardinality(Inner(r)') <= Cardinality(Inner(r))
    BY <2>1, PoolIsCounted, FS_Subset
  <2>4. Cardinality(Outer(r)') <= Cardinality(Outer(r)) + 1
    BY <2>2, PoolIsCounted, AtMostOneMore
  <2> QED
    BY <2>3, <2>4, PoolIsCounted, BoundsAssumption
<1> QED
  BY <1>1, <1>2

\* Returning to the caller, going on or giving up takes no connection.
LEMMA MovesOn ==
  ASSUME LocalsOK, NEW t \in Tasks, pc[t] \in Transit, NEW f, NEW u \in Tasks,
         \/ Decide(t, f)
         \/ Return(t)
         \/ Abandon(t)
         \/ Goto(t, "dbread")
  PROVE  /\ HoldsOuter(u)' => HoldsOuter(u)
         /\ HoldsInner(u)' => HoldsInner(u)
<1>1. \E step \in Steps \ {"fill"} : pc' = [pc EXCEPT ![t] = step]
  BY DEF Decide, Return, Abandon, Goto, Steps
<1>2. HoldsInner(u)' => HoldsInner(u)
  BY <1>1 DEF HoldsInner, LocalsOK
<1>3. HoldsOuter(u)' => HoldsOuter(u)
  BY <1>1 DEF HoldsOuter, LocalsOK, Transit
<1> QED
  BY <1>2, <1>3

DrawsNone(r) ==
  \A u \in {r} \X Kinds : /\ HoldsOuter(u)' => HoldsOuter(u)
                          /\ HoldsInner(u)' => HoldsInner(u)

\* Only three steps take a connection and keep it, each of the replica of its task
\* and each when there is one (get_state, _process_*).
LEMMA WhoDraws ==
  ASSUME Typing, [Next]_vars, NEW r \in Replicas
  PROVE  \/ DrawsNone(r)
         \/ \E t \in {r} \X Kinds :
              /\ FreeConnection(t)
              /\ GetFromDatabase(t) \/ TakePending(t) \/ TakeStale(t)
<1>0. {r} \X Kinds \subseteq Tasks /\ pc \in [Tasks -> Steps]
  BY TasksAreFew DEF Typing, LocalsOK
<1>1. ASSUME UNCHANGED pc PROVE DrawsNone(r)
  BY <1>1 DEF DrawsNone, HoldsOuter, HoldsInner
<1>2. ASSUME NEW q \in Replicas, StartPass(q) \/ EndPass(q) \/ Crash(q) PROVE DrawsNone(r)
  BY <1>0, <1>2 DEF StartPass, EndPass, Crash, DrawsNone, HoldsOuter, HoldsInner
<1>3. ASSUME NEW t \in Tasks,
             \/ ListDocuments(t) \/ LeaveLoop(t) \/ RecordContradiction(t) \/ ApplyVerdict(t)
             \/ ExecuteTransition(t) \/ NotifyQdrant(t) \/ NotifyQdrantFails(t)
             \/ CallFails(t) \/ ListingFails(t) \/ \E d \in Docs : Submit(t, d)
      PROVE  DrawsNone(r)
  BY <1>0, <1>3 DEF CallFails, ListingFails, ListDocuments, LeaveLoop, RecordContradiction, ApplyVerdict,
                    ExecuteTransition, NotifyQdrant, NotifyQdrantFails, Submit, Abandon, Goto,
                    DrawsNone, HoldsOuter, HoldsInner
<1>4. ASSUME NEW t \in Tasks,
             GetCached(t) \/ FillCache(t) \/ InvalidateCache(t)
      PROVE  DrawsNone(r)
  <2>1. pc[t] \in Transit
    BY <1>4 DEF GetCached, FillCache, InvalidateCache, Transit
  <2>2. \/ \E f : Decide(t, f)
        \/ Return(t) \/ Abandon(t) \/ Goto(t, "dbread")
    BY <1>4 DEF GetCached, FillCache, InvalidateCache
  <2> QED
    BY <1>0, <2>1, <2>2, MovesOn DEF DrawsNone, Typing
<1>5. ASSUME NEW t \in Tasks, GetFromDatabase(t) \/ TakePending(t) \/ TakeStale(t)
      PROVE  \/ DrawsNone(r)
             \/ /\ t \in {r} \X Kinds
                /\ FreeConnection(t)
  <2>1. CASE t \in {r} \X Kinds
    BY <1>5, <2>1 DEF GetFromDatabase, TakePending, TakeStale
  <2>2. CASE t \notin {r} \X Kinds
    <3>1. \E step \in Steps : pc' = [pc EXCEPT ![t] = step]
      BY <1>5 DEF GetFromDatabase, TakePending, TakeStale, Goto, Steps
    <3>2. \A u \in {r} \X Kinds : pc'[u] = pc[u]
      BY <1>0, <2>2, <3>1
    <3> QED
      BY <3>2 DEF DrawsNone, HoldsOuter, HoldsInner
  <2> QED
    BY <2>1, <2>2
<1>6. ASSUME NEW d \in Docs, CacheExpires(d) \/ DaysPass(d) PROVE DrawsNone(r)
  BY <1>1, <1>6 DEF CacheExpires, DaysPass
<1> QED
  BY <1>1, <1>2, <1>3, <1>4, <1>5, <1>6 DEF Next, TaskStep, vars

LEMMA PoolStep ==
  ASSUME Typing, NotOverdrawn, [Next]_vars PROVE NotOverdrawn'
<1> SUFFICES ASSUME NEW r \in Replicas PROVE InUse(r)' <= PoolSize
  BY DEF NotOverdrawn
<1>0. /\ {r} \X Kinds \subseteq Tasks /\ pc \in [Tasks -> Steps]
      /\ InUse(r) <= PoolSize
  BY TasksAreFew DEF Typing, LocalsOK, NotOverdrawn
<1>1. CASE DrawsNone(r)
  <2>1. \A u \in {r} \X Kinds : /\ HoldsOuter(u)' => HoldsOuter(u)
                                /\ HoldsInner(u)' => HoldsInner(u)
    BY <1>1 DEF DrawsNone
  <2> QED
    BY <1>0, <2>1, NothingDrawn
<1>2. ASSUME NEW t \in {r} \X Kinds, FreeConnection(t),
             GetFromDatabase(t) \/ TakePending(t) \/ TakeStale(t)
      PROVE  InUse(r)' <= PoolSize
  <2>1. InUse(r) < PoolSize
    <3>1. t[1] = r
      OBVIOUS
    <3> QED
      BY <1>2, <3>1 DEF FreeConnection
  <2>2. \A u \in ({r} \X Kinds) \ {t} : pc'[u] = pc[u]
    BY <1>0, <1>2 DEF GetFromDatabase, TakePending, TakeStale, Goto
  <2>3. \/ HoldsOuter(t)' => HoldsOuter(t)
        \/ HoldsInner(t)' => HoldsInner(t)
    BY <1>0, <1>2 DEF GetFromDatabase, TakePending, TakeStale, Goto, HoldsOuter, HoldsInner
  <2>4. \A u \in ({r} \X Kinds) \ {t} : /\ HoldsOuter(u)' => HoldsOuter(u)
                                        /\ HoldsInner(u)' => HoldsInner(u)
    BY <2>2 DEF HoldsOuter, HoldsInner
  <2> QED
    BY <2>1, <2>3, <2>4, OneDrawn
<1> QED
  BY <1>1, <1>2, WhoDraws

LEMMA PoolHolds == Spec => []NotOverdrawn
<1>1. Init => NotOverdrawn
  <2> SUFFICES ASSUME Init, NEW r \in Replicas PROVE InUse(r) <= PoolSize
    BY DEF NotOverdrawn
  <2>1. Outer(r) = {} /\ Inner(r) = {}
    BY TasksAreFew DEF Init, Outer, Inner, HoldsOuter, HoldsInner
  <2> QED
    BY <2>1, PoolIsCounted, FS_EmptySet, BoundsAssumption
<1> QED
  BY <1>1, PoolStep, TypingHolds, PTL DEF Spec

\* With one connection more than the pass has tasks the nested acquisition of
\* get_state never closes a circle, for every number of documents and submissions,
\* failed calls and crashes: when no connection is left, one of the holders needs
\* none to go on and is about to give one back (get_state, _run_state_machine_pass).
THEOREM PoolNeverLocks ==
  ASSUME PoolSize > Cardinality(PassTasks) PROVE Spec => []NoCircularWait
<1>1. NotOverdrawn => NoCircularWait
  <2> SUFFICES ASSUME NotOverdrawn, NEW r \in Replicas, ~(InUse(r) < PoolSize)
               PROVE  \E t \in {r} \X Kinds : pc[t] = "fill"
    BY DEF NoCircularWait
  <2>1. Outer(r) \in SUBSET ({r} \X PassTasks)
    <3> SUFFICES ASSUME NEW t \in Outer(r) PROVE t \in {r} \X PassTasks
      OBVIOUS
    <3>1. PICK k \in Kinds : t = <<r, k>> /\ HoldsOuter(t)
      BY DEF Outer
    <3>2. k \in PassTasks
      BY <3>1 DEF HoldsOuter, Kinds
    <3> QED
      BY <3>1, <3>2
  <2>2. Cardinality(Outer(r)) <= Cardinality(PassTasks)
    <3>1. /\ IsFiniteSet({r} \X PassTasks)
          /\ Cardinality({r} \X PassTasks) = Cardinality(PassTasks)
      BY TasksAreFew
    <3>2. Cardinality(Outer(r)) <= Cardinality({r} \X PassTasks)
      BY <2>1, <3>1, FS_Subset
    <3> QED
      BY <3>1, <3>2
  <2>3. Cardinality(Inner(r)) # 0
    BY <2>2, PoolIsCounted, TasksAreFew, BoundsAssumption
  <2>4. Inner(r) # {}
    BY <2>3, FS_EmptySet
  <2> QED
    BY <2>4 DEF Inner, HoldsInner
<1> QED
  BY <1>1, PoolHolds, PTL

=============================================================================
