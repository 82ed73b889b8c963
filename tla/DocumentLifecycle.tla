------------------------ MODULE DocumentLifecycle ------------------------
(***************************************************************************)
(* The RAG memory lifecycle: atlas/rag/state_machine.py driven by the      *)
(* nightly pass of atlas/rag/agent_zero/state_manager.py.                  *)
(*                                                                         *)
(* PostgreSQL (signal_history.document_state) holds the state of every     *)
(* document; Redis holds a read-through copy of it.  transition() reads    *)
(* the current state through that copy, validates the move against what    *)
(* it read, writes PostgreSQL unconditionally and then deletes the copy.   *)
(* Every await between those steps is a step of its own here, so that the  *)
(* three tasks of a pass, several replicas and outside callers interleave. *)
(***************************************************************************)
EXTENDS Naturals, FiniteSets

CONSTANTS
  Docs,            \* signal ids; every one has its row in signal_history
  Bullish,         \* the documents whose decision is a Buy; the others Sell
  Replicas,        \* processes that may run the nightly pass
  Threshold,       \* CONTRADICTION_THRESHOLD
  PoolSize,        \* connections of the asyncpg pool each replica owns
  MaxFaults,       \* bound: calls of PostgreSQL or Redis that fail, and crashes
  MaxPayloadFaults \* bound: Qdrant set_payload calls that fail

ASSUME BullishAssumption == Bullish \subseteq Docs
ASSUME ThresholdAssumption == Threshold \in Nat \ {0}
ASSUME BoundsAssumption ==
  /\ PoolSize \in Nat \ {0}
  /\ MaxFaults \in Nat
  /\ MaxPayloadFaults \in Nat

VARIABLES
  state,           \* PostgreSQL: document_state
  loggedFrom,      \* PostgreSQL: from_state of the newest state_transition_log row
  contradictions,  \* PostgreSQL: contradiction_count, saturated at Threshold
  overdue,         \* state_changed_at is older than the TTL of the state
  cache,           \* Redis: rag:doc_state:<id>
  archivedPayload, \* Qdrant: the documents whose payload says archived
  onceVerified,    \* the documents whose Qdrant payload may say "verified"
  pc,              \* where each task is
  queue,           \* documents the task has listed and not yet taken
  doc,             \* the document the task is processing
  verdict,         \* the state the task wants to give to doc
  opposites,       \* contradicted documents still to be recorded
  target,          \* argument document_id of the transition() in progress
  goal,            \* argument to_state of the transition() in progress
  from,            \* local from_state of the transition() in progress
  faults, payloadFaults

store  == <<state, loggedFrom, contradictions, overdue, archivedPayload,
            onceVerified>>
locals == <<queue, doc, verdict, opposites, target, goal, from>>
budget == <<faults, payloadFaults>>
vars   == <<store, cache, pc, locals, budget>>

-----------------------------------------------------------------------------
States == {"raw", "pending_verification", "verified", "flagged_review",
           "soft_deleted", "archived"}

NoEntry == "none"

\* _validate_transition
Successors(s) ==
  CASE s = "raw"                  -> {"pending_verification"}
    [] s = "pending_verification" -> {"verified", "flagged_review", "soft_deleted"}
    [] s = "verified"             -> {"pending_verification", "archived", "soft_deleted"}
    [] s = "flagged_review"       -> {"soft_deleted"}
    [] s = "soft_deleted"         -> {"archived"}
    [] OTHER                      -> {}

\* The three tasks of _run_state_machine_pass, and a caller of transition()
\* outside the pass: the only move it asks for is raw -> pending_verification.
PassTasks == {"pending", "expire", "age"}
Kinds     == PassTasks \cup {"submit"}
Tasks     == Replicas \X Kinds
PassOf(r) == {<<r, k>> : k \in PassTasks}

Steps == {"idle", "list", "next", "contradict", "read", "dbread", "fill",
          "commit", "invalidate", "payload", "done"}

Opposed(d, e) == (d \in Bullish) # (e \in Bullish)

\* _process_*: every pass task keeps one pooled connection for the document it
\* is working on; get_state keeps one while it writes the cache.
HoldsOuter(t) == /\ t[2] # "submit"
                 /\ pc[t] \notin {"idle", "list", "next", "done"}

\* Mutation: the nested connection is kept until the transition is written.
HoldsInner_UntilWritten(t) == pc[t] \in {"fill", "commit"}

HoldsInner(t) == pc[t] = "fill"
InUse(r) ==
  Cardinality({t \in {r} \X Kinds : HoldsOuter(t)})
    + Cardinality({t \in {r} \X Kinds : HoldsInner(t)})
FreeConnection(t) == InUse(t[1]) < PoolSize

TypeOK ==
  /\ state \in [Docs -> States]
  /\ loggedFrom \in [Docs -> States \cup {NoEntry}]
  /\ contradictions \in [Docs -> 0..Threshold]
  /\ overdue \in [Docs -> BOOLEAN]
  /\ archivedPayload \subseteq Docs
  /\ onceVerified \subseteq Docs
  /\ cache \in [Docs -> States \cup {NoEntry}]
  /\ pc \in [Tasks -> Steps]
  /\ queue \in [Tasks -> SUBSET Docs]
  /\ opposites \in [Tasks -> SUBSET Docs]
  /\ doc \in [Tasks -> Docs \cup {NoEntry}]
  /\ target \in [Tasks -> Docs \cup {NoEntry}]
  /\ verdict \in [Tasks -> States \cup {NoEntry}]
  /\ goal \in [Tasks -> States \cup {NoEntry}]
  /\ from \in [Tasks -> States \cup {NoEntry}]
  /\ faults \in 0..MaxFaults
  /\ payloadFaults \in 0..MaxPayloadFaults

-----------------------------------------------------------------------------
Init ==
  /\ state \in [Docs -> States]
  /\ loggedFrom = [d \in Docs |-> NoEntry]
  /\ contradictions \in [Docs -> 0..Threshold]
  /\ overdue = [d \in Docs |-> FALSE]
  /\ archivedPayload = {d \in Docs : state[d] = "archived"}
  /\ onceVerified \in SUBSET {d \in Docs : state[d] # "raw"}
  /\ {d \in Docs : state[d] = "verified"} \subseteq onceVerified
  /\ cache = [d \in Docs |-> NoEntry]
  /\ pc = [t \in Tasks |-> "idle"]
  /\ queue = [t \in Tasks |-> {}]
  /\ opposites = [t \in Tasks |-> {}]
  /\ doc = [t \in Tasks |-> NoEntry]
  /\ target = [t \in Tasks |-> NoEntry]
  /\ verdict = [t \in Tasks |-> NoEntry]
  /\ goal = [t \in Tasks |-> NoEntry]
  /\ from = [t \in Tasks |-> NoEntry]
  /\ faults = 0 /\ payloadFaults = 0

\* Every local a task holds for one document is dropped when it leaves it.
Forget(t) ==
  /\ doc' = [doc EXCEPT ![t] = NoEntry]
  /\ target' = [target EXCEPT ![t] = NoEntry]
  /\ verdict' = [verdict EXCEPT ![t] = NoEntry]
  /\ goal' = [goal EXCEPT ![t] = NoEntry]
  /\ from' = [from EXCEPT ![t] = NoEntry]
  /\ opposites' = [opposites EXCEPT ![t] = {}]

Goto(t, step) == pc' = [pc EXCEPT ![t] = step]

\* The except clause around each document: log, count the error, go on.
Abandon(t) == Goto(t, "next") /\ Forget(t) /\ UNCHANGED queue

\* transition() has returned to its caller.
Return(t) ==
  \/ /\ target[t] # doc[t]                       \* to record_contradiction
     /\ Goto(t, "contradict")
     /\ from' = [from EXCEPT ![t] = NoEntry]
     /\ UNCHANGED <<queue, doc, verdict, opposites, target, goal>>
  \/ /\ target[t] = doc[t] /\ t[2] = "age"
     /\ Goto(t, "payload")
     /\ UNCHANGED locals
  \/ /\ target[t] = doc[t] /\ t[2] # "age"
     /\ Abandon(t)

\* transition() once get_state has answered f: nothing to do, refused, or go on.
Decide(t, f) ==
  \/ /\ f = goal[t]
     /\ Return(t)
  \/ /\ f # goal[t] /\ goal[t] \notin Successors(f)
     /\ Abandon(t)
  \/ /\ f # goal[t] /\ goal[t] \in Successors(f)
     /\ Goto(t, "commit")
     /\ from' = [from EXCEPT ![t] = f]
     /\ UNCHANGED <<queue, doc, verdict, opposites, target, goal>>

-----------------------------------------------------------------------------
(* The pass *)

\* _run_state_machine_pass creates its three tasks and gathers them.
StartPass(r) ==
  /\ \A t \in PassOf(r) : pc[t] = "idle"
  /\ pc' = [t \in Tasks |-> IF t \in PassOf(r) THEN "list" ELSE pc[t]]
  /\ UNCHANGED <<store, cache, locals, budget>>

EndPass(r) ==
  /\ \A t \in PassOf(r) : pc[t] = "done"
  /\ pc' = [t \in Tasks |-> IF t \in PassOf(r) THEN "idle" ELSE pc[t]]
  /\ UNCHANGED <<store, cache, locals, budget>>

\* Mutation: the aging query selects the state the expiry query selects.
Listed_AgesFlagged(k) ==
  {d \in Docs : IF k = "pending" THEN state[d] = "pending_verification"
                                 ELSE state[d] = "flagged_review" /\ overdue[d]}

\* get_documents_pending_verification, get_flagged_documents_for_expiry and
\* get_documents_due_for_aging
Listed(k) ==
  CASE k = "pending" -> {d \in Docs : state[d] = "pending_verification"}
    [] k = "expire"  -> {d \in Docs : state[d] = "flagged_review" /\ overdue[d]}
    [] k = "age"     -> {d \in Docs : state[d] = "soft_deleted" /\ overdue[d]}

ListDocuments(t) ==
  /\ pc[t] = "list"
  /\ FreeConnection(t)
  /\ queue' = [queue EXCEPT ![t] = Listed(t[2])]
  /\ Goto(t, "next")
  /\ UNCHANGED <<store, cache, doc, verdict, opposites, target, goal, from, budget>>

LeaveLoop(t) ==
  /\ pc[t] = "next" /\ queue[t] = {}
  /\ Goto(t, IF t[2] = "submit" THEN "idle" ELSE "done")
  /\ UNCHANGED <<store, cache, locals, budget>>

\* The verdicts verify() can give, by the state the pass maps them to.
Verdicts == {"verified", "flagged_review", "soft_deleted"}

\* _process_single_pending_doc up to the scan for opposite signals.  Only a CLEAN
\* document is compared; the scan reads payloads, not signal_history.
TakePending(t) ==
  /\ pc[t] = "next" /\ t[2] = "pending"
  /\ FreeConnection(t)
  /\ \E d \in queue[t], v \in Verdicts :
       \E found \in SUBSET {e \in onceVerified : Opposed(d, e)} :
         /\ v # "verified" => found = {}
         /\ queue' = [queue EXCEPT ![t] = @ \ {d}]
         /\ doc' = [doc EXCEPT ![t] = d]
         /\ verdict' = [verdict EXCEPT ![t] = v]
         /\ opposites' = [opposites EXCEPT ![t] = found]
  /\ Goto(t, "contradict")
  /\ UNCHANGED <<store, cache, target, goal, from, budget>>

\* record_contradiction: one transaction, then a transition at the threshold.
RecordContradiction(t) ==
  /\ pc[t] = "contradict"
  /\ FreeConnection(t)
  /\ \E e \in opposites[t] :
       LET reached == contradictions[e] + 1 >= Threshold IN
       /\ contradictions' = [contradictions EXCEPT ![e] =
                               IF reached THEN Threshold ELSE @ + 1]
       /\ opposites' = [opposites EXCEPT ![t] = @ \ {e}]
       /\ target' = [target EXCEPT ![t] = e]
       /\ goal' = [goal EXCEPT ![t] = "pending_verification"]
       /\ Goto(t, IF reached THEN "read" ELSE "contradict")
  /\ UNCHANGED <<state, loggedFrom, overdue, archivedPayload, onceVerified,
                 cache, queue, doc, verdict, from, budget>>

\* The penalty is written, then the verdict is asked for.
ApplyVerdict(t) ==
  /\ pc[t] = "contradict" /\ opposites[t] = {}
  /\ target' = [target EXCEPT ![t] = doc[t]]
  /\ goal' = [goal EXCEPT ![t] = verdict[t]]
  /\ Goto(t, "read")
  /\ UNCHANGED <<store, cache, queue, doc, verdict, opposites, from, budget>>

\* _expire_flagged_documents and _age_soft_deleted_documents
TakeStale(t) ==
  /\ pc[t] = "next" /\ t[2] \in {"expire", "age"}
  /\ FreeConnection(t)
  /\ \E d \in queue[t] :
       /\ queue' = [queue EXCEPT ![t] = @ \ {d}]
       /\ doc' = [doc EXCEPT ![t] = d]
       /\ target' = [target EXCEPT ![t] = d]
  /\ goal' = [goal EXCEPT ![t] = IF t[2] = "age" THEN "archived" ELSE "soft_deleted"]
  /\ Goto(t, "read")
  /\ UNCHANGED <<store, cache, verdict, opposites, from, budget>>

\* set_payload({"archived": True}); a failure is only counted.
NotifyQdrant(t) ==
  /\ pc[t] = "payload"
  /\ archivedPayload' = archivedPayload \cup {doc[t]}
  /\ Abandon(t)
  /\ UNCHANGED <<state, loggedFrom, contradictions, overdue, onceVerified, cache, budget>>

NotifyQdrantFails(t) ==
  /\ pc[t] = "payload" /\ payloadFaults < MaxPayloadFaults
  /\ payloadFaults' = payloadFaults + 1
  /\ Abandon(t)
  /\ UNCHANGED <<store, cache, faults>>

\* A caller of transition(d, PENDING_VERIFICATION) outside the pass.
Submit(t, d) ==
  /\ pc[t] = "idle" /\ t[2] = "submit"
  /\ state[d] = "raw"
  /\ doc' = [doc EXCEPT ![t] = d]
  /\ target' = [target EXCEPT ![t] = d]
  /\ goal' = [goal EXCEPT ![t] = "pending_verification"]
  /\ Goto(t, "read")
  /\ UNCHANGED <<store, cache, queue, verdict, opposites, from, budget>>

-----------------------------------------------------------------------------
(* transition() *)

\* get_state, first await: the cached state if there is one.
GetCached(t) ==
  /\ pc[t] = "read"
  /\ \/ cache[target[t]] # NoEntry /\ Decide(t, cache[target[t]])
     \/ cache[target[t]] = NoEntry /\ Goto(t, "dbread") /\ UNCHANGED locals
  /\ UNCHANGED <<store, cache, budget>>

\* get_state, on a miss: read PostgreSQL ...
GetFromDatabase(t) ==
  /\ pc[t] = "dbread"
  /\ FreeConnection(t)
  /\ from' = [from EXCEPT ![t] = state[target[t]]]
  /\ Goto(t, "fill")
  /\ UNCHANGED <<store, cache, queue, doc, verdict, opposites, target, goal, budget>>

\* ... and copy what was read into the cache.
FillCache(t) ==
  /\ pc[t] = "fill"
  /\ cache' = [cache EXCEPT ![target[t]] = from[t]]
  /\ Decide(t, from[t])
  /\ UNCHANGED <<store, budget>>

\* Mutation: document_id and to_state are passed in the wrong order.
Written_Swapped(t) == target[t]

\* The value the UPDATE stores.
Written(t) == goal[t]

\* _execute_transition: the UPDATE and the log row in one transaction.  The
\* UPDATE does not mention the state that was validated.
ExecuteTransition(t) ==
  /\ pc[t] = "commit"
  /\ FreeConnection(t)
  /\ state' = [state EXCEPT ![target[t]] = Written(t)]
  /\ overdue' = [overdue EXCEPT ![target[t]] = FALSE]
  /\ loggedFrom' = [loggedFrom EXCEPT ![target[t]] = from[t]]
  /\ onceVerified' = IF goal[t] = "verified" THEN onceVerified \cup {target[t]}
                                            ELSE onceVerified
  /\ Goto(t, "invalidate")
  /\ UNCHANGED <<contradictions, archivedPayload, cache, locals, budget>>

\* Mutation: the DELETE of the cached state is forgotten.
InvalidateCache_Forgotten(t) ==
  /\ pc[t] = "invalidate"
  /\ Return(t)
  /\ UNCHANGED <<store, cache, budget>>

InvalidateCache(t) ==
  /\ pc[t] = "invalidate"
  /\ cache' = [cache EXCEPT ![target[t]] = NoEntry]
  /\ Return(t)
  /\ UNCHANGED <<store, budget>>

\* A Redis call raises, or a statement fails or takes more than its five seconds
\* and is rolled back: the exception gives the document up.  A COMMIT whose answer
\* is lost is a failure after ExecuteTransition.
CallFails(t) ==
  /\ pc[t] \in {"contradict", "read", "dbread", "fill", "commit", "invalidate"}
  /\ faults < MaxFaults
  /\ faults' = faults + 1
  /\ Abandon(t)
  /\ UNCHANGED <<store, cache, payloadFaults>>

\* The listing is outside the try: its exception ends the task and the gather,
\* while the other tasks go on.
ListingFails(t) ==
  /\ pc[t] = "list"
  /\ faults < MaxFaults
  /\ faults' = faults + 1
  /\ Goto(t, "done")
  /\ UNCHANGED <<store, cache, locals, payloadFaults>>

-----------------------------------------------------------------------------
(* Time and crashes *)

\* setex(..., 3600, ...)
CacheExpires(d) ==
  /\ cache[d] # NoEntry
  /\ cache' = [cache EXCEPT ![d] = NoEntry]
  /\ UNCHANGED <<store, pc, locals, budget>>

\* FLAGGED_REVIEW_TTL_DAYS or SOFT_DELETE_AGING_DAYS go by.  No call lasts days,
\* and no cached copy survives them.
DaysPass(d) ==
  /\ \A t \in Tasks : pc[t] = "idle"
  /\ state[d] \in {"flagged_review", "soft_deleted"} /\ ~overdue[d]
  /\ overdue' = [overdue EXCEPT ![d] = TRUE]
  /\ cache' = [e \in Docs |-> NoEntry]
  /\ UNCHANGED <<state, loggedFrom, contradictions, archivedPayload, onceVerified,
                 pc, locals, budget>>

\* The process dies; PostgreSQL rolls back what was not committed, Redis stays.
Crash(r) ==
  /\ faults < MaxFaults
  /\ faults' = faults + 1
  /\ \E t \in {r} \X Kinds : pc[t] # "idle"
  /\ LET drop(f, v) == [t \in Tasks |-> IF t[1] = r THEN v ELSE f[t]] IN
       /\ pc' = drop(pc, "idle")
       /\ queue' = drop(queue, {})
       /\ opposites' = drop(opposites, {})
       /\ doc' = drop(doc, NoEntry)
       /\ target' = drop(target, NoEntry)
       /\ verdict' = drop(verdict, NoEntry)
       /\ goal' = drop(goal, NoEntry)
       /\ from' = drop(from, NoEntry)
  /\ UNCHANGED <<store, cache, payloadFaults>>

-----------------------------------------------------------------------------
TaskStep(t) ==
  \/ ListDocuments(t)
  \/ LeaveLoop(t)
  \/ TakePending(t)
  \/ RecordContradiction(t)
  \/ ApplyVerdict(t)
  \/ TakeStale(t)
  \/ NotifyQdrant(t)
  \/ GetCached(t)
  \/ GetFromDatabase(t)
  \/ FillCache(t)
  \/ ExecuteTransition(t)
  \/ InvalidateCache(t)

Next ==
  \/ \E r \in Replicas : StartPass(r) \/ EndPass(r) \/ Crash(r)
  \/ \E t \in Tasks : TaskStep(t) \/ CallFails(t) \/ ListingFails(t) \/ NotifyQdrantFails(t)
  \/ \E t \in Tasks, d \in Docs : Submit(t, d)
  \/ \E d \in Docs : CacheExpires(d) \/ DaysPass(d)

Spec == Init /\ [][Next]_vars

\* A coroutine that can run does run, the nightly scheduler fires every night
\* and time passes.  Nobody is obliged to submit a document.
Fairness ==
  /\ \A t \in Tasks : WF_vars(TaskStep(t))
  /\ \A r \in Replicas : WF_vars(StartPass(r)) /\ WF_vars(EndPass(r))
  /\ \A d \in Docs : SF_vars(DaysPass(d))

FairSpec == Spec /\ Fairness

-----------------------------------------------------------------------------
(* Properties *)

\* Whatever a caller validated, the row moves only along _validate_transition:
\* nothing comes back from soft_deleted or archived, and the one way back is
\* verified -> pending_verification (_validate_transition).
LegalMoves ==
  [][\A d \in Docs : state'[d] # state[d] => state'[d] \in Successors(state[d])]_vars

\* While no call has failed, the state_transition_log row written with an
\* UPDATE names the state the row really left, so the log replays to the table
\* (_log_transition).
LogIsFaithful ==
  [][faults' = 0 =>
       \A d \in Docs : state'[d] # state[d] => loggedFrom'[d] = state[d]]_vars

\* The newest log row of a document is, taken alone, always a legal edge: an
\* illegal move cannot be seen in any single row (_execute_transition).
LogLooksLegal ==
  \A d \in Docs : loggedFrom[d] # NoEntry => state[d] \in Successors(loggedFrom[d])

\* get_state has answered with the very state asked for: transition() returns
\* without writing.
NothingToDo(t) ==
  \/ pc[t] = "read" /\ cache[target[t]] = goal[t]
  \/ pc[t] = "fill" /\ from[t] = goal[t]

\* While no call has failed, a transition() that returns without writing, whoever
\* called it, leaves the document where it was asked to put it: no verdict, expiry,
\* aging, submission or contradiction is swallowed by a stale copy (transition).
SilentReturnIsTrue ==
  [][\A t \in Tasks :
       faults' = 0 /\ NothingToDo(t) /\ pc'[t] # pc[t] => state[target[t]] = goal[t]]_vars

\* A pass always ends: its tasks, which hold one pooled connection and ask for a
\* second, never wait on one another for ever (_run_state_machine_pass).
PassEnds ==
  \A r \in Replicas : (\E t \in PassOf(r) : pc[t] # "idle")
                        ~> (\A t \in PassOf(r) : pc[t] = "idle")

\* A rejected document leaves the memory for good: flagged_review and
\* soft_deleted lead to archived (SOFT_DELETE_AGING_DAYS).
RejectedIsArchived ==
  \A d \in Docs : state[d] \in {"flagged_review", "soft_deleted"} ~> state[d] = "archived"

\* "archived ... and notifies Qdrant": an archived document is flagged so in the
\* index (_age_soft_deleted_documents).
ArchivedIsNotified ==
  \A d \in Docs : state[d] = "archived" ~> d \in archivedPayload

=============================================================================
