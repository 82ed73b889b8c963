--------------------------- MODULE AnalysisEngine ---------------------------
(***************************************************************************)
(* Starting and stopping the autonomous analysis engine over HTTP, and the *)
(* HYDRA listener every engine brings: a consumer of one Redis stream      *)
(* group that keeps the newest cascade in memory, where the risk agent     *)
(* looks for a tier-4 veto.  Requests are coroutines of one event loop, so *)
(* the atomic steps are the stretches between their awaits.                *)
(***************************************************************************)
EXTENDS Integers, Sequences, FiniteSets

CONSTANTS
  Starts,        \* requests to start; the engine a request builds bears its name
  Stops,         \* requests to stop
  None,          \* no engine
  Tiers,         \* what HYDRA may append: the tier of a cascade, 0 if unreadable
  MaxEntries,    \* bound: entries appended to the stream
  MaxFaults      \* bound: restarts, failing calls and lost answers

ASSUME EngineAssumption ==
  /\ None \notin Starts /\ Tiers \subseteq 0..4
  /\ MaxEntries \in Nat /\ MaxFaults \in Nat

VARIABLES
  slot,       \* app.state.autonomous_runner
  start,      \* start request -> where it is, or its answer
  stop,       \* stop request -> where it is, or its answer, and its engine
  engine,     \* engine -> "none", "live", "closing" (the loop has ended), "closed"
  listener,   \* engine -> "off", "reading", "read" or "acking"
  held,       \* engine -> the entries its XREADGROUP was given
  buffer,     \* engine -> number of the newest cascade in _buffer, 0 if none
  stream,     \* the entries of atlas:stream:hydra:cascades
  origin,     \* length of the stream when the group was made, -1 before
  cursor,     \* last entry given to a consumer of the group
  pel,        \* the group's pending entries
  faults,
  raced       \* history: two requests have overlapped

requests == <<slot, start, stop, raced>>
redis == <<stream, origin, cursor, pel>>
engines == <<engine, listener, held, buffer>>
vars == <<requests, engines, redis, faults>>

Entries == 1..MaxEntries

TypeOK ==
  /\ slot \in Starts \cup {None}
  /\ start \in [Starts -> {"new", "building", "grouping", "started",
                           "already_running", "error", "dropped"}]
  /\ stop \in [Stops -> [at : {"new", "loop", "listener", "tail", "stopped",
                               "failed", "error", "dropped"},
                         of : Starts \cup {None}]]
  /\ engine \in [Starts -> {"none", "live", "closing", "closed"}]
  /\ listener \in [Starts -> {"off", "reading", "read", "acking"}]
  /\ held \in [Starts -> SUBSET Entries]
  /\ buffer \in [Starts -> 0..MaxEntries]
  /\ stream \in Seq(Tiers) /\ Len(stream) <= MaxEntries
  /\ origin \in -1..MaxEntries /\ cursor \in 0..MaxEntries
  /\ pel \subseteq Entries
  /\ faults \in 0..MaxFaults /\ raced \in BOOLEAN

Init ==
  /\ slot = None /\ raced = FALSE /\ faults = 0
  /\ start = [s \in Starts |-> "new"]
  /\ stop = [t \in Stops |-> [at |-> "new", of |-> None]]
  /\ engine = [s \in Starts |-> "none"] /\ listener = [s \in Starts |-> "off"]
  /\ held = [s \in Starts |-> {}] /\ buffer = [s \in Starts |-> 0]
  /\ stream = <<>> /\ origin = -1 /\ cursor = 0 /\ pel = {}

StartBusy(s) == start[s] \in {"building", "grouping"}
StopBusy(t) == stop[t].at \in {"loop", "listener", "tail"}
Busy == (\E s \in Starts : StartBusy(s)) \/ (\E t \in Stops : StopBusy(t))

Fault == faults < MaxFaults /\ faults' = faults + 1

-----------------------------------------------------------------------------
(* Starting.                                                               *)

SetStart(s, at) == start' = [start EXCEPT ![s] = at]

\* The slot is looked at before the first await, and not again.
AskStart(s) ==
  /\ start[s] = "new"
  /\ SetStart(s, IF slot = None THEN "building" ELSE "already_running")
  /\ raced' = (raced \/ (slot = None /\ Busy))
  /\ UNCHANGED <<slot, stop, engines, redis, faults>>

\* The retrieval engine is there, or is not; the engine is made and primed, and
\* its listener asks for the group.
Build(s) ==
  /\ start[s] = "building"
  /\ SetStart(s, "grouping")
  /\ UNCHANGED <<slot, stop, raced, engines, redis, faults>>

\* Mutant: the group begins after an entry that is not there.
MakeGroup_Beyond ==
  /\ origin' = IF origin = -1 THEN Len(stream) + 1 ELSE origin
  /\ cursor' = IF origin = -1 THEN Len(stream) + 1 ELSE cursor
  /\ UNCHANGED <<stream, pel>>

\* XGROUP CREATE ... $; a group that exists is left as it is.
MakeGroup ==
  /\ origin' = IF origin = -1 THEN Len(stream) ELSE origin
  /\ cursor' = IF origin = -1 THEN Len(stream) ELSE cursor
  /\ UNCHANGED <<stream, pel>>

\* Mutant: the engine runs and is not put in the slot.
Run_Untracked(s) ==
  /\ start[s] = "grouping" /\ MakeGroup /\ SetStart(s, "started")
  /\ engine' = [engine EXCEPT ![s] = "live"]
  /\ listener' = [listener EXCEPT ![s] = "reading"]
  /\ slot' = slot
  /\ UNCHANGED <<stop, raced, held, buffer, faults>>

Run(s) ==
  /\ start[s] = "grouping" /\ MakeGroup /\ SetStart(s, "started")
  /\ engine' = [engine EXCEPT ![s] = "live"]
  /\ listener' = [listener EXCEPT ![s] = "reading"]
  /\ slot' = s
  /\ UNCHANGED <<stop, raced, held, buffer, faults>>

\* XGROUP fails, with or without having made the group: nothing runs.
StartFails(s) ==
  /\ start[s] = "grouping" /\ Fault /\ SetStart(s, "error")
  /\ MakeGroup \/ UNCHANGED redis
  /\ UNCHANGED <<slot, stop, raced, engines>>

-----------------------------------------------------------------------------
(* Stopping: AutonomousRAGAnalysisRunner.close and the slot.               *)

SetStop(t, at) == stop' = [stop EXCEPT ![t].at = at]

\* Nothing in the slot: answered at once.  Else the loop is cancelled.
AskStop(t) ==
  /\ stop[t].at = "new"
  /\ stop' = [stop EXCEPT ![t] =
       [at |-> IF slot = None THEN "stopped" ELSE "loop", of |-> slot]]
  /\ raced' = (raced \/ Busy)
  /\ UNCHANGED <<slot, start, engines, redis, faults>>

LoopEnds(t) ==
  /\ stop[t].at = "loop" /\ SetStop(t, "listener")
  /\ engine' = [engine EXCEPT ![stop[t].of] = IF @ = "live" THEN "closing" ELSE @]
  /\ UNCHANGED <<slot, start, raced, listener, held, buffer, redis, faults>>

\* The listener is cancelled wherever it waits: what it was given is dropped.
ListenerEnds(t) ==
  LET e == stop[t].of IN
  /\ stop[t].at = "listener" /\ SetStop(t, "tail")
  /\ engine' = [engine EXCEPT ![e] = "closed"]
  /\ listener' = [listener EXCEPT ![e] = "off"]
  /\ held' = [held EXCEPT ![e] = {}]
  /\ UNCHANGED <<slot, start, raced, buffer, redis, faults>>

\* The clients are closed: the slot is emptied, whatever is in it by now.
EmptySlot(t) ==
  /\ stop[t].at = "tail" /\ SetStop(t, "stopped")
  /\ slot' = None
  /\ UNCHANGED <<start, raced, engines, redis, faults>>

\* Two stops await one listener: the second finds None where it was.
SecondStopFails(t) ==
  /\ stop[t].at = "listener" /\ engine[stop[t].of] = "closed"
  /\ SetStop(t, "error")
  /\ UNCHANGED <<slot, start, raced, engines, redis, faults>>

\* Closing a client raises: the slot keeps an engine that has ended.
StopFails(t) ==
  /\ stop[t].at = "tail" /\ Fault /\ SetStop(t, "failed")
  /\ UNCHANGED <<slot, start, raced, engines, redis>>

\* The process ends: engines and requests in flight with it.
Restart ==
  /\ Fault
  /\ slot' = None
  /\ start' = [s \in Starts |-> IF StartBusy(s) THEN "dropped" ELSE start[s]]
  /\ stop' = [t \in Stops |-> IF StopBusy(t) THEN [stop[t] EXCEPT !.at = "dropped"]
                              ELSE stop[t]]
  /\ engine' = [s \in Starts |-> IF engine[s] = "none" THEN "none" ELSE "closed"]
  /\ listener' = [s \in Starts |-> "off"] /\ held' = [s \in Starts |-> {}]
  /\ UNCHANGED <<raced, buffer, redis>>

-----------------------------------------------------------------------------
(* The listeners.                                                          *)

Cascade(x) ==
  /\ Len(stream) < MaxEntries /\ stream' = Append(stream, x)
  /\ UNCHANGED <<requests, engines, origin, cursor, pel, faults>>

Listen(e, at) == listener' = [listener EXCEPT ![e] = at]

\* XREADGROUP ... >: whatever no consumer was given yet.
Read(e) ==
  /\ listener[e] = "reading" /\ cursor < Len(stream)
  /\ Listen(e, "read")
  /\ held' = [held EXCEPT ![e] = (cursor + 1)..Len(stream)]
  /\ cursor' = Len(stream) /\ pel' = pel \cup (cursor + 1)..Len(stream)
  /\ UNCHANGED <<requests, engine, buffer, stream, origin, faults>>

\* Redis gives the entries and the answer is lost: consume returns nothing.
ReadLost(e) ==
  /\ listener[e] = "reading" /\ cursor < Len(stream) /\ Fault
  /\ cursor' = Len(stream) /\ pel' = pel \cup (cursor + 1)..Len(stream)
  /\ UNCHANGED <<requests, engines, stream, origin>>

\* Every entry that decodes replaces the buffered one; then the XACK is sent.
Newest(e) == {i \in held[e] : stream[i] # 0}

\* Mutant: the oldest cascade of a batch wins.
Process_Oldest(e) ==
  /\ listener[e] = "read" /\ Listen(e, "acking")
  /\ buffer' = [buffer EXCEPT ![e] = IF Newest(e) = {} THEN @
       ELSE CHOOSE i \in Newest(e) : \A j \in Newest(e) : i <= j]
  /\ UNCHANGED <<requests, engine, held, redis, faults>>

Process(e) ==
  /\ listener[e] = "read" /\ Listen(e, "acking")
  /\ buffer' = [buffer EXCEPT ![e] = IF Newest(e) = {} THEN @
       ELSE CHOOSE i \in Newest(e) : \A j \in Newest(e) : i >= j]
  /\ UNCHANGED <<requests, engine, held, redis, faults>>

Ack(e) ==
  /\ listener[e] = "acking" /\ Listen(e, "reading")
  /\ held' = [held EXCEPT ![e] = {}]
  /\ pel' = pel \ held[e]
  /\ UNCHANGED <<requests, engine, buffer, stream, origin, cursor, faults>>

\* An XACK that fails is logged: the entries stay pending and are not read again.
AckFails(e) ==
  /\ listener[e] = "acking" /\ Fault /\ Listen(e, "reading")
  /\ held' = [held EXCEPT ![e] = {}]
  /\ UNCHANGED <<requests, engine, buffer, redis>>

-----------------------------------------------------------------------------
StartStep(s) == AskStart(s) \/ Build(s) \/ Run(s) \/ StartFails(s)
StopStep(t) ==
  \/ AskStop(t) \/ LoopEnds(t) \/ ListenerEnds(t) \/ EmptySlot(t)
  \/ SecondStopFails(t) \/ StopFails(t)
ListenerStep(e) == Read(e) \/ ReadLost(e) \/ Process(e) \/ Ack(e) \/ AckFails(e)

Next ==
  \/ \E s \in Starts : StartStep(s) \/ ListenerStep(s)
  \/ \E t \in Stops : StopStep(t)
  \/ \E x \in Tiers : Cascade(x)
  \/ Restart

Spec == Init /\ [][Next]_vars

-----------------------------------------------------------------------------
(* Properties.                                                             *)

Live == {e \in Starts : engine[e] = "live"}

\* What the routes' docstring promises: starting is idempotent, so that one
\* engine runs however the requests come.
OneEngine == Cardinality(Live) <= 1

\* Engines that run outside the slot, where no request and no shutdown can end
\* them, come only from requests that overlapped.
OrphansNeedOverlap == \A e \in Live : slot # e => raced

\* An engine that has been alone since the group was made has heard every
\* cascade that is acknowledged: the veto of its risk agent rests on the newest.
SoleEngineHears ==
  \A e \in Live :
    (\A f \in Starts \ {e} : engine[f] = "none") =>
      \A i \in ((origin + 1)..cursor) \ pel : stream[i] # 0 => buffer[e] >= i

=============================================================================
