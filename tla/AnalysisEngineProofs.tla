------------------------ MODULE AnalysisEngineProofs ------------------------
(***************************************************************************)
(* AnalysisEngine for every number of requests, entries and faults: an     *)
(* engine that no request can end comes of requests that overlapped, and   *)
(* an engine alone has heard every acknowledged cascade.                   *)
(***************************************************************************)
EXTENDS AnalysisEngine, FiniteSetTheorems, SequenceTheorems, WellFoundedInduction, TLAPS

\* Requests that do not overlap come one at a time, find in the slot whatever runs,
\* and a stop ends the engine it found (start_autonomous, stop_autonomous).
InTurn ==
  ~raced =>
    /\ \A e \in Live : slot = e
    /\ \A s \in Starts : StartBusy(s) =>
         /\ slot = None
         /\ \A t \in Stops : ~StopBusy(t)
         /\ \A u \in Starts : StartBusy(u) => u = s
    /\ \A t \in Stops : StopBusy(t) =>
         /\ slot = stop[t].of
         /\ \A u \in Stops : StopBusy(u) => u = t
         /\ stop[t].at = "tail" => engine[stop[t].of] = "closed"

\* A stop that is on its way knows its engine (close).
StopKnows == \A t \in Stops : StopBusy(t) => stop[t].of \in Starts

Turns == TypeOK /\ StopKnows /\ InTurn

\* What is in the slot, or is being stopped, has begun (close).
Begun ==
  /\ slot # None => engine[slot] # "none"
  /\ \A t \in Stops : StopBusy(t) => engine[stop[t].of] # "none"

\* An engine begins with its request, and only engines that began listen (start).
NotBegun ==
  \A e \in Starts :
    /\ start[e] \in {"new", "building", "grouping"} => engine[e] = "none"
    /\ engine[e] = "none" => listener[e] = "off" /\ buffer[e] = 0
    /\ listener[e] # "off" => engine[e] \in {"live", "closing"}

\* What the group has given is in the stream (XREADGROUP).
GroupInStream ==
  /\ cursor <= Len(stream) /\ origin <= cursor
  /\ origin = -1 => cursor = 0
  /\ (\A e \in Starts : engine[e] = "none") => origin \in {-1, cursor}
  /\ \A e \in Starts : engine[e] # "none" => origin >= 0

Sole(e) == \A f \in Starts \ {e} : engine[f] = "none"

\* An engine alone has buffered the newest of what it processed, and what it was
\* given since is newer (RedisStreamBus.consume, _process).
SoleInOrder ==
  \A e \in Live : Sole(e) =>
    /\ buffer[e] <= cursor
    /\ listener[e] = "read" => \A i \in held[e] : i > buffer[e] /\ i <= cursor
    /\ listener[e] = "acking" =>
         \A i \in held[e] : i <= cursor /\ (stream[i] # 0 => buffer[e] >= i)

Hearing == NotBegun /\ GroupInStream /\ SoleInOrder /\ SoleEngineHears

-----------------------------------------------------------------------------
(* What a batch leaves in the buffer                                       *)

\* A set of entries that is not empty has a newest one.
LEMMA NewestExists ==
  ASSUME NEW N \in Nat, NEW T \in SUBSET (0..N), T # {}
  PROVE  \E x \in T : \A y \in T : x >= y
<1> DEFINE R == {p \in Nat \X Nat : p[1] < p[2]}
           D == {N - y : y \in T}
<1>1. IsWellFoundedOn(R, Nat)
  BY NatLessThanWellFounded DEF OpToRel
<1>2. D \subseteq Nat /\ D # {}
  <2>1. \A y \in T : N - y \in Nat
    OBVIOUS
  <2>2. PICK y \in T : TRUE
    OBVIOUS
  <2>3. N - y \in D
    BY <2>2
  <2> QED
    BY <2>1, <2>3
<1>3. \E x \in D : \A y \in D : ~ (<<y, x>> \in R)
  <2> HIDE DEF R, D
  <2> QED
    BY <1>1, <1>2, WFMin
<1>4. PICK x \in D : \A y \in D : ~ (<<y, x>> \in R)
  BY <1>3
<1>5. PICK m \in T : x = N - m
  OBVIOUS
<1>6. ASSUME NEW y \in T PROVE m >= y
  <2>1. N - y \in D /\ x \in Nat /\ N - y \in Nat
    BY <1>2
  <2>2. ~ (N - y < x)
    BY <1>4, <2>1
  <2> QED
    BY <1>5, <2>2
<1> QED
  BY <1>6

\* What _process leaves in the buffer: the newest entry of the batch that decodes.
LEMMA ProcessKeepsNewest ==
  ASSUME TypeOK, NEW e \in Starts, Process(e)
  PROVE  /\ buffer' \in [Starts -> 0..MaxEntries]
         /\ \A f \in Starts \ {e} : buffer'[f] = buffer[f]
         /\ Newest(e) = {} => buffer'[e] = buffer[e]
         /\ Newest(e) # {} => buffer'[e] \in Newest(e) /\ \A j \in Newest(e) : buffer'[e] >= j
<1> DEFINE new == IF Newest(e) = {} THEN buffer[e]
                  ELSE CHOOSE i \in Newest(e) : \A j \in Newest(e) : i >= j
<1>1. buffer \in [Starts -> 0..MaxEntries] /\ held[e] \in SUBSET Entries
  BY DEF TypeOK
<1>2. Newest(e) \in SUBSET (0..MaxEntries)
  BY <1>1 DEF Newest, Entries
<1>3. Newest(e) # {} =>
        /\ new \in Newest(e) /\ \A j \in Newest(e) : new >= j
  <2> SUFFICES ASSUME Newest(e) # {} PROVE new \in Newest(e) /\ \A j \in Newest(e) : new >= j
    OBVIOUS
  <2>1. \E x \in Newest(e) : \A y \in Newest(e) : x >= y
    BY <1>2, NewestExists, EngineAssumption
  <2> QED
    BY <2>1
<1>4. new \in 0..MaxEntries
  BY <1>1, <1>2, <1>3
<1>5. buffer' = [buffer EXCEPT ![e] = new]
  BY DEF Process
<1>6. Newest(e) = {} => new = buffer[e]
  OBVIOUS
<1> HIDE DEF new
<1> QED
  BY <1>1, <1>3, <1>4, <1>5, <1>6

-----------------------------------------------------------------------------
(* Types, and requests in turn                                             *)

\* The steps of a listener and of HYDRA (HydraListener.run, RedisStreamBus.consume).
LEMMA ListeningIsTyped ==
  ASSUME TypeOK,
         \/ \E e \in Starts : ListenerStep(e)
         \/ \E x \in Tiers : Cascade(x)
  PROVE  TypeOK' /\ UNCHANGED <<slot, start, stop, raced, engine>>
<1> USE EngineAssumption
<1>1. UNCHANGED <<slot, start, stop, raced, engine>>
  BY DEF ListenerStep, Read, ReadLost, Process, Ack, AckFails, Cascade, requests, engines
<1>2. /\ listener \in [Starts -> {"off", "reading", "read", "acking"}]
      /\ held \in [Starts -> SUBSET Entries]
      /\ buffer \in [Starts -> 0..MaxEntries]
      /\ stream \in Seq(Tiers) /\ Len(stream) \in 0..MaxEntries
      /\ origin \in -1..MaxEntries /\ cursor \in 0..MaxEntries
      /\ pel \subseteq Entries /\ faults \in 0..MaxFaults
  BY DEF TypeOK
<1>3. ASSUME /\ listener' \in [Starts -> {"off", "reading", "read", "acking"}]
             /\ held' \in [Starts -> SUBSET Entries]
             /\ buffer' \in [Starts -> 0..MaxEntries]
             /\ stream' \in Seq(Tiers) /\ Len(stream') <= MaxEntries
             /\ origin' \in -1..MaxEntries /\ cursor' \in 0..MaxEntries
             /\ pel' \subseteq Entries /\ faults' \in 0..MaxFaults
      PROVE  TypeOK'
  <2>1. /\ slot' \in Starts \cup {None}
        /\ start' \in [Starts -> {"new", "building", "grouping", "started",
                                  "already_running", "error", "dropped"}]
        /\ stop' \in [Stops -> [at : {"new", "loop", "listener", "tail", "stopped",
                                      "failed", "error", "dropped"},
                                of : Starts \cup {None}]]
        /\ engine' \in [Starts -> {"none", "live", "closing", "closed"}]
    BY <1>1 DEF TypeOK
  <2>2. raced' \in BOOLEAN
    BY <1>1 DEF TypeOK
  <2> QED
    BY <1>3, <2>1, <2>2 DEF TypeOK
<1>4. (cursor + 1)..Len(stream) \subseteq Entries
  BY <1>2 DEF Entries
<1>5. ASSUME NEW x \in Tiers, Cascade(x) PROVE TypeOK'
  <2>1. stream' = Append(stream, x) /\ Len(stream) < MaxEntries
    BY <1>5 DEF Cascade
  <2>2. stream' \in Seq(Tiers) /\ Len(stream') <= MaxEntries
    BY <1>2, <2>1
  <2>3. UNCHANGED <<listener, held, buffer, origin, cursor, pel, faults>>
    BY <1>5 DEF Cascade, engines
  <2> QED
    BY <1>2, <1>3, <2>2, <2>3
<1>6. ASSUME NEW e \in Starts, Read(e) PROVE TypeOK'
  <2>1. /\ listener' = [listener EXCEPT ![e] = "read"]
        /\ held' = [held EXCEPT ![e] = (cursor + 1)..Len(stream)]
        /\ cursor' = Len(stream) /\ pel' = pel \cup (cursor + 1)..Len(stream)
        /\ UNCHANGED <<buffer, stream, origin, faults>>
    BY <1>6 DEF Read, Listen
  <2>2. held' \in [Starts -> SUBSET Entries] /\ pel' \subseteq Entries
    BY <1>2, <1>4, <2>1
  <2> QED
    BY <1>2, <1>3, <2>1, <2>2
<1>7. ASSUME NEW e \in Starts, ReadLost(e) PROVE TypeOK'
  <2>1. /\ cursor' = Len(stream) /\ pel' = pel \cup (cursor + 1)..Len(stream)
        /\ UNCHANGED <<listener, held, buffer, stream, origin>>
    BY <1>7 DEF ReadLost, engines
  <2>2. pel' \subseteq Entries /\ faults' \in 0..MaxFaults
    BY <1>2, <1>4, <1>7, <2>1 DEF ReadLost, Fault
  <2> QED
    BY <1>2, <1>3, <2>1, <2>2
<1>8. ASSUME NEW e \in Starts, Process(e) PROVE TypeOK'
  <2>1. /\ listener' = [listener EXCEPT ![e] = "acking"]
        /\ UNCHANGED <<held, stream, origin, cursor, pel, faults>>
    BY <1>8 DEF Process, Listen, redis
  <2>2. buffer' \in [Starts -> 0..MaxEntries]
    BY <1>8, ProcessKeepsNewest
  <2>3. listener' \in [Starts -> {"off", "reading", "read", "acking"}]
    BY <1>2, <2>1
  <2> QED
    BY <1>2, <1>3, <2>1, <2>2, <2>3
<1>9. ASSUME NEW e \in Starts, Ack(e) \/ AckFails(e) PROVE TypeOK'
  <2>1. /\ listener' = [listener EXCEPT ![e] = "reading"]
        /\ held' = [held EXCEPT ![e] = {}]
        /\ pel' \subseteq pel /\ UNCHANGED <<buffer, stream, origin, cursor>>
    BY <1>9 DEF Ack, AckFails, Listen, redis
  <2>2. faults' \in 0..MaxFaults
    BY <1>2, <1>9 DEF Ack, AckFails, Fault
  <2>3. held' \in [Starts -> SUBSET Entries] /\ pel' \subseteq Entries
    BY <1>2, <2>1
  <2> QED
    BY <1>2, <1>3, <2>1, <2>2, <2>3
<1> QED
  BY <1>1, <1>5, <1>6, <1>7, <1>8, <1>9 DEF ListenerStep

\* The types a request can disturb, put together.
LEMMA TypesTogether ==
  ASSUME TypeOK,
         slot' \in Starts \cup {None},
         start' \in [Starts -> {"new", "building", "grouping", "started",
                                "already_running", "error", "dropped"}],
         stop' \in [Stops -> [at : {"new", "loop", "listener", "tail", "stopped",
                                    "failed", "error", "dropped"},
                              of : Starts \cup {None}]],
         engine' \in [Starts -> {"none", "live", "closing", "closed"}],
         listener' \in [Starts -> {"off", "reading", "read", "acking"}],
         held' \in [Starts -> SUBSET Entries],
         buffer' = buffer, stream' = stream, pel' = pel,
         origin' \in -1..MaxEntries, cursor' \in 0..MaxEntries,
         faults' \in 0..MaxFaults, raced' \in BOOLEAN
  PROVE  TypeOK'
  BY DEF TypeOK

\* A group that is made, or was there, begins in the stream (XGROUP CREATE).
LEMMA GroupIsTyped ==
  ASSUME TypeOK, MakeGroup \/ UNCHANGED redis
  PROVE  /\ origin' \in -1..MaxEntries /\ cursor' \in 0..MaxEntries
         /\ UNCHANGED <<stream, pel>>
<1>1. /\ stream \in Seq(Tiers) /\ Len(stream) \in 0..MaxEntries
      /\ origin \in -1..MaxEntries /\ cursor \in 0..MaxEntries
  BY EngineAssumption DEF TypeOK
<1> QED
  BY <1>1, EngineAssumption DEF MakeGroup, redis

\* A start is asked, builds, runs or fails (start_autonomous).
LEMMA StartTakesItsTurn ==
  ASSUME Turns, NEW s \in Starts, StartStep(s) PROVE Turns'
<1> USE EngineAssumption
<1>1. TypeOK /\ StopKnows /\ InTurn /\ UNCHANGED <<stop, held, buffer>>
  BY DEF Turns, StartStep, AskStart, Build, Run, StartFails, engines
<1>2. /\ slot \in Starts \cup {None} /\ faults \in 0..MaxFaults
      /\ start \in [Starts -> {"new", "building", "grouping", "started",
                               "already_running", "error", "dropped"}]
      /\ engine \in [Starts -> {"none", "live", "closing", "closed"}]
      /\ listener \in [Starts -> {"off", "reading", "read", "acking"}]
  BY <1>1 DEF TypeOK
<1>3. raced \in BOOLEAN /\ raced' \in BOOLEAN
  <2>1. raced \in BOOLEAN
    BY <1>1 DEF TypeOK
  <2>2. raced' = raced \/ raced' = (raced \/ (slot = None /\ Busy))
    BY DEF StartStep, AskStart, Build, Run, StartFails
  <2> QED
    BY <2>1, <2>2, Zenon
<1>4. StopKnows'
  BY <1>1 DEF StopKnows, StopBusy
<1>5. ASSUME start' \in [Starts -> {"new", "building", "grouping", "started",
                                    "already_running", "error", "dropped"}],
             slot' \in Starts \cup {None},
             engine' \in [Starts -> {"none", "live", "closing", "closed"}],
             listener' \in [Starts -> {"off", "reading", "read", "acking"}],
             faults' \in 0..MaxFaults, MakeGroup \/ UNCHANGED redis
      PROVE  TypeOK'
  <2>1. /\ stop' \in [Stops -> [at : {"new", "loop", "listener", "tail", "stopped",
                                      "failed", "error", "dropped"},
                                of : Starts \cup {None}]]
        /\ held' \in [Starts -> SUBSET Entries]
    BY <1>1 DEF TypeOK
  <2> QED
    BY <1>1, <1>3, <1>5, <2>1, GroupIsTyped, TypesTogether
<1>6. ~raced =>
        /\ \A e \in Live : slot = e
        /\ \A u \in Starts : StartBusy(u) =>
             /\ slot = None
             /\ \A t \in Stops : ~StopBusy(t)
             /\ \A v \in Starts : StartBusy(v) => v = u
        /\ \A t \in Stops : StopBusy(t) =>
             /\ slot = stop[t].of
             /\ \A u \in Stops : StopBusy(u) => u = t
             /\ stop[t].at = "tail" => engine[stop[t].of] = "closed"
  BY <1>1 DEF InTurn
<1>7. \A t \in Stops : StopBusy(t)' <=> StopBusy(t)
  BY <1>1 DEF StopBusy
<1>8. CASE AskStart(s)
  <2>1. /\ start' = [start EXCEPT ![s] = IF slot = None THEN "building" ELSE "already_running"]
        /\ UNCHANGED <<slot, engine, listener, faults, redis>> /\ start[s] = "new"
    BY <1>8 DEF AskStart, SetStart, engines
  <2>2. TypeOK'
    BY <1>2, <1>5, <2>1
  <2>3. raced' = (raced \/ (slot = None /\ Busy))
    BY <1>8 DEF AskStart
  <2>4. \A u \in Starts : StartBusy(u)' <=> (IF u = s THEN slot = None ELSE StartBusy(u))
    BY <1>2, <2>1 DEF StartBusy
  <2>5. Live' = Live
    BY <2>1 DEF Live
  <2>6. CASE slot = None
    <3> SUFFICES ASSUME ~raced' PROVE InTurn'
      BY <1>4, <2>2 DEF Turns, InTurn
    <3>1. ~raced /\ ~Busy
      BY <2>3, <2>6, Zenon
    <3>2. (\A u \in Starts : ~StartBusy(u)) /\ \A t \in Stops : ~StopBusy(t)
      BY <3>1 DEF Busy
    <3> QED
      BY <1>1, <1>2, <1>4, <1>6, <1>7, <2>1, <2>2, <2>4, <2>5, <2>6, <3>1, <3>2 DEF Turns, InTurn
  <2>7. CASE slot # None
    <3>1. raced' = raced
      BY <2>3, <2>7, <1>3, Zenon
    <3> SUFFICES ASSUME ~raced PROVE InTurn'
      BY <1>4, <2>2, <3>1 DEF Turns, InTurn
    <3>2. \A u \in Starts : ~StartBusy(u)
      BY <1>6, <2>7
    <3>3. \A u \in Starts : ~StartBusy(u)'
      BY <2>4, <2>7, <3>2
    <3>4. InTurn'
      BY <1>1, <1>6, <1>7, <2>1, <2>5, <3>3 DEF InTurn
    <3> QED
      BY <3>4
  <2> QED
    BY <2>6, <2>7
<1>9. CASE Build(s)
  <2>1. /\ start' = [start EXCEPT ![s] = "grouping"] /\ start[s] = "building"
        /\ UNCHANGED <<slot, engine, listener, faults, raced, redis>>
    BY <1>9 DEF Build, SetStart, engines
  <2>2. TypeOK'
    BY <1>2, <1>5, <2>1
  <2>3. \A u \in Starts : StartBusy(u)' <=> StartBusy(u)
    BY <1>2, <2>1 DEF StartBusy
  <2> QED
    BY <1>1, <1>4, <1>6, <1>7, <2>1, <2>2, <2>3 DEF Turns, InTurn, Live
<1>10. CASE Run(s)
  <2>1. /\ start' = [start EXCEPT ![s] = "started"] /\ StartBusy(s)
        /\ slot' = s /\ engine' = [engine EXCEPT ![s] = "live"]
        /\ listener' = [listener EXCEPT ![s] = "reading"]
        /\ MakeGroup /\ UNCHANGED <<faults, raced>>
    BY <1>10 DEF Run, SetStart, StartBusy
  <2>2. TypeOK'
    BY <1>2, <1>5, <2>1
  <2>3. \A u \in Starts : StartBusy(u)' <=> (u # s /\ StartBusy(u))
    BY <1>2, <2>1 DEF StartBusy
  <2>4. Live' \subseteq Live \cup {s}
    BY <1>2, <2>1 DEF Live
  <2>5. ~raced => Live' \subseteq {s} /\ (\A u \in Starts : ~StartBusy(u)') /\ \A t \in Stops : ~StopBusy(t)
    <3>1. Live \subseteq Starts
      BY DEF Live
    <3> QED
      BY <1>6, <2>1, <2>3, <2>4, <3>1
  <2> QED
    BY <1>4, <1>7, <2>1, <2>2, <2>5 DEF Turns, InTurn
<1>11. CASE StartFails(s)
  <2>1. /\ start' = [start EXCEPT ![s] = "error"]
        /\ UNCHANGED <<slot, engine, listener, raced>> /\ faults' \in 0..MaxFaults
        /\ MakeGroup \/ UNCHANGED redis
    BY <1>2, <1>11 DEF StartFails, SetStart, Fault, engines
  <2>2. TypeOK'
    BY <1>2, <1>5, <2>1
  <2>3. \A u \in Starts : StartBusy(u)' => StartBusy(u)
    BY <1>2, <2>1 DEF StartBusy
  <2> QED
    BY <1>1, <1>4, <1>6, <1>7, <2>1, <2>2, <2>3 DEF Turns, InTurn, Live
<1> QED
  BY <1>8, <1>9, <1>10, <1>11 DEF StartStep

\* A stop is asked, ends the loop and the listener and empties the slot, or fails
\* (stop_autonomous, close).
LEMMA StopTakesItsTurn ==
  ASSUME Turns, NEW t \in Stops, StopStep(t) PROVE Turns'
<1> USE EngineAssumption
<1>1. TypeOK /\ StopKnows /\ InTurn /\ UNCHANGED <<start, buffer, redis>>
  BY DEF Turns, StopStep, AskStop, LoopEnds, ListenerEnds, EmptySlot, SecondStopFails, StopFails,
         engines
<1> DEFINE Ats == {"new", "loop", "listener", "tail", "stopped", "failed", "error", "dropped"}
<1>2. /\ slot \in Starts \cup {None} /\ faults \in 0..MaxFaults
      /\ stop \in [Stops -> [at : Ats, of : Starts \cup {None}]]
      /\ engine \in [Starts -> {"none", "live", "closing", "closed"}]
      /\ listener \in [Starts -> {"off", "reading", "read", "acking"}]
      /\ held \in [Starts -> SUBSET Entries]
  BY <1>1 DEF TypeOK
<1>3. raced \in BOOLEAN /\ raced' \in BOOLEAN
  <2>1. raced \in BOOLEAN
    BY <1>1 DEF TypeOK
  <2>2. raced' = raced \/ raced' = (raced \/ Busy)
    BY DEF StopStep, AskStop, LoopEnds, ListenerEnds, EmptySlot, SecondStopFails, StopFails
  <2> QED
    BY <2>1, <2>2, Zenon
<1>4. ASSUME stop' \in [Stops -> [at : Ats, of : Starts \cup {None}]],
             slot' \in Starts \cup {None},
             engine' \in [Starts -> {"none", "live", "closing", "closed"}],
             listener' \in [Starts -> {"off", "reading", "read", "acking"}],
             held' \in [Starts -> SUBSET Entries], faults' \in 0..MaxFaults
      PROVE  TypeOK'
  <2>1. start' \in [Starts -> {"new", "building", "grouping", "started",
                               "already_running", "error", "dropped"}]
    BY <1>1 DEF TypeOK
  <2> QED
    BY <1>1, <1>3, <1>4, <2>1, GroupIsTyped, TypesTogether DEF redis
<1>5. ~raced =>
        /\ \A e \in Live : slot = e
        /\ \A u \in Starts : StartBusy(u) => slot = None /\ \A v \in Stops : ~StopBusy(v)
        /\ \A u \in Starts : StartBusy(u) => \A v \in Starts : StartBusy(v) => v = u
        /\ \A v \in Stops : StopBusy(v) =>
             /\ slot = stop[v].of
             /\ \A u \in Stops : StopBusy(u) => u = v
             /\ stop[v].at = "tail" => engine[stop[v].of] = "closed"
  BY <1>1 DEF InTurn
<1>6. \A u \in Starts : StartBusy(u)' <=> StartBusy(u)
  BY <1>1 DEF StartBusy
<1>7. \A v \in Stops : StopBusy(v) => stop[v].of \in Starts
  BY <1>1 DEF StopKnows
<1>8. ASSUME NEW at \in Ats, SetStop(t, at)
      PROVE  /\ stop' \in [Stops -> [at : Ats, of : Starts \cup {None}]]
             /\ stop'[t].at = at /\ stop'[t].of = stop[t].of
             /\ \A v \in Stops \ {t} : stop'[v] = stop[v]
  BY <1>2, <1>8 DEF SetStop
<1>9. CASE AskStop(t)
  <2> DEFINE r == [at |-> IF slot = None THEN "stopped" ELSE "loop", of |-> slot]
  <2>1. /\ stop' = [stop EXCEPT ![t] = r] /\ raced' = (raced \/ Busy)
        /\ UNCHANGED <<slot, engine, listener, held, faults>>
    BY <1>9 DEF AskStop, engines
  <2>2. r \in [at : Ats, of : Starts \cup {None}] /\ r.of = slot
        /\ (r.at = "loop" \/ r.at = "stopped") /\ (r.at = "loop" => slot # None)
    BY <1>2
  <2>3. /\ stop' \in [Stops -> [at : Ats, of : Starts \cup {None}]]
        /\ stop'[t] = r /\ \A v \in Stops \ {t} : stop'[v] = stop[v]
    <3> HIDE DEF r, Ats
    <3> QED
      BY <1>2, <2>1, <2>2
  <2>4. TypeOK'
    BY <1>2, <1>4, <2>1, <2>3
  <2>5. \A v \in Stops : IF v = t THEN StopBusy(v)' => slot # None /\ stop'[v].of = slot /\ stop'[v].at = "loop"
                                  ELSE (StopBusy(v)' <=> StopBusy(v)) /\ stop'[v] = stop[v]
    <3> HIDE DEF r
    <3> QED
      BY <2>2, <2>3 DEF StopBusy
  <2>6. StopKnows'
    BY <1>2, <1>7, <2>5 DEF StopKnows
  <2>7. ASSUME ~raced' PROVE InTurn'
    <3>1. ~raced /\ ~Busy
      BY <2>1, <2>7, Zenon
    <3>2. (\A u \in Starts : ~StartBusy(u)) /\ \A v \in Stops : ~StopBusy(v)
      BY <3>1 DEF Busy
    <3>3. \A v \in Stops : StopBusy(v)' => v = t /\ stop'[v].of = slot /\ stop'[v].at = "loop"
      BY <2>5, <3>2
    <3>4. \A e \in Live' : slot' = e
      BY <1>5, <2>1, <3>1 DEF Live
    <3> QED
      BY <1>6, <2>1, <3>2, <3>3, <3>4 DEF InTurn
  <2> QED
    BY <2>4, <2>6, <2>7 DEF Turns, InTurn
<1>10. CASE LoopEnds(t)
  <2>1. /\ SetStop(t, "listener") /\ stop[t].at = "loop" /\ "listener" \in Ats
        /\ engine' = [engine EXCEPT ![stop[t].of] = IF @ = "live" THEN "closing" ELSE @]
        /\ UNCHANGED <<slot, listener, held, faults, raced>>
    BY <1>10 DEF LoopEnds
  <2>2. /\ stop' \in [Stops -> [at : Ats, of : Starts \cup {None}]]
        /\ stop'[t].at = "listener" /\ stop'[t].of = stop[t].of
        /\ \A v \in Stops \ {t} : stop'[v] = stop[v]
    BY <1>8, <2>1
  <2>3. engine' \in [Starts -> {"none", "live", "closing", "closed"}]
    BY <1>2, <2>1
  <2>4. TypeOK'
    BY <1>2, <1>4, <2>1, <2>2, <2>3
  <2>5. \A v \in Stops : StopBusy(v)' <=> StopBusy(v)
    BY <2>1, <2>2 DEF StopBusy
  <2>6. StopKnows'
    BY <1>7, <2>2, <2>5 DEF StopKnows
  <2>7. Live' \subseteq Live /\ \A e \in Starts : engine[e] = "closed" => engine'[e] = "closed"
    BY <1>2, <2>1 DEF Live
  <2>8. \A v \in Stops : stop'[v].of = stop[v].of /\ (stop'[v].at = "tail" => stop[v].at = "tail")
    BY <2>2
  <2>9. InTurn'
    BY <1>5, <1>6, <1>7, <2>1, <2>5, <2>7, <2>8 DEF InTurn
  <2> QED
    BY <2>4, <2>6, <2>9 DEF Turns
<1>11. CASE ListenerEnds(t)
  <2>1. /\ SetStop(t, "tail") /\ stop[t].at = "listener" /\ "tail" \in Ats
        /\ engine' = [engine EXCEPT ![stop[t].of] = "closed"]
        /\ listener' = [listener EXCEPT ![stop[t].of] = "off"]
        /\ held' = [held EXCEPT ![stop[t].of] = {}]
        /\ UNCHANGED <<slot, faults, raced>>
    BY <1>11 DEF ListenerEnds
  <2>2. /\ stop' \in [Stops -> [at : Ats, of : Starts \cup {None}]]
        /\ stop'[t].at = "tail" /\ stop'[t].of = stop[t].of
        /\ \A v \in Stops \ {t} : stop'[v] = stop[v]
    BY <1>8, <2>1
  <2>3. /\ engine' \in [Starts -> {"none", "live", "closing", "closed"}]
        /\ listener' \in [Starts -> {"off", "reading", "read", "acking"}]
        /\ held' \in [Starts -> SUBSET Entries]
    BY <1>2, <2>1
  <2>4. TypeOK'
    BY <1>2, <1>4, <2>1, <2>2, <2>3
  <2>5. \A v \in Stops : (StopBusy(v)' <=> StopBusy(v)) /\ stop'[v].of = stop[v].of
    BY <2>1, <2>2 DEF StopBusy
  <2>6. StopKnows'
    BY <1>7, <2>5 DEF StopKnows
  <2>7. /\ Live' \subseteq Live
        /\ \A e \in Starts : engine[e] = "closed" \/ e = stop[t].of => engine'[e] = "closed"
    BY <1>2, <2>1 DEF Live
  <2>8. \A v \in Stops : v # t => stop'[v].at = stop[v].at
    BY <2>2
  <2>9. stop[t].of \in Starts
    BY <1>7, <2>1 DEF StopBusy
  <2>10. InTurn'
    BY <1>5, <1>6, <1>7, <2>1, <2>5, <2>7, <2>8, <2>9 DEF InTurn
  <2> QED
    BY <2>4, <2>6, <2>10 DEF Turns
<1>12. CASE EmptySlot(t)
  <2>1. /\ SetStop(t, "stopped") /\ stop[t].at = "tail" /\ "stopped" \in Ats /\ slot' = None
        /\ UNCHANGED <<engine, listener, held, faults, raced>>
    BY <1>12 DEF EmptySlot, engines
  <2>2. /\ stop' \in [Stops -> [at : Ats, of : Starts \cup {None}]]
        /\ stop'[t].at = "stopped" /\ stop'[t].of = stop[t].of
        /\ \A v \in Stops \ {t} : stop'[v] = stop[v]
    BY <1>8, <2>1
  <2>3. TypeOK'
    BY <1>2, <1>4, <2>1, <2>2
  <2>4. \A v \in Stops : StopBusy(v)' <=> v # t /\ StopBusy(v)
    BY <2>2 DEF StopBusy
  <2>5. StopKnows'
    BY <1>7, <2>2, <2>4 DEF StopKnows
  <2>6. StopBusy(t)
    BY <2>1 DEF StopBusy
  <2>7. ~raced => Live' = {} /\ (\A u \in Starts : ~StartBusy(u)) /\ \A v \in Stops : ~StopBusy(v)'
    <3> SUFFICES ASSUME ~raced
                 PROVE  Live' = {} /\ (\A u \in Starts : ~StartBusy(u)) /\ \A v \in Stops : ~StopBusy(v)'
      OBVIOUS
    <3>1. engine[stop[t].of] = "closed" /\ slot = stop[t].of
      BY <1>5, <2>1, <2>6
    <3>2. Live = {}
      BY <1>5, <3>1 DEF Live
    <3>3. Live' = Live
      BY <2>1 DEF Live
    <3>4. (\A u \in Starts : ~StartBusy(u)) /\ \A v \in Stops : ~StopBusy(v)'
      BY <1>5, <2>4, <2>6
    <3> QED
      BY <3>2, <3>3, <3>4
  <2> QED
    BY <1>6, <2>1, <2>3, <2>5, <2>7 DEF Turns, InTurn
<1>13. CASE SecondStopFails(t) \/ StopFails(t)
  <2>1. PICK at \in {"error", "failed"} : SetStop(t, at)
    BY <1>13 DEF SecondStopFails, StopFails
  <2>2. UNCHANGED <<slot, engine, listener, held, raced>> /\ faults' \in 0..MaxFaults
    BY <1>2, <1>13 DEF SecondStopFails, StopFails, Fault, engines
  <2>3. /\ stop' \in [Stops -> [at : Ats, of : Starts \cup {None}]]
        /\ stop'[t].at = at /\ stop'[t].of = stop[t].of
        /\ \A v \in Stops \ {t} : stop'[v] = stop[v]
    BY <1>8, <2>1
  <2>4. TypeOK'
    BY <1>2, <1>4, <2>2, <2>3
  <2>5. \A v \in Stops : StopBusy(v)' => v # t /\ StopBusy(v)
    BY <2>3 DEF StopBusy
  <2>6. StopKnows'
    BY <1>7, <2>3, <2>5 DEF StopKnows
  <2>7. Live' = Live
    BY <2>2 DEF Live
  <2>8. InTurn'
    BY <1>5, <1>6, <2>2, <2>3, <2>5, <2>7 DEF InTurn
  <2> QED
    BY <2>4, <2>6, <2>8 DEF Turns
<1> QED
  BY <1>9, <1>10, <1>11, <1>12, <1>13 DEF StopStep

\* The process ends and all requests with it.
LEMMA RestartEndsTurns == ASSUME Turns, Restart PROVE Turns'
<1> USE EngineAssumption
<1> DEFINE Ats == {"new", "loop", "listener", "tail", "stopped", "failed", "error", "dropped"}
<1>1. TypeOK
  BY DEF Turns
<1>2. /\ stop \in [Stops -> [at : Ats, of : Starts \cup {None}]]
      /\ start \in [Starts -> {"new", "building", "grouping", "started",
                               "already_running", "error", "dropped"}]
      /\ engine \in [Starts -> {"none", "live", "closing", "closed"}]
      /\ faults \in 0..MaxFaults /\ raced \in BOOLEAN
  BY <1>1 DEF TypeOK
<1>3. /\ slot' = None /\ UNCHANGED <<raced, buffer, redis>>
      /\ start' = [s \in Starts |-> IF StartBusy(s) THEN "dropped" ELSE start[s]]
      /\ engine' = [s \in Starts |-> IF engine[s] = "none" THEN "none" ELSE "closed"]
      /\ listener' = [s \in Starts |-> "off"] /\ held' = [s \in Starts |-> {}]
      /\ stop' = [t \in Stops |-> IF StopBusy(t) THEN [stop[t] EXCEPT !.at = "dropped"] ELSE stop[t]]
  BY DEF Restart
<1>4. faults' \in 0..MaxFaults /\ raced' \in BOOLEAN
  <2>1. faults' \in 0..MaxFaults
    BY <1>2 DEF Restart, Fault
  <2>2. raced' \in BOOLEAN
    BY <1>2, <1>3, Zenon
  <2> QED
    BY <2>1, <2>2
<1>5. \A t \in Stops : stop'[t] \in [at : Ats, of : Starts \cup {None}]
  BY <1>2, <1>3
<1>6. /\ stop' \in [Stops -> [at : Ats, of : Starts \cup {None}]]
      /\ \A t \in Stops : ~StopBusy(t)'
  <2>1. stop' \in [Stops -> [at : Ats, of : Starts \cup {None}]]
    BY <1>3, <1>5
  <2>2. ASSUME NEW t \in Stops PROVE ~StopBusy(t)'
    BY <1>2, <1>3 DEF StopBusy
  <2> QED
    BY <2>1, <2>2
<1>7. \A s \in Starts : ~StartBusy(s)'
  BY <1>2, <1>3 DEF StartBusy
<1>8. TypeOK'
  <2>1. /\ start' \in [Starts -> {"new", "building", "grouping", "started",
                                  "already_running", "error", "dropped"}]
        /\ engine' \in [Starts -> {"none", "live", "closing", "closed"}]
        /\ listener' \in [Starts -> {"off", "reading", "read", "acking"}]
        /\ held' \in [Starts -> SUBSET Entries]
    BY <1>2, <1>3
  <2> QED
    BY <1>1, <1>3, <1>4, <1>6, <2>1, GroupIsTyped, TypesTogether DEF redis
<1>9. Live' = {}
  BY <1>3 DEF Live
<1> QED
  BY <1>6, <1>7, <1>8, <1>9 DEF Turns, StopKnows, InTurn

\* Types and turns hold throughout.
LEMMA TurnsHold == Spec => []Turns
<1> USE EngineAssumption
<1>1. Init => Turns
  <2> SUFFICES ASSUME Init PROVE Turns
    OBVIOUS
  <2>1. /\ stream = <<>> /\ stream \in Seq(Tiers) /\ Len(stream) = 0
    BY DEF Init
  <2>2. raced \in BOOLEAN
    BY DEF Init
  <2>3. stop \in [Stops -> [at : {"new", "loop", "listener", "tail", "stopped",
                                  "failed", "error", "dropped"}, of : Starts \cup {None}]]
    BY DEF Init
  <2>4. TypeOK
    BY <2>1, <2>2, <2>3 DEF Init, TypeOK
  <2>5. Live = {} /\ (\A s \in Starts : ~StartBusy(s)) /\ \A t \in Stops : ~StopBusy(t)
    BY DEF Init, Live, StartBusy, StopBusy
  <2> QED
    BY <2>4, <2>5 DEF Turns, StopKnows, InTurn
<1>2. Turns /\ [Next]_vars => Turns'
  <2> SUFFICES ASSUME Turns, [Next]_vars PROVE Turns'
    OBVIOUS
  <2>1. ASSUME TypeOK', UNCHANGED <<slot, start, stop, raced, engine>> PROVE Turns'
    BY <2>1 DEF Turns, StopKnows, InTurn, Live, StartBusy, StopBusy
  <2>2. CASE UNCHANGED vars
    <3>1. TypeOK'
      BY <2>2 DEF Turns, TypeOK, vars, requests, redis, engines
    <3> QED
      BY <2>1, <2>2, <3>1 DEF vars, requests, engines
  <2>3. CASE (\E e \in Starts : ListenerStep(e)) \/ \E x \in Tiers : Cascade(x)
    BY <2>1, <2>3, ListeningIsTyped DEF Turns
  <2> QED
    BY <2>2, <2>3, StartTakesItsTurn, StopTakesItsTurn, RestartEndsTurns DEF Next
<1> QED
  BY <1>1, <1>2, PTL DEF Spec

\* Slot, requests, engines, listeners and stream keep their types.
THEOREM TypeCorrect == Spec => []TypeOK
  BY TurnsHold, PTL DEF Turns

\* An engine that runs outside the slot comes of requests that overlapped: nothing
\* else, no failing call and no restart, leaves one (start_autonomous, stop_autonomous).
THEOREM OrphansComeOfOverlap == Spec => []OrphansNeedOverlap
<1>1. Turns => OrphansNeedOverlap
  BY DEF Turns, InTurn, OrphansNeedOverlap
<1> QED
  BY <1>1, TurnsHold, PTL

\* The docstring's "one engine" for requests that do not overlap, whatever fails and
\* however often the process restarts: overlapping is all that can break OneEngine
\* (start_autonomous).
THEOREM OneEngineUnlessOverlap == Spec => [](~raced => OneEngine)
<1>1. Turns => (~raced => OneEngine)
  <2> SUFFICES ASSUME Turns, ~raced PROVE Cardinality(Live) <= 1
    BY DEF OneEngine
  <2>1. Live \subseteq {slot}
    BY DEF Turns, InTurn
  <2>2. Live = {} \/ Live = {slot}
    BY <2>1
  <2>3. Cardinality({}) = 0 /\ Cardinality({slot}) = 1
    BY FS_EmptySet, FS_Singleton
  <2> QED
    BY <2>2, <2>3
<1> QED
  BY <1>1, TurnsHold, PTL

-----------------------------------------------------------------------------
(* What an engine alone has heard                                          *)

\* The engines' states an event leaves alone.
LEMMA StillSole ==
  ASSUME NEW e \in Starts, Sole(e)', \A f \in Starts : engine'[f] = "none" => engine[f] = "none"
  PROVE  Sole(e)
  BY DEF Sole

\* A new entry changes nothing of what was given (XADD).
LEMMA CascadeIsLater ==
  ASSUME TypeOK, Hearing, NEW x \in Tiers, Cascade(x) PROVE Hearing'
<1> USE EngineAssumption
<1>1. /\ stream' = Append(stream, x)
      /\ UNCHANGED <<start, engine, listener, held, buffer, origin, cursor, pel>>
  BY DEF Cascade, requests, engines
<1>2. /\ stream \in Seq(Tiers) /\ Len(stream) \in Nat /\ cursor \in 0..MaxEntries
      /\ origin \in -1..MaxEntries /\ held \in [Starts -> SUBSET Entries]
  BY DEF TypeOK
<1>3. /\ Len(stream') = Len(stream) + 1
      /\ \A i \in 1..Len(stream) : stream'[i] = stream[i]
  BY <1>1, <1>2
<1>4. Live' = Live /\ \A e \in Starts : Sole(e)' <=> Sole(e)
  BY <1>1 DEF Live, Sole
<1>5. NotBegun' /\ GroupInStream'
  BY <1>1, <1>2, <1>3, <1>4 DEF Hearing, NotBegun, GroupInStream
<1>6. cursor <= Len(stream) /\ \A e \in Live : origin >= 0
  BY DEF Hearing, GroupInStream, Live
<1>7. ASSUME NEW e \in Live, Sole(e)
      PROVE  /\ buffer[e] <= cursor
             /\ listener[e] = "read" => \A i \in held[e] : i > buffer[e] /\ i <= cursor
             /\ listener[e] = "acking" => \A i \in held[e] : i <= cursor /\ (stream[i] # 0 => buffer[e] >= i)
             /\ \A i \in ((origin + 1)..cursor) \ pel : stream[i] # 0 => buffer[e] >= i
  BY <1>7 DEF Hearing, SoleInOrder, SoleEngineHears, Sole, Live
<1>8. ASSUME NEW e \in Live, Sole(e)
      PROVE  /\ listener[e] = "acking" => \A i \in held[e] : stream'[i] # 0 => buffer[e] >= i
             /\ \A i \in ((origin + 1)..cursor) \ pel : stream'[i] # 0 => buffer[e] >= i
  <2>1. held[e] \subseteq Entries
    BY <1>2 DEF Live
  <2>2. ASSUME NEW i \in held[e], listener[e] = "acking" PROVE stream'[i] = stream[i]
    BY <1>2, <1>3, <1>6, <1>7, <1>8, <2>1, <2>2 DEF Entries
  <2>3. ASSUME NEW i \in ((origin + 1)..cursor) \ pel PROVE stream'[i] = stream[i]
    BY <1>2, <1>3, <1>6, <1>8, <2>3
  <2> QED
    BY <1>7, <1>8, <2>2, <2>3
<1>9. SoleInOrder' /\ SoleEngineHears'
  BY <1>1, <1>4, <1>7, <1>8 DEF SoleInOrder, SoleEngineHears, Sole
<1> QED
  BY <1>5, <1>9 DEF Hearing

\* What is known of an engine alone (consume, _process).
LEMMA Known ==
  ASSUME Hearing, NEW e \in Live, Sole(e)
  PROVE  /\ buffer[e] <= cursor /\ origin >= 0 /\ cursor <= Len(stream)
         /\ listener[e] = "read" => \A i \in held[e] : i > buffer[e] /\ i <= cursor
         /\ listener[e] = "acking" => \A i \in held[e] : i <= cursor /\ (stream[i] # 0 => buffer[e] >= i)
         /\ \A i \in ((origin + 1)..cursor) \ pel : stream[i] # 0 => buffer[e] >= i
  BY DEF Hearing, SoleInOrder, SoleEngineHears, Sole, Live, GroupInStream

\* Only an engine that began listens; alone, it is the one that does.
LEMMA ListensAlone ==
  ASSUME Hearing, NEW e \in Starts, listener[e] # "off", NEW f \in Live, Sole(f)
  PROVE  e = f
  BY DEF Hearing, NotBegun, Sole

\* The entries a consumer is given are newer than all it was given before
\* (XREADGROUP >, RedisStreamBus.consume).
LEMMA ReadIsNewer ==
  ASSUME TypeOK, Hearing, NEW e \in Starts, Read(e) \/ ReadLost(e) PROVE Hearing'
<1> USE EngineAssumption
<1>1. /\ listener[e] = "reading" /\ cursor < Len(stream)
      /\ cursor' = Len(stream) /\ pel' = pel \cup (cursor + 1)..Len(stream)
      /\ UNCHANGED <<start, engine, buffer, stream, origin>>
      /\ \/ listener' = [listener EXCEPT ![e] = "read"] /\ held' = [held EXCEPT ![e] = (cursor + 1)..Len(stream)]
         \/ UNCHANGED <<listener, held>>
  BY DEF Read, ReadLost, Listen, requests, engines
<1>2. /\ stream \in Seq(Tiers) /\ Len(stream) \in Nat /\ cursor \in 0..MaxEntries
      /\ origin \in -1..MaxEntries /\ held \in [Starts -> SUBSET Entries]
      /\ buffer \in [Starts -> 0..MaxEntries]
      /\ listener \in [Starts -> {"off", "reading", "read", "acking"}]
  BY DEF TypeOK
<1>3. Live' = Live /\ \A f \in Starts : Sole(f)' <=> Sole(f)
  BY <1>1 DEF Live, Sole
<1>4. engine[e] # "none"
  BY <1>1 DEF Hearing, NotBegun
<1>5. NotBegun'
  BY <1>1, <1>2, <1>4 DEF Hearing, NotBegun
<1>6. GroupInStream'
  BY <1>1, <1>2, <1>3, <1>4 DEF Hearing, GroupInStream
<1>7. ASSUME NEW f \in Live, Sole(f)
      PROVE  /\ buffer[f] <= cursor'
             /\ listener'[f] = "read" => \A i \in held'[f] : i > buffer[f] /\ i <= cursor'
             /\ listener'[f] = "acking" => \A i \in held'[f] : i <= cursor' /\ (stream[i] # 0 => buffer[f] >= i)
             /\ \A i \in ((origin + 1)..cursor') \ pel' : stream[i] # 0 => buffer[f] >= i
  <2>1. e = f
    BY <1>1, <1>7, ListensAlone
  <2>2. buffer[f] <= cursor /\ buffer[f] \in Nat /\ origin >= 0
    BY <1>2, <1>7, <2>1, Known
  <2>3. listener'[f] = "read" => held'[f] = (cursor + 1)..Len(stream)
    BY <1>1, <1>2, <2>1
  <2>4. listener'[f] # "acking"
    BY <1>1, <1>2, <2>1
  <2>5. \A i \in ((origin + 1)..cursor') \ pel' : i \in ((origin + 1)..cursor) \ pel
    BY <1>1, <1>2
  <2> QED
    BY <1>1, <1>2, <1>7, <2>2, <2>3, <2>4, <2>5, Known
<1>8. SoleInOrder' /\ SoleEngineHears'
  BY <1>1, <1>3, <1>7 DEF SoleInOrder, SoleEngineHears, Sole
<1> QED
  BY <1>5, <1>6, <1>8 DEF Hearing

\* The newest entry of a batch is newer than what was buffered (_process).
LEMMA ProcessIsInOrder ==
  ASSUME TypeOK, Hearing, NEW e \in Starts, Process(e) PROVE Hearing'
<1> USE EngineAssumption
<1>1. /\ listener[e] = "read" /\ listener' = [listener EXCEPT ![e] = "acking"]
      /\ UNCHANGED <<start, engine, held, stream, origin, cursor, pel>>
  BY DEF Process, Listen, requests, redis
<1>2. /\ cursor \in 0..MaxEntries /\ origin \in -1..MaxEntries
      /\ held \in [Starts -> SUBSET Entries] /\ buffer \in [Starts -> 0..MaxEntries]
      /\ listener \in [Starts -> {"off", "reading", "read", "acking"}]
  BY DEF TypeOK
<1>3. /\ buffer' \in [Starts -> 0..MaxEntries]
      /\ \A f \in Starts \ {e} : buffer'[f] = buffer[f]
      /\ Newest(e) = {} => buffer'[e] = buffer[e]
      /\ Newest(e) # {} => buffer'[e] \in Newest(e) /\ \A j \in Newest(e) : buffer'[e] >= j
  BY ProcessKeepsNewest
<1>4. Live' = Live /\ \A f \in Starts : Sole(f)' <=> Sole(f)
  BY <1>1 DEF Live, Sole
<1>5. engine[e] # "none"
  BY <1>1 DEF Hearing, NotBegun
<1>6. NotBegun' /\ GroupInStream'
  BY <1>1, <1>2, <1>3, <1>4, <1>5 DEF Hearing, NotBegun, GroupInStream
<1>7. ASSUME NEW f \in Live, Sole(f)
      PROVE  /\ buffer'[f] <= cursor
             /\ listener'[f] = "acking"
             /\ \A i \in held[f] : i <= cursor /\ (stream[i] # 0 => buffer'[f] >= i)
             /\ \A i \in ((origin + 1)..cursor) \ pel : stream[i] # 0 => buffer'[f] >= i
  <2>1. e = f
    BY <1>1, <1>7, ListensAlone
  <2>2. /\ buffer[f] <= cursor
        /\ \A i \in held[f] : i > buffer[f] /\ i <= cursor
        /\ \A i \in ((origin + 1)..cursor) \ pel : stream[i] # 0 => buffer[f] >= i
    BY <1>1, <1>7, <2>1, Known
  <2>3. Newest(e) = {i \in held[f] : stream[i] # 0}
    BY <2>1 DEF Newest
  <2>4. buffer'[f] >= buffer[f] /\ buffer'[f] <= cursor
    BY <1>2, <1>3, <2>1, <2>2, <2>3
  <2>5. \A i \in held[f] : stream[i] # 0 => buffer'[f] >= i
    BY <1>3, <2>1, <2>3
  <2>6. buffer[f] \in Nat /\ buffer'[f] \in Nat
    BY <1>2, <1>3, <2>1
  <2>7. \A i \in ((origin + 1)..cursor) \ pel : stream[i] # 0 => buffer'[f] >= i
    BY <1>2, <2>2, <2>4, <2>6
  <2> QED
    BY <1>1, <1>2, <2>1, <2>2, <2>4, <2>5, <2>7
<1>8. SoleInOrder' /\ SoleEngineHears'
  BY <1>1, <1>4, <1>7 DEF SoleInOrder, SoleEngineHears, Sole
<1> QED
  BY <1>6, <1>8 DEF Hearing

\* What is acknowledged has been processed (XACK).
LEMMA AckIsOfTheProcessed ==
  ASSUME TypeOK, Hearing, NEW e \in Starts, Ack(e) \/ AckFails(e) PROVE Hearing'
<1>1. /\ listener[e] = "acking" /\ listener' = [listener EXCEPT ![e] = "reading"]
      /\ pel' \in {pel, pel \ held[e]}
      /\ UNCHANGED <<start, engine, buffer, stream, origin, cursor>>
  BY DEF Ack, AckFails, Listen, requests, redis
<1>2. listener \in [Starts -> {"off", "reading", "read", "acking"}]
  BY DEF TypeOK
<1>3. Live' = Live /\ \A f \in Starts : Sole(f)' <=> Sole(f)
  BY <1>1 DEF Live, Sole
<1>4. engine[e] # "none"
  BY <1>1 DEF Hearing, NotBegun
<1>5. NotBegun' /\ GroupInStream'
  BY <1>1, <1>2, <1>3, <1>4 DEF Hearing, NotBegun, GroupInStream
<1>6. ASSUME NEW f \in Live, Sole(f)
      PROVE  /\ buffer[f] <= cursor /\ listener'[f] = "reading"
             /\ \A i \in ((origin + 1)..cursor) \ pel' : stream[i] # 0 => buffer[f] >= i
  <2>1. e = f
    BY <1>1, <1>6, ListensAlone
  <2>2. f \in Starts
    BY DEF Live
  <2> QED
    BY <1>1, <1>2, <1>6, <2>1, <2>2, Known
<1>7. SoleInOrder' /\ SoleEngineHears'
  BY <1>1, <1>3, <1>6 DEF SoleInOrder, SoleEngineHears, Sole
<1> QED
  BY <1>5, <1>7 DEF Hearing

\* An engine that begins alone begins where the group is, with nothing given (start).
LEMMA StartHears == ASSUME TypeOK, Hearing, NEW s \in Starts, StartStep(s) PROVE Hearing'
<1> USE EngineAssumption
<1>1. /\ stream \in Seq(Tiers) /\ Len(stream) \in Nat /\ cursor \in 0..MaxEntries
      /\ origin \in -1..MaxEntries
      /\ start \in [Starts -> {"new", "building", "grouping", "started",
                               "already_running", "error", "dropped"}]
      /\ engine \in [Starts -> {"none", "live", "closing", "closed"}]
      /\ listener \in [Starts -> {"off", "reading", "read", "acking"}]
      /\ buffer \in [Starts -> 0..MaxEntries]
  BY DEF TypeOK
<1>2. UNCHANGED <<held, buffer, stream, pel>>
  BY DEF StartStep, AskStart, Build, Run, StartFails, MakeGroup, engines, redis
<1>3. origin # -1 => UNCHANGED <<origin, cursor>>
  BY DEF StartStep, AskStart, Build, Run, StartFails, MakeGroup, redis
<1>4. origin = -1 => \/ UNCHANGED <<origin, cursor>>
                     \/ origin' = Len(stream) /\ cursor' = Len(stream)
  BY DEF StartStep, AskStart, Build, Run, StartFails, MakeGroup, redis
<1>5. NotBegun /\ GroupInStream
  BY DEF Hearing
<1>6. ASSUME UNCHANGED <<engine, listener>>,
             \A u \in Starts : start'[u] \in {"new", "building", "grouping"} =>
                               start[u] \in {"new", "building", "grouping"}
      PROVE  Hearing'
  <2>1. Live' = Live /\ \A f \in Starts : Sole(f)' <=> Sole(f)
    BY <1>6 DEF Live, Sole
  <2>2. NotBegun'
    BY <1>2, <1>5, <1>6 DEF NotBegun
  <2>3. GroupInStream'
    BY <1>1, <1>2, <1>3, <1>4, <1>5, <1>6, <2>1 DEF GroupInStream
  <2>4. ASSUME NEW f \in Live PROVE UNCHANGED <<origin, cursor>>
    BY <1>1, <1>3, <1>5, <2>4 DEF GroupInStream, Live
  <2>5. SoleInOrder' /\ SoleEngineHears'
    BY <1>2, <1>6, <2>1, <2>4 DEF Hearing, SoleInOrder, SoleEngineHears, Sole
  <2> QED
    BY <2>2, <2>3, <2>5 DEF Hearing
<1>7. CASE AskStart(s)
  BY <1>1, <1>6, <1>7 DEF AskStart, SetStart, engines
<1>8. CASE Build(s)
  BY <1>1, <1>6, <1>8 DEF Build, SetStart, engines
<1>9. CASE StartFails(s)
  BY <1>1, <1>6, <1>9 DEF StartFails, SetStart, engines
<1>10. CASE Run(s)
  <2>1. /\ start[s] = "grouping" /\ start' = [start EXCEPT ![s] = "started"]
        /\ engine' = [engine EXCEPT ![s] = "live"]
        /\ listener' = [listener EXCEPT ![s] = "reading"] /\ MakeGroup
    BY <1>10 DEF Run, SetStart
  <2>2. engine[s] = "none" /\ listener[s] = "off" /\ buffer[s] = 0
    BY <1>5, <2>1 DEF NotBegun
  <2>3. NotBegun'
    BY <1>1, <1>2, <1>5, <2>1 DEF NotBegun
  <2>4. origin' >= 0 /\ origin' <= cursor' /\ cursor' <= Len(stream)
    BY <1>1, <1>5, <2>1 DEF GroupInStream, MakeGroup
  <2>5. engine'[s] # "none"
    BY <1>1, <2>1
  <2>6. GroupInStream'
    BY <1>1, <1>2, <2>4, <2>5 DEF GroupInStream
  <2>7. \A f \in Live' : Sole(f)' => f = s /\ \A u \in Starts : engine[u] = "none"
    BY <1>1, <2>1, <2>2, <2>5 DEF Live, Sole
  <2>8. (\A u \in Starts : engine[u] = "none") => origin' = cursor'
    BY <1>1, <1>5, <2>1, <2>4 DEF GroupInStream, MakeGroup
  <2>9. listener'[s] = "reading" /\ buffer'[s] = 0 /\ cursor' \in Nat
    BY <1>1, <1>2, <2>1, <2>2, <2>4 DEF MakeGroup
  <2>10. SoleInOrder' /\ SoleEngineHears'
    BY <2>4, <2>7, <2>8, <2>9 DEF SoleInOrder, SoleEngineHears, Sole
  <2> QED
    BY <2>3, <2>6, <2>10 DEF Hearing
<1> QED
  BY <1>7, <1>8, <1>9, <1>10 DEF StartStep

\* Engines that end take nothing from one that stays (close, lifespan).
LEMMA EndingHears ==
  ASSUME TypeOK, Turns, Begun, Hearing, (\E t \in Stops : StopStep(t)) \/ Restart PROVE Hearing'
<1>1. /\ engine \in [Starts -> {"none", "live", "closing", "closed"}]
      /\ listener \in [Starts -> {"off", "reading", "read", "acking"}]
      /\ start \in [Starts -> {"new", "building", "grouping", "started",
                               "already_running", "error", "dropped"}]
      /\ held \in [Starts -> SUBSET Entries]
  BY DEF TypeOK
<1>2. UNCHANGED <<buffer, stream, origin, cursor, pel>>
  BY DEF StopStep, AskStop, LoopEnds, ListenerEnds, EmptySlot, SecondStopFails, StopFails,
         Restart, redis, engines
<1>3. ASSUME \A e \in Starts : engine'[e] = "none" <=> engine[e] = "none",
             \A e \in Live' : /\ e \in Live
                              /\ listener'[e] = listener[e] /\ held'[e] = held[e],
             \A e \in Starts : listener'[e] \in {"off", listener[e]},
             \A e \in Starts : listener'[e] # "off" => engine'[e] \in {"live", "closing"},
             \A e \in Starts : start'[e] \in {"new", "building", "grouping"} => start'[e] = start[e]
      PROVE  Hearing'
  <2>1. NotBegun'
    BY <1>2, <1>3 DEF Hearing, NotBegun
  <2>2. GroupInStream'
    BY <1>2, <1>3 DEF Hearing, GroupInStream
  <2>3. \A e \in Starts : Sole(e)' => Sole(e)
    BY <1>3 DEF Sole
  <2>4. \A e \in Live' : e \in Starts
    BY DEF Live
  <2>5. SoleInOrder' /\ SoleEngineHears'
    BY <1>2, <1>3, <2>3, <2>4 DEF Hearing, SoleInOrder, SoleEngineHears, Sole
  <2> QED
    BY <2>1, <2>2, <2>5 DEF Hearing
<1>4. \A e \in Starts : listener[e] # "off" => engine[e] \in {"live", "closing"}
  BY DEF Hearing, NotBegun
<1>5. ASSUME NEW t \in Stops, StopStep(t), UNCHANGED <<engine, listener, held>> PROVE Hearing'
  <2>1. UNCHANGED start
    BY <1>5 DEF StopStep, AskStop, LoopEnds, ListenerEnds, EmptySlot, SecondStopFails, StopFails
  <2> QED
    BY <1>3, <1>4, <1>5, <2>1 DEF Live
<1>6. ASSUME NEW t \in Stops, LoopEnds(t) PROVE Hearing'
  <2>1. /\ engine' = [engine EXCEPT ![stop[t].of] = IF @ = "live" THEN "closing" ELSE @]
        /\ UNCHANGED <<start, listener, held>>
    BY <1>6 DEF LoopEnds
  <2>2. /\ \A e \in Starts : engine'[e] = "none" <=> engine[e] = "none"
        /\ Live' \subseteq Live
        /\ \A e \in Starts : engine[e] \in {"live", "closing"} => engine'[e] \in {"live", "closing"}
    BY <1>1, <2>1 DEF Live
  <2> QED
    BY <1>3, <1>4, <2>1, <2>2
<1>7. ASSUME NEW t \in Stops, ListenerEnds(t) PROVE Hearing'
  <2> DEFINE e == stop[t].of
  <2>1. /\ engine' = [engine EXCEPT ![e] = "closed"] /\ listener' = [listener EXCEPT ![e] = "off"]
        /\ held' = [held EXCEPT ![e] = {}] /\ UNCHANGED start /\ e \in Starts
    BY <1>7 DEF ListenerEnds, Turns, StopKnows, StopBusy
  <2>2. engine[e] # "none"
    BY <1>7 DEF Begun, ListenerEnds, StopBusy
  <2> QED
    BY <1>1, <1>3, <1>4, <2>1, <2>2 DEF Live
<1>8. CASE Restart
  <2>1. /\ engine' = [s \in Starts |-> IF engine[s] = "none" THEN "none" ELSE "closed"]
        /\ listener' = [s \in Starts |-> "off"]
        /\ start' = [s \in Starts |-> IF StartBusy(s) THEN "dropped" ELSE start[s]]
    BY <1>8 DEF Restart
  <2>2. Live' = {}
    BY <2>1 DEF Live
  <2> QED
    BY <1>3, <2>1, <2>2
<1> QED
  <2>1. ASSUME NEW t \in Stops, AskStop(t) \/ EmptySlot(t) \/ SecondStopFails(t) \/ StopFails(t)
        PROVE  StopStep(t) /\ UNCHANGED <<engine, listener, held>>
    BY <2>1 DEF StopStep, AskStop, EmptySlot, SecondStopFails, StopFails, engines
  <2> QED
    BY <1>5, <1>6, <1>7, <1>8, <2>1 DEF StopStep

\* The slot and the stops speak of engines that have begun, throughout.
LEMMA BegunHolds == Spec => []Begun
<1> USE EngineAssumption
<1>1. Init => Begun
  BY DEF Init, Begun, StopBusy
<1>2. Turns /\ Begun /\ [Next]_vars => Begun'
  <2> SUFFICES ASSUME Turns, Begun, [Next]_vars PROVE Begun'
    OBVIOUS
  <2>1. /\ engine \in [Starts -> {"none", "live", "closing", "closed"}]
        /\ slot \in Starts \cup {None}
        /\ \A t \in Stops : StopBusy(t) => stop[t].of \in Starts
        /\ stop \in [Stops -> [at : {"new", "loop", "listener", "tail", "stopped",
                                     "failed", "error", "dropped"}, of : Starts \cup {None}]]
    BY DEF Turns, TypeOK, StopKnows
  <2>2. CASE UNCHANGED <<slot, stop, engine>>
    BY <2>2 DEF Begun, StopBusy
  <2>3. CASE (\E e \in Starts : ListenerStep(e)) \/ \E x \in Tiers : Cascade(x)
    BY <2>2, <2>3, ListeningIsTyped DEF Turns
  <2>4. ASSUME NEW s \in Starts, StartStep(s) PROVE Begun'
    <3>1. CASE Run(s)
      <4>1. slot' = s /\ engine' = [engine EXCEPT ![s] = "live"] /\ UNCHANGED stop
        BY <3>1 DEF Run
      <4> QED
        BY <2>1, <4>1 DEF Begun, StopBusy
    <3>2. CASE ~Run(s)
      BY <2>2, <2>4, <3>2 DEF StartStep, AskStart, Build, StartFails, engines
    <3> QED
      BY <3>1, <3>2
  <2>5. ASSUME NEW t \in Stops, StopStep(t) PROVE Begun'
    <3>1. \A e \in Starts : engine[e] # "none" => engine'[e] # "none"
      <4>1. \/ UNCHANGED engine
            \/ engine' = [engine EXCEPT ![stop[t].of] = IF @ = "live" THEN "closing" ELSE @]
            \/ engine' = [engine EXCEPT ![stop[t].of] = "closed"]
        BY <2>5 DEF StopStep, AskStop, LoopEnds, ListenerEnds, EmptySlot, SecondStopFails,
                    StopFails, engines
      <4> QED
        BY <2>1, <4>1
    <3>2. slot' \in {slot, None}
      BY <2>5 DEF StopStep, AskStop, LoopEnds, ListenerEnds, EmptySlot, SecondStopFails, StopFails
    <3>3. ASSUME NEW v \in Stops, StopBusy(v)'
          PROVE  stop'[v].of \in Starts /\ engine[stop'[v].of] # "none"
      <4>1. CASE AskStop(t)
        <5> DEFINE r == [at |-> IF slot = None THEN "stopped" ELSE "loop", of |-> slot]
        <5>1. stop' = [stop EXCEPT ![t] = r]
          BY <4>1 DEF AskStop
        <5>2. r.of = slot /\ (r.at \in {"loop", "listener", "tail"} => slot # None)
          OBVIOUS
        <5> HIDE DEF r
        <5>3. CASE v = t
          BY <2>1, <3>3, <5>1, <5>2, <5>3 DEF Begun, StopBusy
        <5>4. CASE v # t
          BY <2>1, <3>3, <5>1, <5>4 DEF Begun, StopBusy
        <5> QED
          BY <5>3, <5>4
      <4>2. CASE ~AskStop(t)
        <5>1. PICK at \in {"listener", "tail", "stopped", "error", "failed"} : SetStop(t, at)
          BY <2>5, <4>2 DEF StopStep, LoopEnds, ListenerEnds, EmptySlot, SecondStopFails, StopFails
        <5>2. stop'[v].of = stop[v].of /\ (v # t => stop'[v].at = stop[v].at)
          BY <2>1, <5>1 DEF SetStop
        <5>3. at \in {"listener", "tail"} => StopBusy(t)
          BY <2>1, <2>5, <4>2, <5>1 DEF StopStep, LoopEnds, ListenerEnds, EmptySlot,
                                       SecondStopFails, StopFails, StopBusy, SetStop
        <5>4. v = t => stop'[v].at = at
          BY <2>1, <5>1 DEF SetStop
        <5>5. StopBusy(v)
          BY <3>3, <5>2, <5>3, <5>4 DEF StopBusy
        <5> QED
          BY <2>1, <5>2, <5>5 DEF Begun
      <4> QED
        BY <4>1, <4>2
    <3> QED
      BY <2>1, <3>1, <3>2, <3>3 DEF Begun
  <2>6. CASE Restart
    <3>1. slot' = None /\ \A t \in Stops : ~StopBusy(t)'
      BY <2>1, <2>6 DEF Restart, StopBusy
    <3> QED
      BY <3>1 DEF Begun
  <2> QED
    BY <2>2, <2>3, <2>4, <2>5, <2>6 DEF Next, vars, requests, engines
<1> QED
  BY <1>1, <1>2, TurnsHold, PTL DEF Spec

\* What is heard is in order, throughout.
LEMMA HearingHolds == Spec => []Hearing
<1>1. Init => Hearing
  <2> SUFFICES ASSUME Init PROVE Hearing
    OBVIOUS
  <2>1. Live = {} /\ stream = <<>> /\ Len(stream) = 0
    BY DEF Init, Live
  <2>2. NotBegun /\ GroupInStream
    BY <2>1 DEF Init, NotBegun, GroupInStream
  <2> QED
    BY <2>1, <2>2 DEF Hearing, SoleInOrder, SoleEngineHears
<1>2. Turns /\ Begun /\ Hearing /\ [Next]_vars => Hearing'
  <2> SUFFICES ASSUME Turns, Begun, Hearing, [Next]_vars PROVE Hearing'
    OBVIOUS
  <2>1. TypeOK
    BY DEF Turns
  <2>2. CASE UNCHANGED vars
    BY <2>2 DEF vars, requests, engines, redis, Hearing, NotBegun, GroupInStream, SoleInOrder,
                SoleEngineHears, Sole, Live
  <2>3. ASSUME NEW e \in Starts, ListenerStep(e) PROVE Hearing'
    BY <2>1, <2>3, ReadIsNewer, ProcessIsInOrder, AckIsOfTheProcessed DEF ListenerStep
  <2> QED
    BY <2>1, <2>2, <2>3, StartHears, EndingHears, CascadeIsLater DEF Next
<1> QED
  BY <1>1, <1>2, TurnsHold, BegunHolds, PTL DEF Spec

\* An engine alone has buffered the newest of what it acknowledged, however reads
\* and acknowledgements fail (_process, RedisStreamBus.consume).
THEOREM AloneItHears == Spec => []SoleEngineHears
  BY HearingHolds, PTL DEF Hearing

=============================================================================
