---------------------------- MODULE Reconciler ----------------------------
(***************************************************************************)
(* The position reconciliation loop, prometheus/reconciliation/            *)
(* reconciler.py: every minute it compares three ledgers of the open       *)
(* positions -- the exchange, PostgreSQL and the Redis mirror -- and the   *)
(* stop ladder, and halts trading on critical discrepancies.  The ledgers  *)
(* are read one after the other while trading goes on and a StopLadder is  *)
(* placed by the same process through the same Bitget client.              *)
(***************************************************************************)
EXTENDS StopLadder, FiniteSets

CONSTANTS
  Assets,       \* traded assets
  Persistence,  \* PHANTOM_PERSISTENCE_RUNS
  MaxEvents     \* bound: what the market, the trading engine and operators do

ASSUME PersistenceAssumption == Persistence \in Nat \ {0}
ASSUME BoundAssumption == MaxEvents \in Nat

VARIABLES
  exchange,   \* Bitget: the position on every asset
  ledger,     \* PostgreSQL: side of the open oms_open_positions row
  mirror,     \* Redis: positions:open and position:<asset>:state
  entry,      \* Bitget: an ordinary order is pending
  announced,  \* the last event on prometheus:system_halt is a HALT
  haltKey,    \* Redis: prometheus:trading_halted
  missed,     \* PostgreSQL: the newest reconciliation report lists a missing stop
  tracker,    \* _phantom_tracker
  pc,         \* where the pass is
  oms, seen,  \* what this pass has read of the ledger and of the exchange
  stops,      \* placed tiers this pass has read
  found,      \* discrepancies of this pass
  sightings,  \* history: phantoms of the last pass of this process that looked
  blinded,    \* history: a read of the mirror has failed
  events

market  == <<exchange, ledger, mirror, entry>>
world   == <<market, ladder>>
outputs == <<announced, haltKey, missed>>
locals  == <<oms, seen, stops, found>>
history == <<sightings, blinded>>
budget  == <<events, client>>
vars    == <<world, outputs, tracker, pc, locals, history, budget>>

-----------------------------------------------------------------------------
Sides     == {"long", "short"}
Margins   == {"isolated", "crossed"}
None      == [side |-> "none", margin |-> "none"]
Positions == [side : Sides, margin : Margins]
NoRow     == "none"
Unlabeled == "unlabeled"      \* listed in positions:open without a state key

\* The discrepancies something depends on.  The others (a position missing on the
\* exchange, a size divergence, a phantom seen once) are lines of the report.
Kinds    == {"side", "margin", "persistent", "mirror", "stop"}
Critical == {"side", "margin", "persistent", "mirror"}

Flat    == [a \in Assets |-> None]
NoRows  == [a \in Assets |-> NoRow]
Open(l) == {a \in Assets : l[a] # NoRow}
Held(x) == {a \in Assets : x[a] # None}

Steps == {"sleep", "plan", "orders", "load", "rows", "positions", "mirror", "sides",
          "compare", "stops", "stopOrders", "announce", "persist", "report"}

TypeOK ==
  /\ exchange \in [Assets -> Positions \cup {None}]
  /\ ledger \in [Assets -> Sides \cup {NoRow}]
  /\ mirror \in [Assets -> Sides \cup {NoRow, Unlabeled}]
  /\ LadderTypes /\ stops \subseteq Tiers
  /\ entry \in BOOLEAN /\ announced \in BOOLEAN /\ haltKey \in BOOLEAN
  /\ missed \in BOOLEAN /\ found \subseteq Kinds
  /\ tracker \in [Assets -> 0..Persistence]
  /\ pc \in Steps
  /\ oms \in [Assets -> Sides \cup {NoRow}]
  /\ seen \in [Assets -> Positions \cup {None}]
  /\ sightings \subseteq Assets
  /\ blinded \in BOOLEAN
  /\ events \in 0..MaxEvents

Init ==
  /\ exchange \in [Assets -> Positions \cup {None}]
  /\ ledger \in [Assets -> Sides \cup {NoRow}]
  /\ mirror \in [Assets -> Sides \cup {NoRow, Unlabeled}]
  /\ LadderInit /\ entry \in BOOLEAN
  /\ announced = FALSE /\ haltKey = FALSE /\ missed = FALSE
  /\ tracker = [a \in Assets |-> 0]
  /\ pc = "sleep"
  /\ oms = NoRows /\ seen = Flat /\ stops = {} /\ found = {}
  /\ sightings = {} /\ blinded = FALSE
  /\ events = 0

\* A Bitget read that is refused comes back as an empty answer: once for an error
\* code, for ever after a rate limit.
Answer(got, truth, empty) ==
  \/ ~limited /\ got = truth /\ UNCHANGED client
  \/ ~limited /\ got = empty /\ (Fault \/ RateLimit)
  \/ limited /\ got = empty /\ UNCHANGED client

\* A read of the mirror that fails is an empty answer too.
MirrorAnswer(got, truth, empty) ==
  \/ got = truth /\ UNCHANGED client
  \/ got = empty /\ Fault

-----------------------------------------------------------------------------
(* One run: reconcile_once, then _persist_report *)

\* The run is over, and its locals with it.
Sleep ==
  /\ pc' = "sleep"
  /\ oms' = NoRows /\ seen' = Flat /\ stops' = {} /\ found' = {}

Wake ==
  /\ pc = "sleep"
  /\ pc' = "plan"
  /\ UNCHANGED <<world, outputs, tracker, locals, history, budget>>

\* _maybe_skip_cooldown: an empty report, and nothing is compared.
Skip == pc' = "report"

\* _has_inflight_orders: plan orders first, ordinary orders second; any order
\* of either sort ends the run.
ListPlanOrders ==
  /\ pc = "plan"
  /\ \E got \in {resting, {}} :
       /\ Answer(got, resting, {})
       /\ \/ got # {} /\ Skip
          \/ got = {} /\ pc' = "orders"
  /\ UNCHANGED <<world, outputs, tracker, locals, history, events>>

ListOpenOrders ==
  /\ pc = "orders"
  /\ \E got \in BOOLEAN :
       /\ Answer(got, entry, FALSE)
       /\ \/ got /\ Skip
          \/ ~got /\ pc' = "load"
  /\ UNCHANGED <<world, outputs, tracker, locals, history, events>>

\* asyncio.gather: the ledger and the exchange are read in either order.
\* "rows" and "positions" name the read that is still to come.
LoadOmsPositions ==
  /\ pc \in {"load", "rows"}
  /\ oms' = ledger
  /\ pc' = IF pc = "load" THEN "positions" ELSE "mirror"
  /\ UNCHANGED <<world, outputs, tracker, seen, stops, found, history, budget>>

ListOpenPositions ==
  /\ pc \in {"load", "positions"}
  /\ \E got \in {exchange, Flat} :
       Answer(got, exchange, Flat) /\ seen' = got
  /\ pc' = IF pc = "load" THEN "rows" ELSE "mirror"
  /\ UNCHANGED <<world, outputs, tracker, oms, stops, found, history, events>>

\* _redis_open_symbols: a failed read is an empty list.
ReadOpenSymbols ==
  /\ pc = "mirror"
  /\ \E got \in {Open(mirror), {}} :
       /\ MirrorAnswer(got, Open(mirror), {})
       /\ blinded' = (blinded \/ failures' > failures)
       /\ found' = IF Open(oms) = got THEN found ELSE found \cup {"mirror"}
       /\ pc' = IF Open(oms) = got /\ got # {} THEN "sides" ELSE "compare"
  /\ UNCHANGED <<world, outputs, tracker, oms, seen, stops, sightings, events>>

\* _redis_position_sides: a failed read, or no state key, decides nothing.
ReadSides ==
  /\ pc = "sides"
  /\ \E got \in {mirror, NoRows} :
       /\ MirrorAnswer(got, mirror, NoRows)
       /\ found' = IF \E a \in Open(oms) : got[a] \in Sides /\ got[a] # oms[a]
                     THEN found \cup {"mirror"} ELSE found
  /\ pc' = "compare"
  /\ UNCHANGED <<world, outputs, tracker, oms, seen, stops, history, events>>

\* Mutation: a position the exchange does not answer for is critical.
PositionChecks_MissingHalts(a) ==
  IF seen[a] = None THEN {"side"}
  ELSE (IF seen[a].margin = "isolated" THEN {} ELSE {"margin"})
         \cup (IF seen[a].side = oms[a] THEN {} ELSE {"side"})

\* _compare_oms_to_bitget for one row: _missing_position, _check_margin_mode and
\* _check_side.
PositionChecks(a) ==
  IF seen[a] = None THEN {}
  ELSE (IF seen[a].margin = "isolated" THEN {} ELSE {"margin"})
         \cup (IF seen[a].side = oms[a] THEN {} ELSE {"side"})

Phantoms == Held(seen) \ Open(oms)

\* Mutation: _clear_resolved_phantoms is not called.
Tracked_NotCleared ==
  [a \in Assets |-> IF a \in Phantoms /\ tracker[a] < Persistence
                      THEN tracker[a] + 1 ELSE tracker[a]]

\* Mutation: a sighting sets the counter instead of raising it.
Tracked_Set == [a \in Assets |-> IF a \in Phantoms THEN 1 ELSE 0]

\* Mutation: a resolved phantom lowers the counter instead of dropping it.
Tracked_Lowered ==
  [a \in Assets |-> IF a \in Phantoms THEN Persistence ELSE tracker[a] - 1]

\* _track_phantom and _clear_resolved_phantoms.  The counter is only compared with
\* PHANTOM_PERSISTENCE_RUNS: it stops there.
Tracked ==
  [a \in Assets |-> IF a \in Phantoms
                      THEN IF tracker[a] < Persistence THEN tracker[a] + 1 ELSE tracker[a]
                      ELSE 0]

\* What was read of the positions is not used after this.
Compare ==
  /\ pc = "compare"
  /\ tracker' = Tracked
  /\ found' = found \cup (UNION {PositionChecks(a) : a \in Open(oms)})
                    \cup {"persistent" : a \in {b \in Phantoms : tracker'[b] >= Persistence}}
  /\ sightings' = Phantoms
  /\ oms' = NoRows /\ seen' = Flat
  /\ pc' = "stops"
  /\ UNCHANGED <<world, outputs, stops, blinded, budget>>

\* halt_needed
Verdict(kinds) == IF kinds \cap Critical # {} THEN "announce" ELSE "report"

LoadPlacedStops ==
  /\ pc = "stops"
  /\ stops' = Placed
  /\ pc' = IF Placed = {} THEN Verdict(found) ELSE "stopOrders"
  /\ UNCHANGED <<world, outputs, tracker, oms, seen, found, history, budget>>

\* Mutation: the tiers are not compared with the orders.
MissingStops_None(got) == {}

MissingStops(got) == stops \ got

\* _check_stops
CheckStops ==
  /\ pc = "stopOrders"
  /\ \E got \in {resting, {}} :
       /\ Answer(got, resting, {})
       /\ found' = IF MissingStops(got) = {} THEN found ELSE found \cup {"stop"}
  /\ pc' = Verdict(found)
  /\ UNCHANGED <<world, outputs, tracker, oms, seen, stops, history, events>>

\* _publish_halt: the event first, the key second.
Announce ==
  /\ pc = "announce"
  /\ announced' = TRUE
  /\ pc' = "persist"
  /\ UNCHANGED <<world, haltKey, missed, tracker, locals, history, budget>>

PersistHalt ==
  /\ pc = "persist"
  /\ haltKey' = TRUE
  /\ pc' = "report"
  /\ UNCHANGED <<world, announced, missed, tracker, locals, history, budget>>

PersistReport ==
  /\ pc = "report"
  /\ missed' = ("stop" \in found)
  /\ Sleep
  /\ UNCHANGED <<world, announced, haltKey, tracker, history, budget>>

\* A call raises (PostgreSQL, a Bitget connection, Redis while publishing):
\* run_forever logs it and sleeps.  Reads of the mirror are caught where they are.
RunFails ==
  /\ pc \notin {"sleep", "mirror", "sides"}
  /\ Fault
  /\ Sleep
  /\ UNCHANGED <<world, outputs, tracker, history, events>>

\* The process restarts: _phantom_tracker, the breakers and a ladder half placed
\* are in memory.
Restart ==
  /\ Fail /\ limited' = FALSE
  /\ tracker' = [a \in Assets |-> 0]
  /\ sightings' = {}
  /\ Sleep
  /\ IF place.at \in Placing THEN Over ELSE UNCHANGED place
  /\ UNCHANGED <<market, rows, orders, outputs, blinded, events>>

-----------------------------------------------------------------------------
(* The rest of the system, outside src/: the exchange, the writers of the two *)
(* ledgers, and an operator's resume                                          *)

Happen == events < MaxEvents /\ events' = events + 1
Idle   == UNCHANGED <<missed, tracker, pc, locals, history>>

Fill(a) ==
  /\ Happen
  /\ \E p \in Positions \cup {None} : p # exchange[a] /\ exchange' = [exchange EXCEPT ![a] = p]
  /\ UNCHANGED <<ledger, mirror, ladder, client, entry, announced, haltKey>> /\ Idle

CommitLedger(a) ==
  /\ Happen
  /\ ledger[a] # exchange[a].side
  /\ ledger' = [ledger EXCEPT ![a] = exchange[a].side]
  /\ UNCHANGED <<exchange, mirror, ladder, client, entry, announced, haltKey>> /\ Idle

CommitMirror(a) ==
  /\ Happen
  /\ mirror[a] # ledger[a]
  /\ mirror' = [mirror EXCEPT ![a] = ledger[a]]
  /\ UNCHANGED <<exchange, ledger, ladder, client, entry, announced, haltKey>> /\ Idle

ToggleEntry ==
  /\ Happen
  /\ entry' = ~entry
  /\ UNCHANGED <<exchange, ledger, mirror, ladder, client, announced, haltKey>> /\ Idle

Resume ==
  /\ Happen
  /\ haltKey /\ haltKey' = FALSE /\ announced' = FALSE
  /\ UNCHANGED <<world, client>> /\ Idle

\* The ladder is placed, cancelled and triggered meanwhile.
Ladder ==
  /\ \/ PlaceAll /\ UNCHANGED events
     \/ Leave /\ Happen
  /\ UNCHANGED <<market, announced, haltKey>> /\ Idle

Environment ==
  \/ \E a \in Assets : Fill(a) \/ CommitLedger(a) \/ CommitMirror(a)
  \/ ToggleEntry
  \/ Resume

Run ==
  \/ Wake
  \/ ListPlanOrders
  \/ ListOpenOrders
  \/ LoadOmsPositions
  \/ ListOpenPositions
  \/ ReadOpenSymbols
  \/ ReadSides
  \/ Compare
  \/ LoadPlacedStops
  \/ CheckStops
  \/ Announce
  \/ PersistHalt
  \/ PersistReport

Next == Run \/ RunFails \/ Restart \/ Ladder \/ Environment

Spec == Init /\ [][Next]_vars

\* The loop never stops sleeping and running; nothing obliges the rest.
FairSpec == Spec /\ WF_vars(Run)

-----------------------------------------------------------------------------
(* Properties *)

Consistent ==
  /\ \A a \in Assets : exchange[a].side = ledger[a]
  /\ \A a \in Assets : ledger[a] = mirror[a]
  /\ \A a \in Assets : exchange[a].margin # "crossed"

\* No order of any sort is open: the loop is not in cooldown.
Quiet == resting = {} /\ ~entry

\* The exchange contradicts the ledger in a way that must halt trading.
Contradicted ==
  \E a \in Held(exchange) : \/ ledger[a] # exchange[a].side
                            \/ exchange[a].margin = "crossed"

\* A position unknown to the ledger halts only after the previous pass that
\* looked at the positions saw it too: a restart, a resolved phantom or another
\* asset's phantom starts the count again (_track_phantom).
PersistenceRespected ==
  [][\A a \in Assets :
       pc = "compare" /\ tracker'[a] >= Persistence /\ Persistence > 1
         => a \in sightings]_vars

\* Refused or failed calls to the exchange and restarts cannot halt a system
\* whose three ledgers agree (_compare_oms_to_bitget reads an outage as "no
\* positions").
OutageNeverHalts == events = 0 /\ Consistent /\ ~blinded => ~announced /\ ~haltKey

\* What lasts while no order is open comes to light, whatever failed before: a
\* contradiction in a halt that stays, however often it is resumed, as long as the
\* exchange answers; a placed stop that is not there in the report (run_forever).
LastingFaultsSurface ==
  /\ <>[](Contradicted /\ Quiet /\ ~limited) => <>[]haltKey
  /\ <>[](Placed # {} /\ Quiet) => <>missed

\* No false alarm while a ladder is placed under the eyes of the pass: a stop is
\* reported missing only if one has left the exchange, or some call has failed
\* (the row follows the order in place_all, the orders are read after the rows in
\* _check_stops).
StopAlarmIsReal == missed \/ "stop" \in found => left # {} \/ failures > 0

\* docs: a side mismatch cannot be transient, so that it may halt at once: when
\* the halt is announced, the ledgers do disagree (_check_side).
SideMismatchIsReal ==
  [][pc = "announce" /\ announced' /\ found \cap Critical = {"side"}
       => \E a \in Assets : exchange[a].side # ledger[a]]_vars

\* docstring of _check_stops: verify placed tiers still exist on the exchange; a
\* tier that is gone for good is reported, whatever the other tiers do.
MissingStopIsReported == <>[](Placed \ resting # {} /\ ~entry) => <>missed

=============================================================================
