-------------------------- MODULE ReconcilerProofs --------------------------
(***************************************************************************)
(* Reconciler and the StopLadder under its eyes for every set of assets,   *)
(* any number of tiers, every persistence threshold and any number of      *)
(* events and failures.                                                    *)
(***************************************************************************)
EXTENDS Reconciler, TLAPS

Codes == Sides \cup {NoRow}

\* What the three ledgers and the pass hold, without the outputs.
WorldTyped ==
  /\ exchange \in [Assets -> Positions \cup {None}]
  /\ ledger \in [Assets -> Codes]
  /\ mirror \in [Assets -> Codes \cup {Unlabeled}]
  /\ entry \in BOOLEAN

PassTyped ==
  /\ oms \in [Assets -> Codes]
  /\ seen \in [Assets -> Positions \cup {None}]
  /\ stops \subseteq Tiers /\ found \subseteq Kinds
  /\ tracker \in [Assets -> 0..Persistence]
  /\ pc \in Steps

RestTyped ==
  /\ announced \in BOOLEAN /\ haltKey \in BOOLEAN
  /\ missed \in BOOLEAN
  /\ sightings \subseteq Assets /\ blinded \in BOOLEAN
  /\ events \in 0..MaxEvents

LEMMA TypeParts == TypeOK <=> WorldTyped /\ LadderTypes /\ PassTyped /\ RestTyped
  BY DEF TypeOK, WorldTyped, PassTyped, RestTyped, Codes

-----------------------------------------------------------------------------
(* Types                                                                   *)

LEMMA FlatIsTyped == Flat \in [Assets -> Positions \cup {None}] /\ NoRows \in [Assets -> Codes]
  BY DEF Flat, NoRows, Codes, NoRow

LEMMA SidesOfPositions == \A p \in Positions \cup {None} : p.side \in Codes
  BY DEF Positions, None, Codes, NoRow

\* What the client may do in a step: nothing, a failure, a rate limit, a restart.
ClientStep == UNCHANGED client \/ Fault \/ RateLimit \/ (Fail /\ limited' = FALSE)

LEMMA ClientIsTyped ==
  ASSUME failures \in 0..MaxFailures, limited \in BOOLEAN, ClientStep
  PROVE  /\ failures' \in 0..MaxFailures /\ limited' \in BOOLEAN
         /\ failures' = 0 => failures = 0 /\ (UNCHANGED client)
<1>1. MaxFailures \in Nat
  BY LadderAssumption
<1>2. CASE UNCHANGED client
  BY <1>2 DEF client
<1>3. CASE Fail
  <2>1. failures' \in 0..MaxFailures /\ failures' # 0
    BY <1>1, <1>3 DEF Fail
  <2>2. limited' = limited \/ limited' = TRUE \/ limited' = FALSE
    BY DEF ClientStep, client, Fault, RateLimit
  <2>3. limited' \in BOOLEAN
    BY <2>2
  <2> QED
    BY <2>1, <2>3
<1> QED
  BY <1>2, <1>3 DEF ClientStep, Fault, RateLimit

LEMMA AnswerIsClientStep ==
  ASSUME NEW got, NEW truth, NEW empty, Answer(got, truth, empty) \/ MirrorAnswer(got, truth, empty)
  PROVE  ClientStep
  BY DEF Answer, MirrorAnswer, ClientStep

LEMMA PlacedAreTiers == Placed \subseteq Tiers
  BY DEF Placed

LEMMA TrackedIsTyped == ASSUME PassTyped PROVE Tracked \in [Assets -> 0..Persistence]
<1>1. Persistence \in Nat \ {0}
  BY PersistenceAssumption
<1>2. \A a \in Assets : tracker[a] \in 0..Persistence
  BY DEF PassTyped
<1> QED
  BY <1>1, <1>2 DEF Tracked

LEMMA KindsFound == \A a \in Assets : PositionChecks(a) \subseteq Kinds
  BY DEF PositionChecks, Kinds

LEMMA InitTyped == Init => TypeOK
<1> SUFFICES ASSUME Init PROVE WorldTyped /\ LadderTypes /\ PassTyped /\ RestTyped
  BY TypeParts
<1>1. WorldTyped
  <2>1. Sides \cup {NoRow, Unlabeled} = Codes \cup {Unlabeled}
    BY DEF Codes
  <2>2. Sides \cup {NoRow} = Codes
    BY DEF Codes
  <2> QED
    BY <2>1, <2>2 DEF Init, WorldTyped
<1>2. PassTyped
  <2>1. tracker \in [Assets -> 0..Persistence]
    BY PersistenceAssumption DEF Init
  <2> QED
    BY <2>1, FlatIsTyped DEF Init, PassTyped, Steps
<1>3. RestTyped
  <2>1. events \in 0..MaxEvents
    BY BoundAssumption DEF Init
  <2>2. /\ announced \in BOOLEAN /\ haltKey \in BOOLEAN /\ blinded \in BOOLEAN
        /\ missed \in BOOLEAN /\ sightings \subseteq Assets
    BY DEF Init
  <2> QED
    BY <2>1, <2>2 DEF RestTyped
<1>4. LadderTypes
  <2>1. 0 \in 0..MaxFailures /\ 1 \in Tiers
    BY LadderAssumption DEF Tiers
  <2> QED
    BY <2>1 DEF Init, LadderInit, LadderTypes, Placing
<1> QED
  BY <1>1, <1>2, <1>3, <1>4

\* The ledgers change with the world only, and keep their types (Fill, CommitLedger,
\* CommitMirror, ToggleEntry).
LEMMA WorldKeepsTypes == ASSUME WorldTyped, [Next]_vars PROVE WorldTyped'
<1>1. CASE Run \/ RunFails \/ Restart \/ Ladder \/ Resume \/ UNCHANGED vars
  <2>1. UNCHANGED market
    BY <1>1 DEF Run, RunFails, Restart, Ladder, Resume, vars, world, Wake, ListPlanOrders,
       ListOpenOrders, LoadOmsPositions, ListOpenPositions, ReadOpenSymbols, ReadSides, Compare,
       LoadPlacedStops, CheckStops, Announce, PersistHalt, PersistReport
  <2> QED
    BY <2>1 DEF market, WorldTyped
<1>2. ASSUME NEW a \in Assets, Fill(a) PROVE WorldTyped'
  BY <1>2 DEF Fill, WorldTyped
<1>3. ASSUME NEW a \in Assets, CommitLedger(a) PROVE WorldTyped'
  <2>1. exchange[a].side \in Codes
    BY SidesOfPositions DEF WorldTyped
  <2> QED
    BY <1>3, <2>1 DEF CommitLedger, WorldTyped
<1>4. ASSUME NEW a \in Assets, CommitMirror(a) PROVE WorldTyped'
  BY <1>4 DEF CommitMirror, WorldTyped
<1>5. CASE ToggleEntry
  BY <1>5 DEF ToggleEntry, WorldTyped
<1> QED
  BY <1>1, <1>2, <1>3, <1>4, <1>5 DEF Next, Environment

\* Every step is one of the client's, and the steps of a pass leave the ladder alone
\* (_signed_get, _signed_post).
LEMMA NextIsClientStep ==
  ASSUME [Next]_vars
  PROVE  ClientStep /\ (UNCHANGED ladder \/ Ladder \/ Restart)
<1>1. CASE ListPlanOrders \/ ListOpenOrders \/ ListOpenPositions \/ ReadOpenSymbols
           \/ ReadSides \/ CheckStops
  <2>1. UNCHANGED world
    BY <1>1 DEF ListPlanOrders, ListOpenOrders, ListOpenPositions, ReadOpenSymbols, ReadSides,
       CheckStops
  <2>2. ClientStep
    BY <1>1, AnswerIsClientStep DEF ListPlanOrders, ListOpenOrders, ListOpenPositions,
       ReadOpenSymbols, ReadSides, CheckStops
  <2> QED
    BY <2>1, <2>2 DEF world
<1>2. CASE Wake \/ LoadOmsPositions \/ Compare \/ LoadPlacedStops \/ Announce
           \/ PersistHalt \/ PersistReport \/ UNCHANGED vars
  BY <1>2 DEF Wake, LoadOmsPositions, Compare, LoadPlacedStops, Announce, PersistHalt,
     PersistReport, vars, world, budget, ClientStep
<1>3. CASE RunFails
  BY <1>3 DEF RunFails, world, ClientStep
<1>4. CASE Restart
  BY <1>4 DEF Restart, ClientStep
<1>5. CASE Ladder
  <2>1. ClientStep
    BY <1>5 DEF Ladder, PlaceAll, Leave, ConvertSize, Submit, Accepted, AnswerLost, Refused,
       Persist, CancelTier, TriggerStop, ClientStep
  <2> QED
    BY <1>5, <2>1
<1>6. CASE Environment
  BY <1>6 DEF Environment, Fill, CommitLedger, CommitMirror, ToggleEntry, Resume, world,
     ClientStep
<1> QED
  BY <1>1, <1>2, <1>3, <1>4, <1>5, <1>6 DEF Next, Run

\* A tier that exists is at hand, and its row and order are of the ladder (place_all).
LEMMA LadderKeepsTypes == ASSUME LadderTypes, [Next]_vars PROVE LadderTypes'
<1>1. failures' \in 0..MaxFailures /\ limited' \in BOOLEAN
  BY NextIsClientStep, ClientIsTyped DEF LadderTypes
<1>2. place.tier \in Tiers /\ 1 \in Tiers /\ (place.tier < TierCount => place.tier + 1 \in Tiers)
  BY LadderAssumption DEF LadderTypes, Tiers
<1>3. CASE UNCHANGED ladder
  BY <1>1, <1>3 DEF ladder, orders, LadderTypes
<1>4. CASE Restart
  BY <1>1, <1>2, <1>4 DEF Restart, Over, Go, orders, LadderTypes
<1>5. CASE ConvertSize \/ Submit
  BY <1>1, <1>2, <1>5 DEF ConvertSize, Submit, Accepted, AnswerLost, Refused, Over, Go, orders,
     LadderTypes, Placing
<1>6. CASE Persist
  <2>1. /\ place.at = "persist" /\ UNCHANGED <<resting, left>>
        /\ rows' \in {rows, [rows EXCEPT ![place.tier] = place.status]}
        /\ \/ place' = [at |-> "over", tier |-> 1, status |-> "pending"]
           \/ /\ place.tier < TierCount
              /\ place' = [at |-> "size", tier |-> place.tier + 1, status |-> "pending"]
    BY <1>6 DEF Persist, Over, Go, orders
  <2>2. PICK r \in {rows, [rows EXCEPT ![place.tier] = place.status]} : rows' = r
    BY <2>1
  <2>3. rows' \in [Tiers -> {"none", "placed", "failed"}]
    BY <2>1, <2>2 DEF LadderTypes
  <2>4. place' \in [at : {"over"} \cup Placing, tier : Tiers,
                    status : {"pending", "placed", "failed"}]
    BY <1>2, <2>1 DEF Placing
  <2> QED
    BY <1>1, <2>1, <2>3, <2>4 DEF LadderTypes
<1>7. CASE Leave
  BY <1>1, <1>7 DEF Leave, CancelTier, TriggerStop, orders, LadderTypes
<1> QED
  BY <1>3, <1>4, <1>5, <1>6, <1>7, NextIsClientStep DEF Ladder, PlaceAll

LEMMA ReadsKeepPass ==
  ASSUME WorldTyped, PassTyped,
         \/ Wake \/ ListPlanOrders \/ ListOpenOrders \/ LoadOmsPositions \/ ListOpenPositions
         \/ ReadOpenSymbols \/ ReadSides
  PROVE  PassTyped'
<1>1. CASE Wake
  BY <1>1 DEF Wake, locals, PassTyped, Steps
<1>2. CASE ListPlanOrders \/ ListOpenOrders
  BY <1>2 DEF ListPlanOrders, ListOpenOrders, Skip, locals, PassTyped, Steps
<1>3. CASE LoadOmsPositions
  BY <1>3 DEF LoadOmsPositions, WorldTyped, PassTyped, Steps
<1>4. CASE ListOpenPositions
  <2>1. seen' \in {exchange, Flat}
    BY <1>4 DEF ListOpenPositions
  <2> QED
    BY <1>4, <2>1, FlatIsTyped DEF ListOpenPositions, WorldTyped, PassTyped, Steps
<1>5. CASE ReadOpenSymbols
  BY <1>5 DEF ReadOpenSymbols, PassTyped, Steps, Kinds
<1>6. CASE ReadSides
  BY <1>6 DEF ReadSides, PassTyped, Steps, Kinds
<1> QED
  BY <1>1, <1>2, <1>3, <1>4, <1>5, <1>6

LEMMA ChecksKeepPass ==
  ASSUME WorldTyped, PassTyped,
         \/ Compare \/ LoadPlacedStops \/ CheckStops \/ Announce \/ PersistHalt
         \/ PersistReport \/ RunFails \/ Restart
  PROVE  PassTyped'
<1>1. CASE Compare
  <2>1. found' = found \cup (UNION {PositionChecks(a) : a \in Open(oms)})
                    \cup {"persistent" : a \in {b \in Phantoms : tracker'[b] >= Persistence}}
    BY <1>1 DEF Compare
  <2>2. \A k \in found' : \/ k \in found \cup {"persistent"}
                          \/ \E a \in Open(oms) : k \in PositionChecks(a)
    BY <2>1
  <2>3. \A a \in Open(oms) : PositionChecks(a) \subseteq Kinds
    BY KindsFound DEF Open
  <2>5. found' \subseteq Kinds
    BY <2>2, <2>3 DEF PassTyped, Kinds
  <2>4. tracker' \in [Assets -> 0..Persistence]
    BY <1>1, TrackedIsTyped DEF Compare
  <2> QED
    BY <1>1, <2>4, <2>5, FlatIsTyped DEF Compare, PassTyped, Steps
<1>2. CASE LoadPlacedStops
  BY <1>2, PlacedAreTiers DEF LoadPlacedStops, Verdict, PassTyped, Steps
<1>3. CASE CheckStops
  BY <1>3 DEF CheckStops, Verdict, PassTyped, Steps, Kinds
<1>4. CASE Announce \/ PersistHalt
  BY <1>4 DEF Announce, PersistHalt, locals, PassTyped, Steps
<1>5. CASE PersistReport \/ RunFails \/ Restart
  <2>1. tracker' \in [Assets -> 0..Persistence]
    BY <1>5, PersistenceAssumption DEF PersistReport, RunFails, Restart, PassTyped
  <2> QED
    BY <1>5, <2>1, FlatIsTyped DEF PersistReport, RunFails, Restart, Sleep, PassTyped, Steps
<1> QED
  BY <1>1, <1>2, <1>3, <1>4, <1>5

LEMMA OthersKeepPass ==
  ASSUME PassTyped, Environment \/ Ladder \/ UNCHANGED vars
  PROVE  PassTyped'
<1>1. UNCHANGED <<tracker, pc, oms, seen, stops, found>>
  BY DEF Environment, Ladder, Fill, CommitLedger, CommitMirror, ToggleEntry, Resume, Idle,
     vars, locals
<1> QED
  BY <1>1 DEF PassTyped

LEMMA RestKeepsTypes == ASSUME PassTyped, RestTyped, [Next]_vars PROVE RestTyped'
<1>1. events \in 0..MaxEvents
  BY DEF RestTyped
<1>3. events' \in 0..MaxEvents
  <2>1. CASE UNCHANGED events
    BY <1>1, <2>1
  <2>2. CASE Happen
    BY <1>1, <2>2, BoundAssumption DEF Happen
  <2> QED
    BY <2>1, <2>2 DEF Next, Run, RunFails, Restart, Ladder, Environment, Fill, CommitLedger,
       CommitMirror, ToggleEntry, Resume, vars, budget, Wake,
       ListPlanOrders, ListOpenOrders, LoadOmsPositions, ListOpenPositions, ReadOpenSymbols,
       ReadSides, Compare, LoadPlacedStops, CheckStops, Announce, PersistHalt, PersistReport
<1>4. /\ announced' \in {announced, TRUE, FALSE} /\ haltKey' \in {haltKey, TRUE, FALSE}
      /\ missed' \in {missed, "stop" \in found} /\ sightings' \in {sightings, Phantoms, {}}
  BY DEF Next, Run, RunFails, Restart, Ladder, Environment, Fill, CommitLedger,
     CommitMirror, ToggleEntry, Resume, Idle, vars, outputs, history, Wake,
     ListPlanOrders, ListOpenOrders, LoadOmsPositions, ListOpenPositions, ReadOpenSymbols,
     ReadSides, Compare, LoadPlacedStops, CheckStops, Announce, PersistHalt, PersistReport
<1>5. blinded' \in BOOLEAN
  BY DEF RestTyped, Next, Run, RunFails, Restart, Ladder, Environment, Fill, CommitLedger,
     CommitMirror, ToggleEntry, Resume, Idle, vars, history, Wake,
     ListPlanOrders, ListOpenOrders, LoadOmsPositions, ListOpenPositions, ReadOpenSymbols,
     ReadSides, Compare, LoadPlacedStops, CheckStops, Announce, PersistHalt, PersistReport
<1>6. Phantoms \subseteq Assets
  BY DEF Phantoms, Held
<1>7. announced' \in BOOLEAN /\ haltKey' \in BOOLEAN
  BY <1>4 DEF RestTyped
<1>8. missed' \in BOOLEAN
  <2>1. missed \in BOOLEAN /\ ("stop" \in found) \in BOOLEAN
    BY DEF RestTyped
  <2> QED
    BY <1>4, <2>1
<1>9. sightings' \subseteq Assets
  BY <1>4, <1>6 DEF RestTyped
<1> QED
  BY <1>3, <1>5, <1>7, <1>8, <1>9 DEF RestTyped

LEMMA NextTyped == TypeOK /\ [Next]_vars => TypeOK'
<1> SUFFICES ASSUME WorldTyped, LadderTypes, PassTyped, RestTyped, [Next]_vars
             PROVE  WorldTyped' /\ LadderTypes' /\ PassTyped' /\ RestTyped'
  BY TypeParts DEF TypeOK, WorldTyped, PassTyped, RestTyped, Codes
<1>1. PassTyped'
  BY ReadsKeepPass, ChecksKeepPass, OthersKeepPass DEF Next, Run
<1> QED
  BY <1>1, WorldKeepsTypes, LadderKeepsTypes, RestKeepsTypes

\* TypeOK holds throughout.
THEOREM TypeCorrect == Spec => []TypeOK
  BY InitTyped, NextTyped, PTL DEF Spec

-----------------------------------------------------------------------------
(* Persistence                                                             *)

LEMMA PhantomsAreAssets == Phantoms \subseteq Assets
  BY DEF Phantoms, Held

\* Only what the last comparison of this process saw is counted.
CountsSightings == \A a \in Assets : tracker[a] > 0 => a \in sightings

LEMMA NextCounts ==
  ASSUME TypeOK, CountsSightings, [Next]_vars
  PROVE  /\ CountsSightings'
         /\ tracker' \in {tracker, Tracked, [a \in Assets |-> 0]}
<1>1. CASE Compare
  <2>1. tracker' = Tracked /\ sightings' = Phantoms
    BY <1>1 DEF Compare
  <2>2. \A a \in Assets : a \notin Phantoms => tracker'[a] = 0
    BY <2>1 DEF Tracked
  <2> QED
    BY <2>1, <2>2 DEF CountsSightings
<1>2. CASE Restart
  <2>1. tracker' = [a \in Assets |-> 0]
    BY <1>2 DEF Restart
  <2>2. \A a \in Assets : ~(tracker'[a] > 0)
    BY <2>1
  <2> QED
    BY <2>1, <2>2 DEF CountsSightings
<1>3. CASE UNCHANGED <<tracker, sightings>>
  BY <1>3 DEF CountsSightings
<1> QED
  BY <1>1, <1>2, <1>3 DEF Next, Run, RunFails, Ladder, Environment, Fill, CommitLedger,
     CommitMirror, ToggleEntry, Resume, Idle, vars, history, Wake,
     ListPlanOrders, ListOpenOrders, LoadOmsPositions, ListOpenPositions, ReadOpenSymbols,
     ReadSides, LoadPlacedStops, CheckStops, Announce, PersistHalt, PersistReport

LEMMA CountsHold == Spec => []CountsSightings
<1>1. Init => CountsSightings
  BY DEF Init, CountsSightings
<1> QED
  BY <1>1, NextCounts, TypeCorrect, PTL DEF Spec

\* A position unknown to the ledger counts as persistent only if the last comparison
\* of this process saw it too, whatever the threshold (_track_phantom,
\* _clear_resolved_phantoms).
THEOREM PhantomsPersist == Spec => PersistenceRespected
<1>1. TypeOK /\ CountsSightings /\ [Next]_vars =>
        [\A a \in Assets : pc = "compare" /\ tracker'[a] >= Persistence /\ Persistence > 1
           => a \in sightings]_vars
  <2> SUFFICES ASSUME TypeOK, CountsSightings, [Next]_vars, NEW a \in Assets,
                      tracker'[a] >= Persistence, Persistence > 1
               PROVE  a \in sightings
    OBVIOUS
  <2>1. Persistence \in Nat \ {0} /\ tracker[a] \in 0..Persistence
    BY PersistenceAssumption DEF TypeOK
  <2>2. tracker'[a] = tracker[a] \/ tracker'[a] = Tracked[a] \/ tracker'[a] = 0
    BY NextCounts
  <2>3. Tracked[a] \in {0, tracker[a], tracker[a] + 1}
    BY <2>1, PhantomsAreAssets DEF Tracked
  <2>4. tracker[a] > 0
    BY <2>1, <2>2, <2>3
  <2> QED
    BY <2>4 DEF CountsSightings
<1> QED
  BY <1>1, TypeCorrect, CountsHold, PTL DEF Spec, PersistenceRespected

-----------------------------------------------------------------------------
(* An outage of the exchange halts nothing                                 *)

\* Nothing has happened since the start, the ledgers agree, and no read of the
\* mirror has failed.
Calm == events = 0 /\ Consistent /\ ~blinded

\* What the pass has read is what is there, or nothing at all.
NothingToBlame ==
  /\ ~announced /\ ~haltKey
  /\ found \cap Critical = {} /\ pc \notin {"announce", "persist"}
  /\ pc \in {"positions", "mirror", "sides", "compare"} => oms = ledger
  /\ pc \in {"rows", "mirror", "sides", "compare"} => seen \in {exchange, Flat}

LEMMA CalmWorld ==
  ASSUME TypeOK, Consistent
  PROVE  /\ Held(exchange) = Open(ledger) /\ Open(ledger) = Open(mirror)
         /\ \A a \in Held(exchange) : /\ exchange[a].margin = "isolated"
                                      /\ exchange[a].side = ledger[a]
         /\ Held(Flat) = {}
<1>1. /\ exchange \in [Assets -> Positions \cup {None}]
      /\ ledger \in [Assets -> Sides \cup {NoRow}]
  BY DEF TypeOK
<1>2. \A a \in Assets : /\ exchange[a].side = ledger[a] /\ ledger[a] = mirror[a]
                        /\ exchange[a].margin # "crossed"
  BY DEF Consistent
<1>3. \A a \in Assets : exchange[a] # None => exchange[a] \in Positions
  BY <1>1
<1>4. \A a \in Assets : exchange[a] # None =>
         exchange[a].side \in Sides /\ exchange[a].margin \in Margins
  BY <1>3 DEF Positions
<1>5. \A a \in Assets : exchange[a] = None <=> ledger[a] = NoRow
  BY <1>2, <1>4 DEF None, NoRow, Sides
<1>6. Held(exchange) = Open(ledger) /\ Open(ledger) = Open(mirror)
  BY <1>2, <1>5 DEF Held, Open
<1>7. Held(Flat) = {}
  BY DEF Held, Flat
<1> QED
  BY <1>2, <1>4, <1>6, <1>7 DEF Held, Margins

LEMMA CompareFindsNothing ==
  ASSUME TypeOK, Consistent, NothingToBlame, Compare
  PROVE  found' \cap Critical = {}
<1>1. pc = "compare" /\ oms = ledger /\ seen \in {exchange, Flat} /\ found \cap Critical = {}
  BY DEF Compare, NothingToBlame
<1>2. Held(seen) \subseteq Open(oms)
  BY <1>1, CalmWorld
<1>3. Phantoms = {}
  BY <1>2 DEF Phantoms
<1>4. \A a \in Open(oms) : PositionChecks(a) = {}
  <2> SUFFICES ASSUME NEW a \in Open(oms), seen[a] # None
               PROVE  seen[a].margin = "isolated" /\ seen[a].side = oms[a]
    BY DEF PositionChecks
  <2>1. a \in Held(seen)
    BY DEF Held, Open
  <2>2. seen = exchange
    BY <1>1, <2>1, CalmWorld
  <2> QED
    BY <1>1, <2>1, <2>2, CalmWorld
<1>5. found' = found \cup (UNION {PositionChecks(a) : a \in Open(oms)})
                    \cup {"persistent" : a \in {b \in Phantoms : tracker'[b] >= Persistence}}
  BY DEF Compare
<1>6. \A k \in found' : k \in found \/ \E a \in Open(oms) : k \in PositionChecks(a)
  BY <1>3, <1>5
<1>7. found' \subseteq found
  BY <1>4, <1>6
<1> QED
  BY <1>1, <1>7

LEMMA CalmStep ==
  ASSUME TypeOK, [Next]_vars, Calm'
  PROVE  Calm /\ UNCHANGED market /\ ~Environment
<1>1. events' = 0 /\ events \in 0..MaxEvents
  BY DEF Calm, TypeOK
<1>2. MaxEvents \in Nat
  BY BoundAssumption
<1>3. ~Happen
  BY <1>1, <1>2 DEF Happen
<1>4. ~Environment
  BY <1>3 DEF Environment, Fill, CommitLedger, CommitMirror, ToggleEntry, Resume
<1>5. UNCHANGED market /\ events' = events
  BY <1>3, <1>4 DEF Next, Run, RunFails, Restart, Ladder, Wake, ListPlanOrders,
     ListOpenOrders, LoadOmsPositions, ListOpenPositions, ReadOpenSymbols, ReadSides, Compare,
     LoadPlacedStops, CheckStops, Announce, PersistHalt, PersistReport, vars, world, budget
<1>7. ~blinded
  <2>1. ~blinded'
    BY DEF Calm
  <2>2. CASE ReadOpenSymbols
    <3>1. blinded' = (blinded \/ failures' > failures)
      BY <2>2 DEF ReadOpenSymbols
    <3> QED
      BY <2>1, <3>1
  <2>3. CASE UNCHANGED blinded
    BY <2>1, <2>3
  <2> QED
    BY <2>2, <2>3, <1>4 DEF Next, Run, RunFails, Restart, Ladder, Idle, Wake, ListPlanOrders,
       ListOpenOrders, LoadOmsPositions, ListOpenPositions, ReadSides, Compare,
       LoadPlacedStops, CheckStops, Announce, PersistHalt, PersistReport, vars, history
<1>6. Consistent' <=> Consistent
  BY <1>5 DEF market, Consistent
<1> QED
  BY <1>1, <1>4, <1>5, <1>6, <1>7 DEF Calm

LEMMA RunBlamesNobody ==
  ASSUME TypeOK, Calm, NothingToBlame, UNCHANGED market, ~blinded', Run
  PROVE  NothingToBlame'
<1>0. Consistent /\ UNCHANGED <<exchange, ledger, mirror>> /\ found \cap Critical = {}
  BY DEF Calm, market, NothingToBlame
<1>1. CASE Wake
  BY <1>1 DEF Wake, outputs, locals, NothingToBlame
<1>2. CASE ListPlanOrders \/ ListOpenOrders
  <2>1. pc' \in {"report", "orders", "load"} /\ UNCHANGED <<announced, haltKey, found>>
    BY <1>2 DEF ListPlanOrders, ListOpenOrders, Skip, outputs, locals
  <2> QED
    BY <2>1 DEF NothingToBlame
<1>3. CASE LoadOmsPositions
  BY <1>0, <1>3 DEF LoadOmsPositions, outputs, NothingToBlame
<1>4. CASE ListOpenPositions
  <2>1. seen' \in {exchange, Flat}
    BY <1>4 DEF ListOpenPositions
  <2> QED
    BY <1>0, <1>4, <2>1 DEF ListOpenPositions, outputs, NothingToBlame, Flat
<1>5. CASE ReadOpenSymbols
  <2>1. PICK got \in {Open(mirror), {}} :
          /\ MirrorAnswer(got, Open(mirror), {})
          /\ blinded' = (blinded \/ failures' > failures)
          /\ found' = IF Open(oms) = got THEN found ELSE found \cup {"mirror"}
    BY <1>5 DEF ReadOpenSymbols
  <2>2. ~(failures' > failures)
    BY <2>1
  <2>3. failures \in Nat
    BY LadderAssumption DEF TypeOK, LadderTypes
  <2>4. ~Fail
    BY <2>2, <2>3 DEF Fail
  <2>5. got = Open(mirror)
    BY <2>1, <2>4 DEF MirrorAnswer, Fault
  <2>6. Open(oms) = got
    BY <1>0, <1>5, <2>5, CalmWorld DEF ReadOpenSymbols, NothingToBlame
  <2>7. found' = found
    BY <2>1, <2>6
  <2> QED
    BY <1>0, <1>5, <2>7 DEF ReadOpenSymbols, outputs, NothingToBlame, Flat
<1>6. CASE ReadSides
  <2>1. PICK got \in {mirror, NoRows} :
          found' = IF \E a \in Open(oms) : got[a] \in Sides /\ got[a] # oms[a]
                     THEN found \cup {"mirror"} ELSE found
    BY <1>6 DEF ReadSides
  <2>2. \A a \in Open(oms) : a \in Assets /\ mirror[a] = oms[a]
    BY <1>0, <1>6 DEF Open, ReadSides, NothingToBlame, Consistent
  <2>3. \A a \in Assets : NoRows[a] \notin Sides
    BY DEF NoRows, NoRow, Sides
  <2>4. found' = found
    BY <2>1, <2>2, <2>3
  <2> QED
    BY <1>0, <1>6, <2>4 DEF ReadSides, outputs, NothingToBlame, Flat
<1>7. CASE Compare
  BY <1>0, <1>7, CompareFindsNothing DEF Compare, outputs, NothingToBlame
<1>8. CASE LoadPlacedStops \/ CheckStops
  <2>1. /\ found' \in {found, found \cup {"stop"}}
        /\ pc' \in {Verdict(found), Verdict(found'), "stopOrders"}
        /\ UNCHANGED <<announced, haltKey>>
    BY <1>8 DEF LoadPlacedStops, CheckStops, outputs
  <2>2. found' \cap Critical = {}
    BY <1>0, <2>1 DEF Critical
  <2>3. Verdict(found) = "report" /\ Verdict(found') = "report"
    BY <1>0, <2>2 DEF Verdict
  <2> QED
    BY <2>1, <2>2, <2>3 DEF NothingToBlame
<1>9. CASE Announce \/ PersistHalt
  BY <1>9 DEF Announce, PersistHalt, NothingToBlame
<1>10. CASE PersistReport
  BY <1>10 DEF PersistReport, Sleep, NothingToBlame
<1> QED
  BY <1>1, <1>2, <1>3, <1>4, <1>5, <1>6, <1>7, <1>8, <1>9, <1>10 DEF Run

LEMMA NextBlamesNobody ==
  TypeOK /\ (Calm => NothingToBlame) /\ [Next]_vars => (Calm => NothingToBlame)'
<1> SUFFICES ASSUME TypeOK, Calm => NothingToBlame, [Next]_vars, Calm'
             PROVE  NothingToBlame'
  OBVIOUS
<1>1. Calm /\ UNCHANGED market /\ ~Environment /\ ~blinded' /\ NothingToBlame
  BY CalmStep DEF Calm
<1>2. CASE Run
  BY <1>1, <1>2, RunBlamesNobody
<1>3. CASE RunFails \/ Restart
  BY <1>1, <1>3 DEF RunFails, Restart, Sleep, outputs, NothingToBlame
<1>4. CASE Ladder \/ UNCHANGED vars
  BY <1>1, <1>4 DEF Ladder, Idle, market, vars, world, outputs, locals, NothingToBlame, Flat
<1> QED
  BY <1>1, <1>2, <1>3, <1>4 DEF Next

\* Whatever calls to the exchange, PostgreSQL or Redis fail, and however often the
\* process restarts, three ledgers that agree are not halted: an outage reads as
\* "no positions", and a position that is missing there is not critical
\* (_compare_oms_to_bitget, halt_needed).
THEOREM OutageIsHarmless == Spec => []OutageNeverHalts
<1>1. Init => (Calm => NothingToBlame)
  BY DEF Init, NothingToBlame
<1>2. (Calm => NothingToBlame) => OutageNeverHalts
  BY DEF Calm, NothingToBlame, OutageNeverHalts
<1> QED
  BY <1>1, <1>2, NextBlamesNobody, TypeCorrect, PTL DEF Spec

-----------------------------------------------------------------------------
(* A missing stop is not a false alarm                                     *)

Ordered == resting \cup left

\* A row says "placed" only of an order the exchange has accepted, and so does what
\* the pass has read of the rows and what place_all is about to write.
RowsFollowOrders ==
  /\ Placed \subseteq Ordered
  /\ place.at = "persist" /\ place.status = "placed" => place.tier \in Ordered
  /\ stops \subseteq Ordered

\* As long as no call has failed, the breakers are closed, and a stop is missed only
\* where one has left.
NoFalseAlarm ==
  failures = 0 => /\ ~limited
                  /\ missed \/ "stop" \in found => left # {}

LEMMA OrdersAreKept == ASSUME [Next]_vars PROVE Ordered \subseteq Ordered' /\ left \subseteq left'
<1>1. CASE UNCHANGED ladder \/ Restart
  BY <1>1 DEF ladder, orders, Restart, market, Ordered
<1>2. CASE Ladder
  BY <1>2 DEF Ladder, PlaceAll, Leave, ConvertSize, Submit, Accepted, AnswerLost, Refused,
     Persist, CancelTier, TriggerStop, orders, Ordered
<1> QED
  BY <1>1, <1>2, NextIsClientStep

LEMMA NextFollowsOrders ==
  ASSUME TypeOK, RowsFollowOrders, [Next]_vars
  PROVE  RowsFollowOrders'
<1>1. Ordered \subseteq Ordered'
  BY OrdersAreKept
<1>2. stops' \in {stops, Placed, {}}
  BY DEF Next, Run, RunFails, Restart, Ladder, Environment, Fill, CommitLedger,
     CommitMirror, ToggleEntry, Resume, Idle, Sleep, vars, locals, Wake,
     ListPlanOrders, ListOpenOrders, LoadOmsPositions, ListOpenPositions, ReadOpenSymbols,
     ReadSides, Compare, LoadPlacedStops, CheckStops, Announce, PersistHalt, PersistReport
<1>3. stops' \subseteq Ordered'
  BY <1>1, <1>2 DEF RowsFollowOrders
<1>4. SUFFICES /\ Placed' \subseteq Ordered'
               /\ place'.at = "persist" /\ place'.status = "placed" => place'.tier \in Ordered'
  BY <1>3 DEF RowsFollowOrders
<1>5. CASE rows' = rows /\ (place' = place \/ place'.at # "persist")
  BY <1>1, <1>5 DEF RowsFollowOrders, Placed
<1>6. CASE UNCHANGED ladder \/ Restart \/ ConvertSize \/ Leave
  BY <1>5, <1>6 DEF ladder, Restart, ConvertSize, Leave, CancelTier, TriggerStop, Over, Go
<1>7. CASE Submit
  <2>1. rows' = rows
    BY <1>7 DEF Submit
  <2>2. CASE Accepted
    BY <1>1, <2>1, <2>2 DEF Accepted, Go, Ordered, RowsFollowOrders, Placed
  <2>3. CASE AnswerLost \/ Refused
    BY <1>1, <2>1, <2>3 DEF AnswerLost, Refused, Go, RowsFollowOrders, Placed
  <2> QED
    BY <1>7, <2>2, <2>3 DEF Submit
<1>8. CASE Persist
  <2>1. /\ place.at = "persist" /\ place'.at # "persist"
        /\ rows' \in {rows, [rows EXCEPT ![place.tier] = place.status]}
    BY <1>8 DEF Persist, Over, Go
  <2>2. rows \in [Tiers -> {"none", "placed", "failed"}]
    BY DEF TypeOK, LadderTypes
  <2>3. \A t \in Tiers : rows'[t] = "placed" =>
           t \in Placed \/ (t = place.tier /\ place.status = "placed")
    BY <2>1, <2>2 DEF Placed
  <2>4. \A t \in Placed' : t \in Placed \/ (t = place.tier /\ place.status = "placed")
    BY <2>3 DEF Placed
  <2> QED
    BY <1>1, <2>1, <2>4 DEF RowsFollowOrders
<1> QED
  BY <1>6, <1>7, <1>8, NextIsClientStep DEF Ladder, PlaceAll

LEMMA NextRaisesNoAlarm ==
  ASSUME TypeOK, RowsFollowOrders, NoFalseAlarm, [Next]_vars
  PROVE  NoFalseAlarm'
<1> SUFFICES ASSUME failures' = 0
             PROVE  ~limited' /\ (missed' \/ "stop" \in found' => left' # {})
  BY DEF NoFalseAlarm
<1>1. UNCHANGED client /\ ~limited /\ (missed \/ "stop" \in found => left # {})
  BY NextIsClientStep, ClientIsTyped DEF TypeOK, LadderTypes, NoFalseAlarm
<1>2. left \subseteq left' /\ failures \in Nat
  BY OrdersAreKept, LadderAssumption DEF TypeOK, LadderTypes
<1>3. ~Fail
  BY <1>1, <1>2 DEF Fail, client
<1>4. SUFFICES missed' \/ "stop" \in found' => left # {}
  BY <1>1, <1>2 DEF client
<1>5. CASE CheckStops
  <2>1. PICK got \in {resting, {}} :
          /\ Answer(got, resting, {})
          /\ found' = IF MissingStops(got) = {} THEN found ELSE found \cup {"stop"}
    BY <1>5 DEF CheckStops
  <2>2. got = resting
    BY <1>1, <1>3, <2>1 DEF Answer, Fault, RateLimit
  <2>3. MissingStops(got) # {} => left # {}
    BY <2>2 DEF MissingStops, RowsFollowOrders, Ordered
  <2>4. missed' = missed
    BY <1>5 DEF CheckStops, outputs
  <2> QED
    BY <1>1, <2>1, <2>3, <2>4
<1>6. CASE Compare
  <2>1. found' = found \cup (UNION {PositionChecks(a) : a \in Open(oms)})
                    \cup {"persistent" : a \in {b \in Phantoms : tracker'[b] >= Persistence}}
    BY <1>6 DEF Compare
  <2>2. \A a \in Open(oms) : "stop" \notin PositionChecks(a)
    BY DEF PositionChecks
  <2>3. "stop" \in found' => "stop" \in found
    BY <2>1, <2>2
  <2>4. missed' = missed
    BY <1>6 DEF Compare, world, outputs
  <2> QED
    BY <1>1, <2>3, <2>4
<1>7. CASE ReadOpenSymbols \/ ReadSides
  <2>1. found' \in {found, found \cup {"mirror"}} /\ missed' = missed
    BY <1>7 DEF ReadOpenSymbols, ReadSides, outputs
  <2> QED
    BY <1>1, <2>1
<1>8. CASE PersistReport
  <2>1. missed' = ("stop" \in found) /\ found' = {}
    BY <1>8 DEF PersistReport, Sleep
  <2> QED
    BY <1>1, <2>1
<1>9. CASE UNCHANGED <<missed, found>>
  BY <1>1, <1>9
<1> QED
  BY <1>3, <1>5, <1>6, <1>7, <1>8, <1>9 DEF Next, Run, RunFails, Restart, Ladder, Environment,
     Fault, Fill, CommitLedger, CommitMirror, ToggleEntry, Resume, Idle, vars, locals, outputs,
     Wake, ListPlanOrders, ListOpenOrders, LoadOmsPositions, ListOpenPositions,
     LoadPlacedStops, Announce, PersistHalt

\* However the passes and a ladder that is being placed interleave, a stop is reported
\* missing only if one has left the exchange or a call has failed (place_all,
\* _check_stops).
THEOREM AlarmIsReal == Spec => []StopAlarmIsReal
<1>1. Init => RowsFollowOrders /\ NoFalseAlarm
  BY DEF Init, LadderInit, RowsFollowOrders, NoFalseAlarm, Placed
<1>2. TypeOK /\ NoFalseAlarm => StopAlarmIsReal
  <2> SUFFICES ASSUME TypeOK, NoFalseAlarm PROVE StopAlarmIsReal
    OBVIOUS
  <2>1. failures \in Nat
    BY LadderAssumption DEF TypeOK, LadderTypes
  <2> QED
    BY <2>1 DEF NoFalseAlarm, StopAlarmIsReal
<1> QED
  BY <1>1, <1>2, NextFollowsOrders, NextRaisesNoAlarm, TypeCorrect, PTL DEF Spec

=============================================================================
