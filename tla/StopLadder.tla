----------------------------- MODULE StopLadder -----------------------------
(***************************************************************************)
(* The stop ladder of one trade, prometheus/stops/placer.py: every tier is *)
(* a plan order on the exchange first and a row in PostgreSQL second, one  *)
(* tier after the other, through the process's Bitget client.  Nothing     *)
(* retries or resumes a ladder that was left half placed.                  *)
(***************************************************************************)
EXTENDS Naturals

CONSTANTS
  TierCount,    \* tiers of a ladder: three
  MaxFailures   \* bound: calls that fail and restarts of the process

ASSUME LadderAssumption == TierCount \in Nat \ {0} /\ MaxFailures \in Nat

Tiers == 1..TierCount

VARIABLES
  rows,      \* PostgreSQL stop_ladder_tiers: status of every tier, "none" without a row
  resting,   \* Bitget: tiers whose plan order is open
  left,      \* history: tiers whose plan order was triggered or cancelled
  place,     \* place_all: the call it is about to make, for which tier, and its status
  limited,   \* a rate limit has opened both breakers of the Bitget client
  failures

orders == <<resting, left>>
client == <<limited, failures>>
ladder == <<rows, orders, place>>

Placing == {"size", "submit", "persist"}

LadderTypes ==
  /\ rows \in [Tiers -> {"none", "placed", "failed"}]
  /\ resting \subseteq Tiers /\ left \subseteq Tiers
  /\ place \in [at : {"over"} \cup Placing, tier : Tiers,
                status : {"pending", "placed", "failed"}]
  /\ place.at = "persist" => place.status # "pending"
  /\ limited \in BOOLEAN /\ failures \in 0..MaxFailures

LadderInit ==
  /\ rows = [t \in Tiers |-> "none"]
  /\ resting = {} /\ left = {}
  /\ place = [at |-> "size", tier |-> 1, status |-> "pending"]
  /\ limited = FALSE /\ failures = 0

Placed == {t \in Tiers : rows[t] = "placed"}

-----------------------------------------------------------------------------
Fail == failures < MaxFailures /\ failures' = failures + 1

\* A call fails by itself: a connection, an error code, a statement.
Fault == Fail /\ UNCHANGED limited

\* _handle_rate_limit opens both breakers.  While a breaker is open no call is
\* made, so that pybreaker never tries to close it: only a restart does.
RateLimit == ~limited /\ Fail /\ limited' = TRUE

Go(at, tier, status) == place' = [at |-> at, tier |-> tier, status |-> status]

\* place_all has returned, or an exception has left it.
Over == Go("over", 1, "pending")

\* Mutation: the row is written before the order is placed.
ConvertSize_RecordsFirst ==
  /\ place.at = "size"
  /\ Go("submit", place.tier, "pending")
  /\ rows' = [rows EXCEPT ![place.tier] = "placed"]
  /\ UNCHANGED <<orders, client>>

\* _convert_size: a refused answer is a default specification, an exception
\* leaves place_all.
ConvertSize ==
  /\ place.at = "size"
  /\ \/ Go("submit", place.tier, "pending") /\ (UNCHANGED client \/ RateLimit)
     \/ Over /\ Fault
  /\ UNCHANGED <<rows, orders>>

\* _submit_plan_order: _signed_post turns everything but an answered success
\* into a failed tier, an order that was accepted before its answer was lost too.
Accepted ==
  /\ ~limited
  /\ resting' = resting \cup {place.tier}
  /\ Go("persist", place.tier, "placed")
  /\ UNCHANGED client

AnswerLost ==
  /\ ~limited /\ Fault
  /\ resting' \in {resting, resting \cup {place.tier}}
  /\ Go("persist", place.tier, "failed")

Refused ==
  /\ (limited /\ UNCHANGED client) \/ RateLimit
  /\ Go("persist", place.tier, "failed")
  /\ UNCHANGED resting

Submit ==
  /\ place.at = "submit"
  /\ Accepted \/ AnswerLost \/ Refused
  /\ UNCHANGED <<rows, left>>

\* _persist_tier, then the next tier: a statement that times out may have been
\* executed, and ends place_all with the tiers after it unplaced.
Persist ==
  LET stored == [rows EXCEPT ![place.tier] = place.status]
  IN  /\ place.at = "persist"
      /\ \/ /\ rows' = stored
            /\ IF place.tier < TierCount THEN Go("size", place.tier + 1, "pending")
                                         ELSE Over
            /\ UNCHANGED client
         \/ rows' \in {rows, stored} /\ Over /\ Fault
      /\ UNCHANGED orders

\* cancel_tier calls the exchange whatever the breakers say, and leaves the row
\* as it is.
CancelTier(t) ==
  /\ t \in Placed \cap resting
  /\ \/ resting' = resting \ {t} /\ left' = left \cup {t} /\ UNCHANGED client
     \/ UNCHANGED orders /\ RateLimit
  /\ UNCHANGED <<rows, place>>

\* The exchange triggers or drops a plan order; nothing tells the row.
TriggerStop(t) ==
  /\ t \in resting
  /\ resting' = resting \ {t} /\ left' = left \cup {t}
  /\ UNCHANGED <<rows, place, client>>

PlaceAll == ConvertSize \/ Submit \/ Persist

Leave == \E t \in Tiers : CancelTier(t) \/ TriggerStop(t)

=============================================================================
