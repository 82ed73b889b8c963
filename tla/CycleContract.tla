--------------------------- MODULE CycleContract ---------------------------
(***************************************************************************)
(* What one analysis cycle promises to the rest of ATLAS, whatever agents, *)
(* timeouts and Redis writes it is made of.  The risk gate speaks at most  *)
(* once; the decision is taken once, after it; a gate that spoke a veto    *)
(* leaves no room for a trade; and only a decision already taken is        *)
(* announced, as it stands.  AnalysisPipeline implements this module.      *)
(***************************************************************************)
EXTENDS Naturals

CONSTANTS Trades,     \* the decisions that open a position
          NoTrade     \* the decisions that open none

VARIABLES phase,      \* "idle", "open" or "decided"
          gate,       \* "silent", "clear" or "veto"
          decision,   \* the decision of the cycle, once "decided"
          announced   \* is it on the channel polaris:signals:{asset}?

cvars == <<phase, gate, decision, announced>>

None == "none"

\* Between two cycles: what the last one left behind, if there was one.
CInit ==
  /\ phase = "idle"
  /\ gate \in {"silent", "clear", "veto"}
  /\ decision \in IF gate = "veto" THEN NoTrade ELSE {None} \cup Trades \cup NoTrade
  /\ announced \in BOOLEAN /\ (announced => gate # "veto" /\ decision # None)

Open ==
  /\ phase = "idle"
  /\ phase' = "open" /\ gate' = "silent" /\ decision' = None /\ announced' = FALSE

\* The risk agent answers; a time-out or an exception leaves the gate silent.
Speak ==
  /\ phase = "open" /\ gate = "silent"
  /\ gate' \in {"clear", "veto"}
  /\ UNCHANGED <<phase, decision, announced>>

Decide ==
  /\ phase = "open"
  /\ decision' \in IF gate = "veto" THEN NoTrade ELSE Trades \cup NoTrade
  /\ phase' = "decided"
  /\ UNCHANGED <<gate, announced>>

\* The cycle is over, with or without an announcement.
Close ==
  /\ phase = "decided"
  /\ phase' = "idle"
  /\ announced' \in BOOLEAN /\ (announced' => gate # "veto")
  /\ UNCHANGED <<gate, decision>>

\* An exception: nothing was decided and nothing is announced.
Abort ==
  /\ phase \in {"idle", "open"}
  /\ phase' = "idle" /\ decision' = None /\ announced' = FALSE
  /\ gate' \in {gate, "silent"}

CNext == Open \/ Speak \/ Decide \/ Close \/ Abort

CSpec == CInit /\ [][CNext]_cvars

=============================================================================
