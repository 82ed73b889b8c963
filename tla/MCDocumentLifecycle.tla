----------------------- MODULE MCDocumentLifecycle -----------------------
(***************************************************************************)
(* DocumentLifecycle from fresh histories: no contradiction has been       *)
(* recorded and Qdrant knows as verified only what is.  The runs with two  *)
(* documents start from these states.                                      *)
(***************************************************************************)
EXTENDS DocumentLifecycle

FreshInit ==
  /\ Init
  /\ contradictions = [d \in Docs |-> 0]
  /\ onceVerified = {d \in Docs : state[d] = "verified"}

FreshSpec == FreshInit /\ [][Next]_vars

FreshFairSpec == FreshSpec /\ Fairness

=============================================================================
