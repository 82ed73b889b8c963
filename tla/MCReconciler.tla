--------------------------- MODULE MCReconciler ---------------------------
(***************************************************************************)
(* Reconciler from the states in which the mirror follows the ledger, with *)
(* or without its state key, no ordinary order is pending yet, and the     *)
(* first of exchange and ledger that holds a position holds a long one:    *)
(* the code treats the two sides alike.                                    *)
(***************************************************************************)
EXTENDS Reconciler

LongFirst(a) ==
  /\ exchange[a].side # "short"
  /\ exchange[a] = None => ledger[a] # "short"

Mirrored(a) ==
  mirror[a] \in IF ledger[a] = NoRow THEN {NoRow} ELSE {ledger[a], Unlabeled}

MCInit == Init /\ ~entry /\ \A a \in Assets : LongFirst(a) /\ Mirrored(a)

MCSpec == MCInit /\ [][Next]_vars /\ WF_vars(Run)

=============================================================================
