--------------------------- MODULE OrderContract ---------------------------
(***************************************************************************)
(* What the paper-trade route promises to whoever submits a trade,         *)
(* whatever queues, breakers, time-outs and restarts lie between it and    *)
(* the exchange.  A request puts at most one order there; it is answered   *)
(* once; "executed", "accepted" and "rejected" are true when they are      *)
(* said; and nothing is ordered behind the back of whoever was told how it *)
(* ended, or asked a process that has gone.  PaperTrading implements it.   *)
(***************************************************************************)
EXTENDS Naturals

CONSTANT Orders     \* the requests

VARIABLES answer,   \* what each was answered, "open" before that
          placed    \* the orders it has put on the exchange

tvars == <<answer, placed>>

\* The answers that say how it ended.
Final == {"executed", "accepted", "rejected", "failed"}

TInit ==
  /\ answer = [o \in Orders |-> "open"]
  /\ placed = [o \in Orders |-> 0]

Place(o) ==
  /\ answer[o] \in {"open", "pending", "error"} /\ placed[o] = 0
  /\ placed' = [placed EXCEPT ![o] = 1]
  /\ UNCHANGED answer

TrueNow(a, o) ==
  /\ a = "executed" => placed[o] = 1
  /\ a \in {"accepted", "rejected"} => placed[o] = 0

Reply(o) ==
  /\ answer[o] = "open"
  /\ \E a \in Final \cup {"pending", "error"} :
       TrueNow(a, o) /\ answer' = [answer EXCEPT ![o] = a]
  /\ UNCHANGED placed

\* The process stops; the requests it has not taken yet go to the next one.
Lose(S) ==
  /\ \A o \in S : answer[o] = "open"
  /\ answer' = [o \in Orders |-> IF o \in S THEN "lost" ELSE answer[o]]
  /\ UNCHANGED placed

TNext ==
  \/ \E o \in Orders : Place(o) \/ Reply(o)
  \/ \E S \in SUBSET Orders : Lose(S)

TSpec == TInit /\ [][TNext]_tvars

=============================================================================
