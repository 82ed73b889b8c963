-------------------------- MODULE MCTradePipeline --------------------------
(***************************************************************************)
(* TradePipeline with data for TLC: the last score that misses and the     *)
(* first that meets the threshold of each gate, and hourly scores whose    *)
(* total, with the bonus of 15, lies on either side of the tier limits 150 *)
(* and 180 and of the cap 220.                                             *)
(***************************************************************************)
EXTENDS TradePipeline

MCScores ==
  <<{59, 60}, {49, 50}, {119, 120, 134, 135, 164, 165, 205, 206}, {109, 110}, {99, 100}>>

\* The last confidence that misses and the first that meets each threshold.
MCClarity == {49, 50, 54, 55, 59, 60, 64, 65}

=============================================================================
