---------------------------- MODULE MCAggregate ----------------------------
(* Instance of Aggregate for TLC: one block of every scenario type, valid  *)
(* and not, the Gaussian's window cut off at T0, steps that do not divide, *)
(* and draws on both sides of the window.                                  *)
EXTENDS Aggregate

MCConfigs ==
  {[type |-> "cold_start", block |-> TRUE, mu |-> 1, sigma |-> 1, k |-> 1],
   [type |-> "cold_start", block |-> TRUE, mu |-> 2, sigma |-> 1, k |-> 1],
   [type |-> "cold_start", block |-> TRUE, mu |-> 1, sigma |-> 0, k |-> 0],
   [type |-> "uniform", block |-> TRUE, duration |-> 5],
   [type |-> "uniform", block |-> FALSE],
   [type |-> "pessimal", block |-> TRUE, burst |-> 7],
   [type |-> "pessimal", block |-> FALSE],
   [type |-> "coa_storm", block |-> FALSE]}
MCDraws == {-2, 1}
=============================================================================
