------------------------- MODULE MCScenarioRunner -------------------------
(* Instances of ScenarioRunner for TLC: the constants are plain values.    *)
EXTENDS ScenarioRunner
=============================================================================
