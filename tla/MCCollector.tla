---------------------------- MODULE MCCollector ----------------------------
(* Instances of Collector for TLC.                                         *)
EXTENDS Collector

CONSTANTS e1, e2, r1

\* Two events of one shard, which overflows a channel of one slot.
TwoEvents == {e1, e2}
OneShard  == [e \in {e1, e2} |-> 0]
OneRow    == {r1}
=============================================================================
