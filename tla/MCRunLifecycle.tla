-------------------------- MODULE MCRunLifecycle --------------------------
(* Instances of RunLifecycle for TLC.                                      *)
EXTENDS RunLifecycle

CONSTANTS p1, p2, c1, c2

TwoRuns    == {p1, p2}
TwoCancels == {c1, c2}
OneCancel  == {c1}
=============================================================================
