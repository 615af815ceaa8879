---------------------------- MODULE MCSubscriber ----------------------------
(* Instances of Subscriber for TLC.                                        *)
EXTENDS Subscriber, TLC

CONSTANTS d1, d2, a1

\* Two Disconnect-Requests and one CoA-Request for the same subscriber.
MCDisconnects == {d1, d2}
MCCoAs        == {a1}
=============================================================================
