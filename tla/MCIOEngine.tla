----------------------------- MODULE MCIOEngine -----------------------------
(* Instances of IOEngine for TLC.                                          *)
EXTENDS IOEngine

CONSTANTS c1, c2

MCCalls == {c1, c2}
\* c1 sends Access-Requests, c2 Accounting-Requests.
MCRandomAuth == {c1}
\* Both calls talk to one server address: one Identifier space per socket.
OneDest    == {"auth"}
ToOneDest  == [c \in {c1, c2} |-> "auth"]
\* The shipped topology: the auth and the accounting port of one server.
TwoDests   == {"auth", "acct"}
ToTwoDests == [c \in {c1, c2} |-> IF c = c1 THEN "auth" ELSE "acct"]
=============================================================================
