---------------------------- MODULE SendContract ----------------------------
(***************************************************************************)
(* What Engine.Send promises its caller (pkg/io/io.go: Send, SendResult    *)
(* and the error values): at most MaxAttempts transmissions, none after    *)
(* the call returned; one return value; a reply only after a transmission; *)
(* ErrFinalTimeout only once every attempt has been transmitted.           *)
(***************************************************************************)
EXTENDS Integers

CONSTANTS Calls, MaxAttempts

VARIABLES tx, returned

cvars == <<tx, returned>>

Errors == {"ctx", "write_error", "build_error", "exhausted"}

\* Errors of a call that never began: ErrNotStarted, an address that does not
\* resolve.
Refusals == {"not_started", "no_address"}

Init ==
  /\ tx = [c \in Calls |-> 0]
  /\ returned = [c \in Calls |-> "none"]

\* One datagram of a call that has not returned.
Transmit(c) ==
  /\ returned[c] = "none" /\ tx[c] < MaxAttempts
  /\ tx' = [tx EXCEPT ![c] = @ + 1]
  /\ UNCHANGED returned

\* The call returns, once.
Return(c) ==
  /\ returned[c] = "none"
  /\ \E r \in Errors \cup Refusals \cup {"reply", "final_timeout"} :
       /\ r = "reply" => tx[c] > 0
       /\ r = "final_timeout" => tx[c] = MaxAttempts
       /\ r \in Refusals => tx[c] = 0
       /\ returned' = [returned EXCEPT ![c] = r]
  /\ UNCHANGED tx

Next == \E c \in Calls : Transmit(c) \/ Return(c)

Spec == Init /\ [][Next]_cvars
=============================================================================
