----------------------------- MODULE Subscriber -----------------------------
(***************************************************************************)
(* pkg/subscriber: one virtual subscriber.  Its Run goroutine drives the   *)
(* FSM through Access-Request and Accounting-Request; the listener's       *)
(* goroutines call OnCoA and OnDisconnect at any moment.  The FSM mutex is *)
(* held for the assignments only: every event and outcome row is submitted *)
(* after it was released, so a step is one critical section or one Submit. *)
(*                                                                         *)
(* Subscribers share nothing but the collector.  obs is what the           *)
(* aggregator (observe) learns of the events this one submits, which all   *)
(* pass through one shard in order, as long as the collector drops none    *)
(* (Collector); state_changed and reply_received events leave no trace     *)
(* there.  Retransmit counts and times are left out, times except for      *)
(* whether they are set.                                                   *)
(***************************************************************************)
EXTENDS Integers, Sequences, FiniteSets

CONSTANTS
  Disconnects,      \* the OnDisconnect invocations
  CoAs,             \* the OnCoA invocations
  None

ASSUME RunAssumption == "run" \notin Disconnects

\* The labels some assignment uses (auth_retry and acct_retry are never set).
States == {"idle", "auth_sent", "auth_failed", "acct_sent", "acct_failed",
           "established", "terminated"}
IsTerminal(st) ==
  st \in {"auth_failed", "acct_failed", "established", "terminated"}

VARIABLES
  state,                                      \* Subscriber.state, under mu
  activatedAt, establishedAt, disconnectedAt, \* is the time set?
  deps,                                       \* has Run stored its Deps?
  coaCount,
  pc, terminal, row, \* Run: where it is, its argument and row of terminate
  dpc, drow,         \* each OnDisconnect
  cpc,               \* each OnCoA
  obs,               \* the aggregator's view of this subscriber
  outcomes           \* rows passed to SubmitOutcome, in order

times == <<activatedAt, establishedAt, disconnectedAt>>
vars == <<state, times, deps, coaCount, pc, terminal, row, dpc, drow, cpc,
          obs, outcomes>>

Init ==
  /\ state = "idle"
  /\ activatedAt = FALSE /\ establishedAt = FALSE /\ disconnectedAt = FALSE
  /\ deps = FALSE /\ coaCount = 0
  /\ pc = "new" /\ terminal = None /\ row = None
  /\ dpc = [d \in Disconnects |-> "idle"]
  /\ drow = [d \in Disconnects |-> None]
  /\ cpc = [c \in CoAs |-> "idle"]
  /\ obs = [activated |-> FALSE, terminal |-> None, terminals |-> 0,
            disconnects |-> 0, coas |-> 0]
  /\ outcomes = <<>>

\* buildOutcome: a snapshot of the subscriber under the read lock.  by is not
\* a column: it tells the rows of Run and of the handlers apart.
buildOutcome(by, final) ==
  [by |-> by, final |-> final, activated |-> activatedAt,
   established |-> establishedAt, disconnected |-> disconnectedAt,
   coa |-> coaCount]

-----------------------------------------------------------------------------
(* Run.                                                                    *)

\* A nil dependency or an unresolvable address: Run returns StateIdle.
RunRefused ==
  /\ pc = "new" /\ pc' = "refused"
  /\ UNCHANGED <<state, times, deps, coaCount, terminal, row, dpc, drow, cpc,
                 obs, outcomes>>

\* deps.Store: from here on the handlers emit and transition.
StashDeps ==
  /\ pc = "new" /\ pc' = "stashed"
  /\ deps' = TRUE
  /\ UNCHANGED <<state, times, coaCount, terminal, row, dpc, drow, cpc, obs,
                 outcomes>>

Activate ==
  /\ pc = "stashed" /\ pc' = "activated"
  /\ activatedAt' = TRUE
  /\ UNCHANGED <<state, establishedAt, disconnectedAt, deps, coaCount,
                 terminal, row, dpc, drow, cpc, obs, outcomes>>

EmitActivated ==
  /\ pc = "activated" /\ pc' = "to_auth"
  /\ obs' = [obs EXCEPT !.activated = TRUE]
  /\ UNCHANGED <<state, times, deps, coaCount, terminal, row, dpc, drow, cpc,
                 outcomes>>

\* transition overwrites the state, whatever a handler left there.
transition(next) ==
  /\ state' = next
  /\ UNCHANGED <<times, deps, coaCount, terminal, row, dpc, drow, cpc, obs,
                 outcomes>>

SendAuth == pc = "to_auth" /\ pc' = "auth_wait" /\ transition("auth_sent")
SendAcct == pc = "to_acct" /\ pc' = "acct_wait" /\ transition("acct_sent")

\* Run leaves an exchange for terminate(st).
Leave(st) ==
  /\ pc' = "terminate" /\ terminal' = st
  /\ UNCHANGED <<state, times, deps, coaCount, row, dpc, drow, cpc, obs,
                 outcomes>>

\* Access-Accept with an accounting phase to come.  Whether there is one
\* (include_acct_start) is read once, here, so it is a choice.
AuthAccepted ==
  /\ pc = "auth_wait"
  /\ pc' = "to_acct"
  /\ UNCHANGED <<state, times, deps, coaCount, terminal, row, dpc, drow, cpc,
                 obs, outcomes>>

\* Access-Accept without one; or a reject, another code, a timeout, an error.
AuthEnds ==
  /\ pc = "auth_wait"
  /\ Leave("established") \/ Leave("auth_failed")

\* Accounting-Response; or another code, a timeout, an error.
AcctEnds ==
  /\ pc = "acct_wait"
  /\ Leave("established") \/ Leave("acct_failed")

\* Fault: establishedAt is only stamped on the accounting path.
terminateUnstamped ==
  /\ pc = "terminate" /\ pc' = "terminal_event"
  /\ state' = terminal
  /\ establishedAt' = (state = "acct_sent" /\ terminal = "established")
  /\ UNCHANGED <<activatedAt, disconnectedAt, deps, coaCount, terminal, row,
                 dpc, drow, cpc, obs, outcomes>>

\* terminate, its critical section: overwrites the state as well.
terminate ==
  /\ pc = "terminate" /\ pc' = "terminal_event"
  /\ state' = terminal
  /\ establishedAt' = (establishedAt \/ terminal = "established")
  /\ UNCHANGED <<activatedAt, disconnectedAt, deps, coaCount, terminal, row,
                 dpc, drow, cpc, obs, outcomes>>

\* terminate, the subscriber_terminal event.
EmitTerminal ==
  /\ pc = "terminal_event" /\ pc' = "build"
  /\ obs' = [obs EXCEPT !.terminal = terminal, !.terminals = @ + 1]
  /\ UNCHANGED <<state, times, deps, coaCount, terminal, row, dpc, drow, cpc,
                 outcomes>>

\* Fault: the row takes the state of the moment, not terminate's argument.
BuildRowFromState ==
  /\ pc = "build" /\ pc' = "submit"
  /\ row' = buildOutcome("run", state)
  /\ UNCHANGED <<state, times, deps, coaCount, terminal, dpc, drow, cpc, obs,
                 outcomes>>

\* terminate, buildOutcome.
BuildRow ==
  /\ pc = "build" /\ pc' = "submit"
  /\ row' = buildOutcome("run", terminal)
  /\ UNCHANGED <<state, times, deps, coaCount, terminal, dpc, drow, cpc, obs,
                 outcomes>>

\* terminate, SubmitOutcome; Run returns terminal.
SubmitRow ==
  /\ pc = "submit" /\ pc' = "done"
  /\ outcomes' = Append(outcomes, row)
  /\ UNCHANGED <<state, times, deps, coaCount, terminal, row, dpc, drow, cpc,
                 obs>>

Run ==
  \/ Activate \/ EmitActivated \/ SendAuth \/ AuthAccepted \/ AuthEnds
  \/ SendAcct \/ AcctEnds \/ terminate \/ EmitTerminal \/ BuildRow \/ SubmitRow

-----------------------------------------------------------------------------
(* OnDisconnect and OnCoA, called from the listener's goroutines.          *)

\* deps.Load: nothing happens for a subscriber that Run has not reached.
LoadDeps(d) ==
  /\ dpc[d] = "idle"
  /\ dpc' = [dpc EXCEPT ![d] = IF deps THEN "lock" ELSE "done"]
  /\ UNCHANGED <<state, times, deps, coaCount, pc, terminal, row, drow, cpc,
                 obs, outcomes>>

AlreadyTerminated(d) ==
  /\ dpc[d] = "lock" /\ state = "terminated"
  /\ dpc' = [dpc EXCEPT ![d] = "done"]
  /\ UNCHANGED <<state, times, deps, coaCount, pc, terminal, row, drow, cpc,
                 obs, outcomes>>

\* The critical section: from any other state to terminated.
Disconnect(d) ==
  /\ dpc[d] = "lock" /\ state # "terminated"
  /\ state' = "terminated" /\ disconnectedAt' = TRUE
  /\ dpc' = [dpc EXCEPT ![d] = "received"]
  /\ UNCHANGED <<activatedAt, establishedAt, deps, coaCount, pc, terminal, row,
                 drow, cpc, obs, outcomes>>

\* disconnect_received, then state_changed.  No subscriber_terminal event.
EmitReceived(d) ==
  /\ dpc[d] = "received"
  /\ obs' = [obs EXCEPT !.disconnects = @ + 1]
  /\ dpc' = [dpc EXCEPT ![d] = "build"]
  /\ UNCHANGED <<state, times, deps, coaCount, pc, terminal, row, drow, cpc,
                 outcomes>>

\* Fault: only a session that was established gets a row.
BuildDisconnectRowIfEstablished(d) ==
  /\ dpc[d] = "build"
  /\ IF establishedAt
     THEN /\ drow' = [drow EXCEPT ![d] = buildOutcome(d, "terminated")]
          /\ dpc' = [dpc EXCEPT ![d] = "submit"]
     ELSE dpc' = [dpc EXCEPT ![d] = "done"] /\ UNCHANGED drow
  /\ UNCHANGED <<state, times, deps, coaCount, pc, terminal, row, cpc, obs,
                 outcomes>>

BuildDisconnectRow(d) ==
  /\ dpc[d] = "build"
  /\ drow' = [drow EXCEPT ![d] = buildOutcome(d, "terminated")]
  /\ dpc' = [dpc EXCEPT ![d] = "submit"]
  /\ UNCHANGED <<state, times, deps, coaCount, pc, terminal, row, cpc, obs,
                 outcomes>>

SubmitDisconnectRow(d) ==
  /\ dpc[d] = "submit"
  /\ outcomes' = Append(outcomes, drow[d])
  /\ dpc' = [dpc EXCEPT ![d] = "done"]
  /\ UNCHANGED <<state, times, deps, coaCount, pc, terminal, row, drow, cpc, obs>>

OnDisconnect(d) ==
  \/ AlreadyTerminated(d) \/ Disconnect(d) \/ EmitReceived(d)
  \/ BuildDisconnectRow(d) \/ SubmitDisconnectRow(d)

\* OnCoA counts first ...
CountCoA(c) ==
  /\ cpc[c] = "idle"
  /\ coaCount' = coaCount + 1
  /\ cpc' = [cpc EXCEPT ![c] = "counted"]
  /\ UNCHANGED <<state, times, deps, pc, terminal, row, dpc, drow, obs, outcomes>>

\* ... then emits coa_received, if Run has stored its Deps.
EmitCoA(c) ==
  /\ cpc[c] = "counted"
  /\ obs' = [obs EXCEPT !.coas = IF deps THEN @ + 1 ELSE @]
  /\ cpc' = [cpc EXCEPT ![c] = "done"]
  /\ UNCHANGED <<state, times, deps, coaCount, pc, terminal, row, dpc, drow,
                 outcomes>>

-----------------------------------------------------------------------------

Next ==
  \/ RunRefused \/ StashDeps \/ Run
  \/ \E d \in Disconnects : LoadDeps(d) \/ OnDisconnect(d)
  \/ \E c \in CoAs : CountCoA(c) \/ EmitCoA(c)

Spec == Init /\ [][Next]_vars

\* Go runs every runnable goroutine, and Sender.Send returns (EverySendReturns
\* of IOEngine).  Nothing obliges the scenario or the server to call in.
Fairness == WF_vars(Run) /\ \A d \in Disconnects : WF_vars(OnDisconnect(d))

FairSpec == Spec /\ Fairness

-----------------------------------------------------------------------------
(* Properties.                                                             *)

Rows == {outcomes[i] : i \in DOMAIN outcomes}
Terminated == {i \in DOMAIN outcomes : outcomes[i].final = "terminated"}
Quiet == pc = "done" /\ \A d \in Disconnects : dpc[d] \in {"idle", "done"}
RowType == [by : Disconnects \cup {"run"}, final : States, activated : BOOLEAN,
            established : BOOLEAN, disconnected : BOOLEAN, coa : Nat]
ObsType == [activated : BOOLEAN, terminal : States \cup {None},
            terminals : Nat, disconnects : Nat, coas : Nat]

\* Types of every variable.
TypeOK ==
  /\ state \in States
  /\ activatedAt \in BOOLEAN /\ establishedAt \in BOOLEAN
  /\ disconnectedAt \in BOOLEAN
  /\ deps \in BOOLEAN /\ coaCount \in Nat
  /\ pc \in {"new", "refused", "stashed", "activated", "to_auth", "auth_wait",
             "to_acct", "acct_wait", "terminate", "terminal_event", "build",
             "submit", "done"}
  /\ terminal \in {None, "auth_failed", "acct_failed", "established"}
  /\ row \in RowType \cup {None}
  /\ dpc \in [Disconnects -> {"idle", "lock", "received", "build", "submit", "done"}]
  /\ drow \in [Disconnects -> RowType \cup {None}]
  /\ cpc \in [CoAs -> {"idle", "counted", "done"}]
  /\ obs \in ObsType
  /\ outcomes \in Seq(RowType)

Coherent(r) ==
  /\ r.established => r.activated
  /\ r.final = "established" => r.established
  /\ r.final \in {"auth_failed", "acct_failed"} => ~r.established
  /\ r.final = "terminated" => r.disconnected

\* Every row that buildOutcome took while the other goroutines moved on is
\* consistent in itself: an established session has both ends of its latency,
\* a failed one has none, a terminated one its disconnect time.
RowsCoherent == \A r \in Rows : Coherent(r)

\* summary.json and subscribers.parquet agree on how Run ended, whatever
\* disconnects came in between the terminal event and the row.
SummaryMatchesRow ==
  /\ obs.terminals <= 1
  /\ \A r \in Rows : r.by = "run" => obs.terminal = r.final /\ obs.activated

\* Once Run has returned and no handler is under way, Run has submitted its
\* row, nobody has submitted two, every disconnect_received is matched by a
\* terminated row (OnDisconnect's "fresh outcome"), and the state the
\* subscriber was left in has been reported.
QuietAccounting ==
  Quiet =>
    /\ \E i \in DOMAIN outcomes : outcomes[i].by = "run"
    /\ \A i, j \in DOMAIN outcomes : outcomes[i].by = outcomes[j].by => i = j
    /\ Cardinality(Terminated) = obs.disconnects
    /\ \E r \in Rows : r.final = state

\* "A race between Run completing and a disconnect arriving does not
\* double-emit the outcome": the subscriber is left with one row.  Violated:
\* the state OnDisconnect consults tells it of another disconnect, not of the
\* row Run submits or has submitted.
OneRowPerSubscriber == Quiet => Len(outcomes) = 1

\* A Run that began and a handler that took effect get their row submitted.
EveryoneReports ==
  /\ (pc = "stashed") ~> (\E r \in Rows : r.by = "run")
  /\ \A d \in Disconnects :
       (dpc[d] = "received") ~> (\E r \in Rows : r.by = d)

=============================================================================
