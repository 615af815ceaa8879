------------------------- MODULE Subscriber_proofs -------------------------
(***************************************************************************)
(* Proofs about Subscriber, for every number of disconnects and of CoAs    *)
(* that arrive while Run is under way.                                     *)
(***************************************************************************)
EXTENDS Subscriber, FiniteSetTheorems, TLAPS

Ends    == {"auth_failed", "acct_failed", "established"}
Ending  == {"terminate", "terminal_event", "build", "submit", "done"}
Emitted == {"to_auth", "auth_wait", "to_acct", "acct_wait"} \cup Ending

\* A coherent row, submitted by who.
RowOf(who, r) == r \in RowType /\ r.by = who /\ Coherent(r)

\* What Run has stamped and emitted by the time it is at pc.  Only Run writes
\* these variables, so what OnDisconnect does to the state in between cannot
\* make the terminal event and the row differ.
RunInv ==
  /\ pc \in {"activated"} \cup Emitted => activatedAt
  /\ pc \in Emitted => obs.activated
  /\ pc \in Ending => terminal \in Ends
  /\ establishedAt <=> pc \in Ending \ {"terminate"} /\ terminal = "established"
  /\ obs.terminals = IF pc \in {"build", "submit", "done"} THEN 1 ELSE 0
  /\ pc \in {"build", "submit", "done"} => obs.terminal = terminal
  /\ pc = "submit" => RowOf("run", row) /\ row.final = terminal

\* A handler that took effect has stamped the disconnect time.
HandlerInv ==
  \A d \in Disconnects :
    /\ dpc[d] \in {"received", "build", "submit"} => disconnectedAt
    /\ dpc[d] = "submit" => RowOf(d, drow[d]) /\ drow[d].final = "terminated"

\* Run's row is there only once Run is done.
RowInv ==
  \A r \in Rows :
    Coherent(r) /\ (r.by = "run" => pc = "done" /\ r.final = terminal)

\* Who submitted what: Run one row, as its last step, and a handler one
\* terminated row, as its last.
WhoInv ==
  /\ pc = "done" => \E i \in DOMAIN outcomes : outcomes[i].by = "run"
  /\ \A i \in DOMAIN outcomes :
       IF outcomes[i].by = "run" THEN pc = "done" /\ outcomes[i].final = terminal
       ELSE dpc[outcomes[i].by] = "done" /\ outcomes[i].final = "terminated"
  /\ \A i, j \in DOMAIN outcomes : outcomes[i].by = outcomes[j].by => i = j

\* A disconnect_received that was counted has its row, or a handler about to
\* submit it.
Reporting == {d \in Disconnects : dpc[d] \in {"build", "submit"}}
CountInv ==
  /\ IsFiniteSet(Reporting)
  /\ obs.disconnects = Cardinality(Terminated) + Cardinality(Reporting)

\* Whose state it is: Run's end, or that of a handler which has reported it
\* or is about to.
StateInv ==
  /\ pc \in Ending \ {"terminate"} => state \in {terminal, "terminated"}
  /\ state = "terminated" =>
       \/ \E d \in Disconnects : dpc[d] \in {"received", "build", "submit"}
       \/ Terminated # {}

LEMMA RowsAfterAppend ==
  ASSUME outcomes \in Seq(RowType), NEW x \in RowType,
         outcomes' = Append(outcomes, x)
  PROVE  \A r \in Rows' : r \in Rows \/ r = x
<1> SUFFICES ASSUME NEW i \in DOMAIN outcomes', outcomes'[i] # x
             PROVE  outcomes'[i] \in Rows
  BY DEF Rows
<1>1. i \in DOMAIN outcomes /\ outcomes'[i] = outcomes[i]
  OBVIOUS
<1> QED BY <1>1 DEF Rows

-----------------------------------------------------------------------------

\* Every step keeps the types; terminate's argument is one of Run's three ends.
LEMMA TypeNext ==
  ASSUME TypeOK, RunInv, HandlerInv, [Next]_vars
  PROVE  TypeOK'
<1> USE DEF vars, times, Ends, Ending, Emitted
<1>1. CASE RunRefused
  BY <1>1 DEF RunRefused, TypeOK
<1>2. CASE StashDeps
  BY <1>2 DEF StashDeps, TypeOK
<1>3. CASE Activate
  BY <1>3 DEF Activate, TypeOK
<1>4. CASE EmitActivated
  <2>1. obs' \in ObsType
    BY <1>4 DEF EmitActivated, TypeOK, ObsType
  <2> QED BY <1>4, <2>1 DEF EmitActivated, TypeOK, ObsType
<1>5. CASE SendAuth
  BY <1>5 DEF SendAuth, transition, TypeOK, States
<1>6. CASE AuthAccepted
  BY <1>6 DEF AuthAccepted, TypeOK
<1>7. CASE AuthEnds
  BY <1>7 DEF AuthEnds, Leave, TypeOK
<1>8. CASE SendAcct
  BY <1>8 DEF SendAcct, transition, TypeOK, States
<1>9. CASE AcctEnds
  BY <1>9 DEF AcctEnds, Leave, TypeOK
<1>10. CASE terminate
  BY <1>10 DEF terminate, TypeOK, States, RunInv
<1>11. CASE EmitTerminal
  <2>1. obs' \in ObsType
    <3>1. obs \in ObsType /\ terminal \in States \cup {None}
      BY DEF TypeOK, ObsType, States
    <3>2. obs' = [obs EXCEPT !.terminal = terminal, !.terminals = @ + 1]
      BY <1>11 DEF EmitTerminal
    <3>3. obs' = [activated |-> obs.activated, terminal |-> terminal,
                  terminals |-> obs.terminals + 1,
                  disconnects |-> obs.disconnects, coas |-> obs.coas]
      BY <3>1, <3>2 DEF ObsType
    <3>4. /\ obs.activated \in BOOLEAN /\ obs.terminals + 1 \in Nat
          /\ obs.disconnects \in Nat /\ obs.coas \in Nat
      BY <3>1 DEF ObsType
    <3> QED BY <3>1, <3>3, <3>4 DEF ObsType
  <2> QED BY <1>11, <2>1 DEF EmitTerminal, TypeOK, ObsType
<1>12. CASE BuildRow
  BY <1>12 DEF BuildRow, buildOutcome, TypeOK, RowType, States, RunInv
<1>13. CASE SubmitRow
  <2>1. row \in RowType
    BY <1>13 DEF SubmitRow, RunInv, RowOf
  <2>2. outcomes' \in Seq(RowType)
    BY <1>13, <2>1 DEF SubmitRow, TypeOK
  <2> QED BY <1>13, <2>2 DEF SubmitRow, TypeOK
<1>14. ASSUME NEW x \in Disconnects, LoadDeps(x) PROVE TypeOK'
  BY <1>14 DEF LoadDeps, TypeOK
<1>15. ASSUME NEW x \in Disconnects, AlreadyTerminated(x) PROVE TypeOK'
  BY <1>15 DEF AlreadyTerminated, TypeOK
<1>16. ASSUME NEW x \in Disconnects, Disconnect(x) PROVE TypeOK'
  BY <1>16 DEF Disconnect, TypeOK, States
<1>17. ASSUME NEW x \in Disconnects, EmitReceived(x) PROVE TypeOK'
  <2>1. obs' \in ObsType
    BY <1>17 DEF EmitReceived, TypeOK, ObsType
  <2> QED BY <1>17, <2>1 DEF EmitReceived, TypeOK
<1>18. ASSUME NEW x \in Disconnects, BuildDisconnectRow(x) PROVE TypeOK'
  BY <1>18 DEF BuildDisconnectRow, buildOutcome, TypeOK, RowType, States
<1>19. ASSUME NEW x \in Disconnects, SubmitDisconnectRow(x) PROVE TypeOK'
  <2>1. drow[x] \in RowType
    BY <1>19 DEF SubmitDisconnectRow, HandlerInv, RowOf
  <2>2. outcomes' \in Seq(RowType)
    BY <1>19, <2>1 DEF SubmitDisconnectRow, TypeOK
  <2> QED BY <1>19, <2>2 DEF SubmitDisconnectRow, TypeOK
<1>20. ASSUME NEW x \in CoAs, CountCoA(x) PROVE TypeOK'
  BY <1>20 DEF CountCoA, TypeOK
<1>21. ASSUME NEW x \in CoAs, EmitCoA(x) PROVE TypeOK'
  <2>1. obs' \in ObsType
    <3>1. obs \in ObsType
      BY DEF TypeOK, ObsType
    <3>2. obs' = [obs EXCEPT !.coas = @ + 1] \/ obs' = obs
      BY <1>21, <3>1 DEF EmitCoA, ObsType
    <3> QED BY <3>1, <3>2 DEF ObsType
  <2> QED BY <1>21, <2>1 DEF EmitCoA, TypeOK, ObsType
<1>22. CASE UNCHANGED vars
  BY <1>22 DEF TypeOK
<1> QED BY <1>1, <1>2, <1>3, <1>4, <1>5, <1>6, <1>7, <1>8, <1>9, <1>10, <1>11, <1>12,
           <1>13, <1>14, <1>15, <1>16, <1>17, <1>18, <1>19, <1>20, <1>21, <1>22
  DEF Next, Run, OnDisconnect

\* Every step of Run, or of a handler beside it, keeps Run's invariant.
LEMMA RunNext ==
  ASSUME TypeOK, RunInv, HandlerInv, [Next]_vars
  PROVE  RunInv'
<1> USE DEF vars, times, Ends, Ending, Emitted
<1>1. CASE RunRefused
  BY <1>1 DEF RunRefused, RunInv
<1>2. CASE StashDeps
  BY <1>2 DEF StashDeps, RunInv
<1>3. CASE Activate
  BY <1>3 DEF Activate, RunInv
<1>4. CASE EmitActivated
  BY <1>4 DEF EmitActivated, RunInv
<1>5. CASE SendAuth
  BY <1>5 DEF SendAuth, transition, RunInv
<1>6. CASE AuthAccepted
  BY <1>6 DEF AuthAccepted, RunInv
<1>7. CASE AuthEnds
  <2>1. CASE Leave("established")
    BY <1>7, <2>1 DEF AuthEnds, Leave, RunInv
  <2>2. CASE Leave("auth_failed")
    BY <1>7, <2>2 DEF AuthEnds, Leave, RunInv
  <2> QED BY <1>7, <2>1, <2>2 DEF AuthEnds
<1>8. CASE SendAcct
  BY <1>8 DEF SendAcct, transition, RunInv
<1>9. CASE AcctEnds
  <2>1. CASE Leave("established")
    BY <1>9, <2>1 DEF AcctEnds, Leave, RunInv
  <2>2. CASE Leave("acct_failed")
    BY <1>9, <2>2 DEF AcctEnds, Leave, RunInv
  <2> QED BY <1>9, <2>1, <2>2 DEF AcctEnds
<1>10. CASE terminate
  BY <1>10 DEF terminate, RunInv
<1>11. CASE EmitTerminal
  BY <1>11 DEF EmitTerminal, RunInv
<1>12. CASE BuildRow
  <2>1. row' = buildOutcome("run", terminal) /\ RowOf("run", row')
    BY <1>12 DEF BuildRow, RowOf, RowType, States, buildOutcome, Coherent, TypeOK, RunInv
  <2> QED BY <1>12, <2>1 DEF BuildRow, buildOutcome, RunInv
<1>13. CASE SubmitRow
  BY <1>13 DEF SubmitRow, RunInv
<1>14. ASSUME NEW x \in Disconnects, LoadDeps(x) PROVE RunInv'
  BY <1>14 DEF LoadDeps, RunInv
<1>15. ASSUME NEW x \in Disconnects, AlreadyTerminated(x) PROVE RunInv'
  BY <1>15 DEF AlreadyTerminated, RunInv
<1>16. ASSUME NEW x \in Disconnects, Disconnect(x) PROVE RunInv'
  BY <1>16 DEF Disconnect, RunInv
<1>17. ASSUME NEW x \in Disconnects, EmitReceived(x) PROVE RunInv'
  BY <1>17 DEF EmitReceived, RunInv
<1>18. ASSUME NEW x \in Disconnects, BuildDisconnectRow(x) PROVE RunInv'
  BY <1>18 DEF BuildDisconnectRow, buildOutcome, RunInv
<1>19. ASSUME NEW x \in Disconnects, SubmitDisconnectRow(x) PROVE RunInv'
  BY <1>19 DEF SubmitDisconnectRow, RunInv
<1>20. ASSUME NEW x \in CoAs, CountCoA(x) PROVE RunInv'
  BY <1>20 DEF CountCoA, RunInv
<1>21. ASSUME NEW x \in CoAs, EmitCoA(x) PROVE RunInv'
  BY <1>21 DEF EmitCoA, RunInv
<1>22. CASE UNCHANGED vars
  BY <1>22 DEF RunInv
<1> QED BY <1>1, <1>2, <1>3, <1>4, <1>5, <1>6, <1>7, <1>8, <1>9, <1>10, <1>11, <1>12,
           <1>13, <1>14, <1>15, <1>16, <1>17, <1>18, <1>19, <1>20, <1>21, <1>22
  DEF Next, Run, OnDisconnect

\* A handler's row stays what it was when it was built.
LEMMA HandlerNext ==
  ASSUME TypeOK, RunInv, HandlerInv, [Next]_vars
  PROVE  HandlerInv'
<1> USE DEF vars, times, Ends, Ending, Emitted
<1>1. CASE RunRefused
  BY <1>1 DEF RunRefused, HandlerInv
<1>2. CASE StashDeps
  BY <1>2 DEF StashDeps, HandlerInv
<1>3. CASE Activate
  BY <1>3 DEF Activate, HandlerInv
<1>4. CASE EmitActivated
  BY <1>4 DEF EmitActivated, HandlerInv
<1>5. CASE SendAuth
  BY <1>5 DEF SendAuth, transition, HandlerInv
<1>6. CASE AuthAccepted
  BY <1>6 DEF AuthAccepted, HandlerInv
<1>7. CASE AuthEnds
  BY <1>7 DEF AuthEnds, Leave, HandlerInv
<1>8. CASE SendAcct
  BY <1>8 DEF SendAcct, transition, HandlerInv
<1>9. CASE AcctEnds
  BY <1>9 DEF AcctEnds, Leave, HandlerInv
<1>10. CASE terminate
  BY <1>10 DEF terminate, HandlerInv
<1>11. CASE EmitTerminal
  BY <1>11 DEF EmitTerminal, HandlerInv
<1>12. CASE BuildRow
  BY <1>12 DEF BuildRow, buildOutcome, HandlerInv
<1>13. CASE SubmitRow
  BY <1>13 DEF SubmitRow, HandlerInv
<1>14. ASSUME NEW x \in Disconnects, LoadDeps(x) PROVE HandlerInv'
  BY <1>14 DEF LoadDeps, HandlerInv
<1>15. ASSUME NEW x \in Disconnects, AlreadyTerminated(x) PROVE HandlerInv'
  BY <1>15 DEF AlreadyTerminated, HandlerInv
<1>16. ASSUME NEW x \in Disconnects, Disconnect(x) PROVE HandlerInv'
  BY <1>16 DEF Disconnect, HandlerInv
<1>17. ASSUME NEW x \in Disconnects, EmitReceived(x) PROVE HandlerInv'
  BY <1>17 DEF EmitReceived, HandlerInv
<1>18. ASSUME NEW x \in Disconnects, BuildDisconnectRow(x) PROVE HandlerInv'
  <2>1. RowOf(x, drow'[x])
    BY <1>18
    DEF BuildDisconnectRow, RowOf, RowType, States, buildOutcome, Coherent, TypeOK,
        RunInv, HandlerInv
  <2>2. drow'[x].final = "terminated"
    BY <1>18 DEF BuildDisconnectRow, buildOutcome, TypeOK
  <2> QED BY <1>18, <2>1, <2>2 DEF BuildDisconnectRow, HandlerInv
<1>19. ASSUME NEW x \in Disconnects, SubmitDisconnectRow(x) PROVE HandlerInv'
  BY <1>19 DEF SubmitDisconnectRow, HandlerInv
<1>20. ASSUME NEW x \in CoAs, CountCoA(x) PROVE HandlerInv'
  BY <1>20 DEF CountCoA, HandlerInv
<1>21. ASSUME NEW x \in CoAs, EmitCoA(x) PROVE HandlerInv'
  BY <1>21 DEF EmitCoA, HandlerInv
<1>22. CASE UNCHANGED vars
  BY <1>22 DEF HandlerInv
<1> QED BY <1>1, <1>2, <1>3, <1>4, <1>5, <1>6, <1>7, <1>8, <1>9, <1>10, <1>11, <1>12,
           <1>13, <1>14, <1>15, <1>16, <1>17, <1>18, <1>19, <1>20, <1>21, <1>22
  DEF Next, Run, OnDisconnect

\* Rows are only added, and Run adds its own as its last step.
LEMMA RowNext ==
  ASSUME TypeOK, RunInv, HandlerInv, RowInv, [Next]_vars
  PROVE  RowInv'
<1> USE DEF vars, times, Ends, Ending, Emitted
<1>1. CASE RunRefused
  BY <1>1 DEF RunRefused, RowInv, Rows
<1>2. CASE StashDeps
  BY <1>2 DEF StashDeps, RowInv, Rows
<1>3. CASE Activate
  BY <1>3 DEF Activate, RowInv, Rows
<1>4. CASE EmitActivated
  BY <1>4 DEF EmitActivated, RowInv, Rows
<1>5. CASE SendAuth
  BY <1>5 DEF SendAuth, transition, RowInv, Rows
<1>6. CASE AuthAccepted
  BY <1>6 DEF AuthAccepted, RowInv, Rows
<1>7. CASE AuthEnds
  BY <1>7 DEF AuthEnds, Leave, RowInv, Rows
<1>8. CASE SendAcct
  BY <1>8 DEF SendAcct, transition, RowInv, Rows
<1>9. CASE AcctEnds
  BY <1>9 DEF AcctEnds, Leave, RowInv, Rows
<1>10. CASE terminate
  BY <1>10 DEF terminate, RowInv, Rows
<1>11. CASE EmitTerminal
  BY <1>11 DEF EmitTerminal, RowInv, Rows
<1>12. CASE BuildRow
  BY <1>12 DEF BuildRow, buildOutcome, RowInv, Rows
<1>13. CASE SubmitRow
  BY <1>13, RowsAfterAppend DEF SubmitRow, RowOf, TypeOK, RunInv, RowInv
<1>14. ASSUME NEW x \in Disconnects, LoadDeps(x) PROVE RowInv'
  BY <1>14 DEF LoadDeps, RowInv, Rows
<1>15. ASSUME NEW x \in Disconnects, AlreadyTerminated(x) PROVE RowInv'
  BY <1>15 DEF AlreadyTerminated, RowInv, Rows
<1>16. ASSUME NEW x \in Disconnects, Disconnect(x) PROVE RowInv'
  BY <1>16 DEF Disconnect, RowInv, Rows
<1>17. ASSUME NEW x \in Disconnects, EmitReceived(x) PROVE RowInv'
  BY <1>17 DEF EmitReceived, RowInv, Rows
<1>18. ASSUME NEW x \in Disconnects, BuildDisconnectRow(x) PROVE RowInv'
  BY <1>18 DEF BuildDisconnectRow, buildOutcome, RowInv, Rows
<1>19. ASSUME NEW x \in Disconnects, SubmitDisconnectRow(x) PROVE RowInv'
  BY <1>19, RowsAfterAppend, RunAssumption
  DEF SubmitDisconnectRow, RowOf, TypeOK, HandlerInv, RowInv
<1>20. ASSUME NEW x \in CoAs, CountCoA(x) PROVE RowInv'
  BY <1>20 DEF CountCoA, RowInv, Rows
<1>21. ASSUME NEW x \in CoAs, EmitCoA(x) PROVE RowInv'
  BY <1>21 DEF EmitCoA, RowInv, Rows
<1>22. CASE UNCHANGED vars
  BY <1>22 DEF RowInv, Rows
<1> QED BY <1>1, <1>2, <1>3, <1>4, <1>5, <1>6, <1>7, <1>8, <1>9, <1>10, <1>11, <1>12,
           <1>13, <1>14, <1>15, <1>16, <1>17, <1>18, <1>19, <1>20, <1>21, <1>22
  DEF Next, Run, OnDisconnect

\* Only Run's last step and a handler's last step submit a row; no other step
\* returns from Run, and a handler that is done stays so.
LEMMA SubmitSteps ==
  ASSUME TypeOK, [Next]_vars, ~SubmitRow,
         \A d \in Disconnects : ~SubmitDisconnectRow(d)
  PROVE  /\ outcomes' = outcomes
         /\ pc' = "done" <=> pc = "done"
         /\ pc = "done" => terminal' = terminal
         /\ \A d \in Disconnects : dpc[d] = "done" => dpc'[d] = "done"
<1> USE DEF vars, times
<1>1. CASE RunRefused \/ StashDeps \/ Run
  BY <1>1
  DEF RunRefused, StashDeps, Run, Activate, EmitActivated, SendAuth, SendAcct,
      transition, AuthAccepted, AuthEnds, AcctEnds, Leave, terminate, EmitTerminal,
      BuildRow
<1>2. ASSUME NEW x \in Disconnects, LoadDeps(x) \/ OnDisconnect(x) 
      PROVE  /\ outcomes' = outcomes /\ pc' = pc /\ terminal' = terminal
             /\ \A d \in Disconnects : dpc[d] = "done" => dpc'[d] = "done"
  BY <1>2
  DEF LoadDeps, OnDisconnect, AlreadyTerminated, Disconnect, EmitReceived,
      BuildDisconnectRow, TypeOK
<1>3. ASSUME NEW x \in CoAs, CountCoA(x) \/ EmitCoA(x)
      PROVE  UNCHANGED <<outcomes, pc, terminal, dpc>>
  BY <1>3 DEF CountCoA, EmitCoA
<1>4. CASE UNCHANGED vars
  BY <1>4
<1> QED BY <1>1, <1>2, <1>3, <1>4 DEF Next

\* What an appended row leaves alone, and what it adds.
LEMMA RowAppended ==
  ASSUME outcomes \in Seq(RowType), NEW x \in RowType,
         outcomes' = Append(outcomes, x)
  PROVE  LET n == Len(outcomes) + 1 IN
         /\ n \in DOMAIN outcomes' /\ n \notin DOMAIN outcomes /\ outcomes'[n] = x
         /\ DOMAIN outcomes' = DOMAIN outcomes \cup {n}
         /\ \A i \in DOMAIN outcomes : outcomes'[i] = outcomes[i]
  OBVIOUS

LEMMA TerminatedFinite ==
  ASSUME TypeOK
  PROVE  IsFiniteSet(Terminated) /\ Cardinality(Terminated) \in Nat
<1>1. IsFiniteSet(1 .. Len(outcomes)) /\ Terminated \subseteq 1 .. Len(outcomes)
  BY FS_Interval DEF Terminated, TypeOK
<1> QED BY <1>1, FS_Subset, FS_CardinalityType

LEMMA Submitters ==
  ASSUME TypeOK
  PROVE  \A i \in DOMAIN outcomes : outcomes[i].by \in Disconnects \cup {"run"}
<1>1. \A i \in DOMAIN outcomes : outcomes[i] \in RowType
  BY DEF TypeOK
<1> QED BY <1>1 DEF RowType

\* Nobody submits twice.
LEMMA WhoNext ==
  ASSUME TypeOK, RunInv, HandlerInv, WhoInv, [Next]_vars
  PROVE  WhoInv'
<1> DEFINE n == Len(outcomes) + 1
<1>1. CASE SubmitRow
  <2>1. /\ pc = "submit" /\ pc' = "done" /\ dpc' = dpc /\ terminal' = terminal
        /\ outcomes' = Append(outcomes, row)
        /\ row \in RowType /\ row.by = "run" /\ row.final = terminal
    BY <1>1 DEF SubmitRow, RunInv, RowOf
  <2>2. /\ n \in DOMAIN outcomes' /\ n \notin DOMAIN outcomes /\ outcomes'[n] = row
        /\ DOMAIN outcomes' = DOMAIN outcomes \cup {n}
        /\ \A i \in DOMAIN outcomes : outcomes'[i] = outcomes[i]
    BY <2>1, RowAppended DEF TypeOK
  <2>3. \A i \in DOMAIN outcomes : outcomes[i].by # "run"
    BY <2>1 DEF WhoInv
  <2> HIDE DEF n
  <2> QED BY <2>1, <2>2, <2>3 DEF WhoInv
<1>2. ASSUME NEW x \in Disconnects, SubmitDisconnectRow(x)
      PROVE  WhoInv'
  <2>1. /\ dpc[x] = "submit" /\ pc' = pc /\ terminal' = terminal
        /\ dpc' = [dpc EXCEPT ![x] = "done"]
        /\ outcomes' = Append(outcomes, drow[x])
        /\ drow[x] \in RowType /\ drow[x].by = x /\ drow[x].final = "terminated"
    BY <1>2 DEF SubmitDisconnectRow, HandlerInv, RowOf
  <2>2. /\ n \in DOMAIN outcomes' /\ n \notin DOMAIN outcomes /\ outcomes'[n] = drow[x]
        /\ DOMAIN outcomes' = DOMAIN outcomes \cup {n}
        /\ \A i \in DOMAIN outcomes : outcomes'[i] = outcomes[i]
    BY <2>1, RowAppended DEF TypeOK
  <2>3. x # "run" /\ \A i \in DOMAIN outcomes : outcomes[i].by # x
    BY <2>1, RunAssumption DEF WhoInv
  <2>4. dpc'[x] = "done" /\ \A d \in Disconnects : dpc[d] = "done" => dpc'[d] = "done"
    BY <2>1 DEF TypeOK
  <2>5. \A i \in DOMAIN outcomes : outcomes[i].by \in Disconnects \cup {"run"}
    BY Submitters
  <2> HIDE DEF n
  <2> QED BY <2>1, <2>2, <2>3, <2>4, <2>5 DEF WhoInv
<1>3. CASE ~SubmitRow /\ \A d \in Disconnects : ~SubmitDisconnectRow(d)
  BY <1>3, Submitters, SubmitSteps DEF WhoInv
<1> QED BY <1>1, <1>2, <1>3

\* Every step that leaves the rows alone counts no disconnect, except
\* EmitReceived, which leaves its handler about to report.
LEMMA CountNext ==
  ASSUME TypeOK, RunInv, HandlerInv, CountInv, [Next]_vars
  PROVE  CountInv'
<1> USE DEF vars, times
<1> DEFINE n == Len(outcomes) + 1
<1>1. IsFiniteSet(Terminated) /\ Cardinality(Terminated) \in Nat
  BY TerminatedFinite
<1>2. obs.disconnects \in Nat
  BY DEF TypeOK, ObsType
<1>3. CASE SubmitRow
  <2>1. /\ outcomes' = Append(outcomes, row) /\ obs' = obs /\ dpc' = dpc
        /\ row \in RowType /\ row.final = terminal /\ terminal \in Ends
    BY <1>3 DEF SubmitRow, RunInv, RowOf, Ending
  <2>2. Terminated' = Terminated
    BY <2>1, RowAppended DEF Terminated, TypeOK, Ends
  <2> QED BY <2>1, <2>2 DEF CountInv, Reporting
<1>4. ASSUME NEW x \in Disconnects, SubmitDisconnectRow(x)
      PROVE  CountInv'
  <2>1. /\ dpc[x] = "submit" /\ dpc' = [dpc EXCEPT ![x] = "done"] /\ obs' = obs
        /\ outcomes' = Append(outcomes, drow[x])
        /\ drow[x] \in RowType /\ drow[x].final = "terminated"
    BY <1>4 DEF SubmitDisconnectRow, HandlerInv, RowOf
  <2>2. Terminated' = Terminated \cup {n} /\ n \notin Terminated
    BY <2>1, RowAppended DEF Terminated, TypeOK
  <2>3. Reporting' = Reporting \ {x} /\ x \in Reporting
    BY <2>1 DEF Reporting, TypeOK
  <2>4. Cardinality(Terminated') = Cardinality(Terminated) + 1
    BY <2>2, <1>1, FS_AddElement
  <2>5. IsFiniteSet(Reporting') /\ Cardinality(Reporting') = Cardinality(Reporting) - 1
    BY <2>3, FS_RemoveElement DEF CountInv
  <2> QED BY <1>1, <2>1, <2>4, <2>5, FS_CardinalityType DEF CountInv
<1>5. ASSUME NEW x \in Disconnects, EmitReceived(x)
      PROVE  CountInv'
  <2>1. Terminated' = Terminated /\ obs'.disconnects = obs.disconnects + 1
    BY <1>5 DEF EmitReceived, Terminated, TypeOK, ObsType
  <2>2. Reporting' = Reporting \cup {x} /\ x \notin Reporting
    BY <1>5 DEF EmitReceived, Reporting, TypeOK
  <2>3. IsFiniteSet(Reporting') /\ Cardinality(Reporting') = Cardinality(Reporting) + 1
    BY <2>2, FS_AddElement DEF CountInv
  <2> QED BY <1>1, <2>1, <2>3, FS_CardinalityType DEF CountInv
<1>6. CASE /\ ~SubmitRow
           /\ \A d \in Disconnects : ~SubmitDisconnectRow(d) /\ ~EmitReceived(d)
  <2>1. outcomes' = outcomes
    BY <1>6, SubmitSteps
  <2>2. obs'.disconnects = obs.disconnects /\ Reporting' = Reporting
    <3>1. CASE RunRefused \/ StashDeps \/ Run \/ UNCHANGED vars
      <4>1. dpc' = dpc
        BY <1>6, <3>1
        DEF RunRefused, StashDeps, Run, Activate, EmitActivated, SendAuth, SendAcct,
            transition, AuthAccepted, AuthEnds, AcctEnds, Leave, terminate,
            EmitTerminal, BuildRow
      <4>2. \/ obs' = obs
            \/ obs' = [obs EXCEPT !.activated = TRUE]
            \/ obs' = [obs EXCEPT !.terminal = terminal, !.terminals = @ + 1]
        BY <1>6, <3>1
        DEF RunRefused, StashDeps, Run, Activate, EmitActivated, SendAuth, SendAcct,
            transition, AuthAccepted, AuthEnds, AcctEnds, Leave, terminate,
            EmitTerminal, BuildRow
      <4> QED BY <4>1, <4>2 DEF Reporting, TypeOK, ObsType
    <3>2. ASSUME NEW x \in Disconnects, LoadDeps(x) \/ OnDisconnect(x)
          PROVE  obs' = obs /\ Reporting' = Reporting
      BY <1>6, <3>2
      DEF LoadDeps, OnDisconnect, AlreadyTerminated, Disconnect, BuildDisconnectRow,
          Reporting, TypeOK
    <3>3. ASSUME NEW x \in CoAs, CountCoA(x) \/ EmitCoA(x)
          PROVE  obs'.disconnects = obs.disconnects /\ Reporting' = Reporting
      BY <3>3 DEF CountCoA, EmitCoA, Reporting, TypeOK, ObsType
    <3> QED BY <1>6, <3>1, <3>2, <3>3 DEF Next
  <2> QED BY <2>1, <2>2 DEF CountInv, Terminated
<1> QED BY <1>3, <1>4, <1>5, <1>6

\* Run or a handler may overwrite the other's state, never without a row.
LEMMA StateNext ==
  ASSUME TypeOK, RunInv, HandlerInv, StateInv, [Next]_vars
  PROVE  StateInv'
<1> USE DEF vars, times, Ends, Ending
<1>1. CASE RunRefused \/ StashDeps \/ Run
  <2>1. CASE SubmitRow
    <3>1. /\ outcomes' = Append(outcomes, row) /\ row \in RowType
          /\ pc = "submit" /\ pc' = "done" /\ UNCHANGED <<state, terminal, dpc>>
      BY <2>1 DEF SubmitRow, RunInv, RowOf
    <3>2. Terminated \subseteq Terminated'
      BY <3>1, RowAppended DEF Terminated, TypeOK
    <3> QED BY <3>1, <3>2 DEF StateInv
  <2>2. CASE RunRefused \/ StashDeps \/ Activate \/ EmitActivated \/ AuthAccepted
             \/ EmitTerminal \/ BuildRow
    BY <2>2
    DEF RunRefused, StashDeps, Activate, EmitActivated, AuthAccepted, EmitTerminal,
        BuildRow, StateInv, Terminated
  <2>3. CASE SendAuth \/ SendAcct
    BY <2>3 DEF SendAuth, SendAcct, transition, StateInv
  <2>4. CASE AuthEnds \/ AcctEnds
    BY <2>4 DEF AuthEnds, AcctEnds, Leave, StateInv, Terminated
  <2>5. CASE terminate
    BY <2>5 DEF terminate, RunInv, StateInv
  <2> QED BY <1>1, <2>1, <2>2, <2>3, <2>4, <2>5 DEF Run
<1>2. ASSUME NEW x \in Disconnects, LoadDeps(x) \/ OnDisconnect(x)
      PROVE  StateInv'
  <2>1. CASE LoadDeps(x) \/ AlreadyTerminated(x)
    BY <2>1 DEF LoadDeps, AlreadyTerminated, StateInv, Terminated, TypeOK
  <2>2. CASE Disconnect(x)
    BY <2>2 DEF Disconnect, StateInv, TypeOK
  <2>3. CASE EmitReceived(x) \/ BuildDisconnectRow(x)
    BY <2>3 DEF EmitReceived, BuildDisconnectRow, StateInv, Terminated, TypeOK
  <2>4. CASE SubmitDisconnectRow(x)
    <3>1. /\ outcomes' = Append(outcomes, drow[x])
          /\ drow[x] \in RowType /\ drow[x].final = "terminated"
          /\ UNCHANGED <<pc, state, terminal>>
      BY <2>4 DEF SubmitDisconnectRow, HandlerInv, RowOf
    <3>2. Terminated' # {}
      BY <3>1, RowAppended DEF Terminated, TypeOK
    <3> QED BY <3>1, <3>2 DEF StateInv
  <2> QED BY <1>2, <2>1, <2>2, <2>3, <2>4 DEF OnDisconnect
<1>3. ASSUME NEW x \in CoAs, CountCoA(x) \/ EmitCoA(x)
      PROVE  StateInv'
  BY <1>3 DEF CountCoA, EmitCoA, StateInv, Terminated
<1>4. CASE UNCHANGED vars
  BY <1>4 DEF StateInv, Terminated
<1> QED BY <1>1, <1>2, <1>3, <1>4 DEF Next

-----------------------------------------------------------------------------

IInv ==
  /\ TypeOK /\ RunInv /\ HandlerInv /\ RowInv
  /\ WhoInv /\ CountInv /\ StateInv

\* The invariant holds of a new subscriber and is kept by every step.
LEMMA Invariance == Spec => []IInv
<1>1. Init => IInv
  <2> SUFFICES ASSUME Init PROVE IInv
    OBVIOUS
  <2>1. TypeOK
    <3>1. obs \in ObsType
      BY DEF Init, ObsType
    <3>2. outcomes \in Seq(RowType)
      BY DEF Init
    <3>3. /\ activatedAt \in BOOLEAN /\ establishedAt \in BOOLEAN
          /\ disconnectedAt \in BOOLEAN /\ deps \in BOOLEAN
      BY Zenon DEF Init
    <3> QED BY <3>1, <3>2, <3>3 DEF Init, TypeOK, ObsType, States
  <2>2. RunInv /\ HandlerInv
    BY DEF Init, RunInv, HandlerInv, Emitted, Ending
  <2>3. RowInv
    BY DEF Init, RowInv, Rows
  <2>4. WhoInv /\ StateInv
    BY DEF Init, WhoInv, StateInv, Terminated, Ending
  <2>5. CountInv
    <3>1. Terminated = {} /\ Reporting = {} /\ obs.disconnects = 0
      BY DEF Init, Terminated, Reporting
    <3> QED BY <3>1, FS_EmptySet DEF CountInv
  <2> QED BY <2>1, <2>2, <2>3, <2>4, <2>5 DEF IInv
<1>2. IInv /\ [Next]_vars => IInv'
  BY TypeNext, RunNext, HandlerNext, RowNext, WhoNext, CountNext, StateNext DEF IInv
<1> QED BY <1>1, <1>2, PTL DEF Spec

\* The variables keep their types, the submitted rows included.
THEOREM TypeCorrect == Spec => []TypeOK
<1>1. IInv => TypeOK
  BY DEF IInv
<1> QED BY <1>1, Invariance, PTL

\* buildOutcome runs outside the critical sections that set what it reads, and
\* still never writes a row that contradicts itself, however many handlers run.
THEOREM Coherence == Spec => []RowsCoherent
<1>1. IInv => RowsCoherent
  BY DEF IInv, RowInv, RowsCoherent
<1> QED BY <1>1, Invariance, PTL

\* The terminal event and Run's row agree although OnDisconnect may overwrite
\* the state between them.
THEOREM SummaryAgrees == Spec => []SummaryMatchesRow
<1>1. IInv => SummaryMatchesRow
  BY DEF IInv, RunInv, RowInv, SummaryMatchesRow, Emitted, Ending
<1> QED BY <1>1, Invariance, PTL

\* Once Run has returned and the handlers that began have ended, the rows and
\* the counter tell the same story, and the state that was left is in a row,
\* for any number of disconnects.
THEOREM QuietRowsAccount == Spec => []QuietAccounting
<1>1. IInv => QuietAccounting
  <2> SUFFICES ASSUME IInv, Quiet PROVE QuietAccounting!2
    BY DEF QuietAccounting
  <2> USE DEF IInv
  <2>1. Reporting = {} /\ Cardinality(Reporting) = 0
    BY FS_EmptySet DEF Quiet, Reporting
  <2>2. Cardinality(Terminated) = obs.disconnects
    BY <2>1, TerminatedFinite DEF CountInv
  <2>3. PICK k \in DOMAIN outcomes : outcomes[k].by = "run"
    BY DEF Quiet, WhoInv
  <2>4. \E r \in Rows : r.final = state
    <3>1. state \in {terminal, "terminated"}
      BY DEF Quiet, StateInv, Ending
    <3>2. CASE state = terminal
      BY <2>3, <3>2 DEF WhoInv, Rows
    <3>3. CASE state = "terminated"
      BY <3>3 DEF StateInv, Quiet, Terminated, Rows
    <3> QED BY <3>1, <3>2, <3>3
  <2> QED BY <2>2, <2>3, <2>4 DEF WhoInv
<1> QED BY <1>1, Invariance, PTL

=============================================================================
