-------------------------- MODULE IOEngine_proofs --------------------------
(***************************************************************************)
(* Proofs about IOEngine for every number of calls, sockets, destinations, *)
(* Identifiers and retries.                                                *)
(***************************************************************************)
EXTENDS IOEngine, FiniteSetTheorems, TLAPS

LEMMA Sizes ==
  /\ MaxAttempts \in Nat \ {0}
  /\ 0 \in Sockets /\ 0 \in IDs /\ 0 \in Attempts
  /\ \A i \in Int : i % NumSockets \in Sockets /\ i % NumIDs \in IDs
BY SizeAssumption DEF MaxAttempts, Sockets, IDs, Attempts

LEMMA AuthType ==
  ASSUME NEW c \in Calls, NEW n \in Attempts, NEW i \in IDs
  PROVE  Authenticator(c, n, i) \in Auths
BY DEF Auths

\* Initial states are well typed.
LEMMA TypeInit == Init => TypeOK
<1> SUFFICES ASSUME Init PROVE TypeOK
  OBVIOUS
<1>1. rx \in [Sockets -> [pc : {"off", "idle", "claim", "reread", "send", "exited"},
                         id : IDs, auth : Auths \cup {None},
                         ifl : Inflights \cup {None}, verdict : Verdicts]]
  BY Sizes DEF Init, NewRx, Verdicts
<1>2. left \in [Calls -> 0 .. NumSockets] /\ backoffs \in [Calls -> 0 .. MaxBackoffs]
  BY SizeAssumption DEF Init
<1>3. /\ pc \in [Calls -> Stages] /\ outcome \in [Calls -> Outcomes]
      /\ tx \in [Calls -> Nat]
  BY DEF Init, Stages, Outcomes
<1>4. \A s \in Sockets : rx[s].pc = "off"
  BY DEF Init, NewRx
<1>5. /\ bits \in [Tuples -> SUBSET IDs] /\ count \in [Tuples -> Int]
      /\ next \in [Tuples -> IDs] /\ rrIdx \in Sockets
  BY Sizes DEF Init
<1>6. /\ pending \in [Keys -> Inflights \cup {None}]
      /\ recentDone \in [Keys -> Auths \cup {None}]
      /\ chan \in [Inflights -> Auths \cup {None}]
      /\ got \in [Calls -> Auths \cup {None}]
      /\ sent \subseteq [sock : Sockets, id : IDs, auth : Auths]
      /\ claimed \subseteq Inflights
  BY DEF Init
<1>7. /\ attempt \in [Calls -> Attempts] /\ sock \in [Calls -> Sockets]
      /\ id \in [Calls -> IDs]
  BY Sizes DEF Init
<1> QED BY <1>1, <1>2, <1>3, <1>4, <1>5, <1>6, <1>7 DEF Init, TypeOK

LEMMA TypeEngine == TypeOK /\ EngineStep => TypeOK'
<1> SUFFICES ASSUME TypeOK, EngineStep PROVE TypeOK'
  OBVIOUS
<1> USE DEF engineVars, allocVars, matchVars, callVars
<1>1. CASE Start
  BY <1>1, Sizes DEF Start, TypeOK, NewRx, Verdicts
<1>2. CASE CancelCtx
  BY <1>2 DEF CancelCtx, TypeOK
<1>3. CASE WatcherStop
  BY <1>3 DEF WatcherStop, TypeOK
<1>4. CASE StopReceiver
  BY <1>4 DEF StopReceiver, TypeOK
<1>5. CASE CloseAll
  BY <1>5 DEF CloseAll, TypeOK
<1> QED BY <1>1, <1>2, <1>3, <1>4, <1>5 DEF EngineStep

LEMMA ScanType ==
  ASSUME TypeOK, NEW c \in Calls, BeginScan(c)
  PROVE  /\ rrIdx' \in Sockets
         /\ sock' \in [Calls -> Sockets]
         /\ left' \in [Calls -> 0 .. NumSockets]
<1>1. (rrIdx + 1) % NumSockets \in Sockets
  <2>1. rrIdx + 1 \in Int
    BY DEF TypeOK, Sockets
  <2> QED BY <2>1, Sizes
<1>2. NumSockets \in 0 .. NumSockets
  BY SizeAssumption
<1> QED BY <1>1, <1>2 DEF BeginScan, TypeOK

LEMMA TypeCall ==
  ASSUME TypeOK, NEW c \in Calls, Send(c) \/ SendRefused(c) \/ SenderStep(c)
  PROVE  TypeOK'
<1> USE DEF engineVars, allocVars, matchVars, callVars
<1>t. TupleOf(c) \in Tuples /\ KeyOf(c) \in Keys /\ Current(c) \in Inflights
  BY CallAssumption DEF TypeOK, TupleOf, KeyOf, Current, Tuples, Keys, Inflights
<1>a. Authenticator(c, attempt[c], id[c]) \in Auths
  BY AuthType DEF TypeOK
<1>1. CASE Send(c) \/ BeginAttempt(c)
  BY <1>1, ScanType DEF Send, BeginAttempt, TypeOK, Stages
<1>2. CASE SendRefused(c)
  BY <1>2 DEF SendRefused, TypeOK, Stages, Outcomes
<1>3. CASE Allocate(c)
  <2>1. \A i \in IDs : (i + 1) % NumIDs \in IDs
    <3> SUFFICES ASSUME NEW i \in IDs PROVE (i + 1) % NumIDs \in IDs
      OBVIOUS
    <3>1. i + 1 \in Int
      BY DEF IDs
    <3> QED BY <3>1, Sizes
  <2>2. count' \in [Tuples -> Int]
    BY <1>3, <1>t DEF Allocate, TypeOK
  <2> QED BY <2>1, <2>2, <1>3, <1>t DEF Allocate, TypeOK, Stages
<1>4. CASE TryNextSocket(c)
  <2>1. (sock[c] + 1) % NumSockets \in Sockets
    <3>1. sock[c] + 1 \in Int
      BY DEF TypeOK, Sockets
    <3> QED BY <3>1, Sizes
  <2>2. left[c] - 1 \in 0 .. NumSockets
    BY <1>4, SizeAssumption DEF TryNextSocket, TypeOK
  <2> QED BY <2>1, <2>2, <1>4 DEF TryNextSocket, TypeOK
<1>5. CASE Backoff(c)
  BY <1>5, ScanType, SizeAssumption DEF Backoff, TypeOK
<1>6. CASE GiveUpAlloc(c)
  BY <1>6 DEF GiveUpAlloc, TypeOK, Stages, Outcomes
<1>7. CASE BuildFails(c)
  BY <1>7 DEF BuildFails, TypeOK, Stages, Outcomes
<1>8. CASE Register(c)
  BY <1>8, <1>t DEF Register, TypeOK, Stages
<1>9. CASE Write(c)
  BY <1>9, <1>a DEF Write, TypeOK, Stages
<1>10. CASE WriteFails(c)
  BY <1>10 DEF WriteFails, Abandon, TypeOK, Stages, Outcomes
<1>11. CASE WaitCtx(c)
  BY <1>11 DEF WaitCtx, Abandon, TypeOK, Stages, Outcomes
<1>12. CASE WaitTimer(c)
  BY <1>12 DEF WaitTimer, Abandon, TypeOK, Stages, Outcomes
<1>13. CASE WaitReply(c)
  BY <1>13, <1>t DEF WaitReply, TypeOK, Stages, Outcomes
<1>14. CASE Cancel(c)
  BY <1>14, <1>t DEF Cancel, TypeOK, Stages
<1>15. CASE ReleaseRetry(c)
  <2>1. attempt' \in [Calls -> Attempts]
    BY <1>15, Sizes DEF ReleaseRetry, TypeOK, Attempts
  <2> QED BY <2>1, <1>15, <1>t, SizeAssumption
          DEF ReleaseRetry, ReleaseID, TypeOK, Stages, Outcomes
<1>16. CASE ReleaseReturn(c)
  BY <1>16, <1>t DEF ReleaseReturn, ReleaseID, TypeOK, Stages, Outcomes
<1> QED BY <1>1, <1>2, <1>3, <1>4, <1>5, <1>6, <1>7, <1>8, <1>9, <1>10, <1>11,
           <1>12, <1>13, <1>14, <1>15, <1>16 DEF SenderStep

LEMMA TypeReceiver ==
  ASSUME TypeOK, NEW s \in Sockets, ReceiverStep(s)
  PROVE  TypeOK'
<1> USE DEF engineVars, allocVars, matchVars, callVars
<1> DEFINE RxType == [pc : {"off", "idle", "claim", "reread", "send", "exited"},
                      id : IDs, auth : Auths \cup {None},
                      ifl : Inflights \cup {None}, verdict : Verdicts]
           Known(r) == r.pc \in {"claim", "reread", "send"} => r.ifl \in Inflights
           Typed(r) == r \in RxType /\ Known(r)
<1>r. rx \in [Sockets -> RxType] /\ \A u \in Sockets : Typed(rx[u])
  BY DEF TypeOK
<1>f. \A v \in Verdicts : Typed(Finish(v))
  BY Sizes DEF Finish, NewRx, Verdicts
<1>l. \A i \in IDs, a \in Auths \cup {None}, d \in Auths \cup {None} :
        Typed(Late(i, a, d))
  <2> SUFFICES ASSUME NEW i \in IDs, NEW a \in Auths \cup {None},
                      NEW d \in Auths \cup {None}
               PROVE  Typed(Late(i, a, d))
    OBVIOUS
  <2> QED BY Sizes DEF Late, Finish, NewRx, Verdicts
<1>c. \A i \in IDs, a \in Auths \cup {None}, f \in Inflights :
        Typed([NewRx("claim") EXCEPT !.id = i, !.auth = a, !.ifl = f])
  BY DEF NewRx, Verdicts
<1>k. \A i \in IDs : <<s, i>> \in Keys
  BY DEF Keys
<1>q. ASSUME NEW f \in Inflights, NEW i \in IDs
      PROVE  RequestAuth(f, i) \in Auths
  BY AuthType DEF RequestAuth, Inflights
<1>u. ASSUME NEW r, Typed(r), rx' = [rx EXCEPT ![s] = r]
      PROVE  rx' \in [Sockets -> RxType] /\ \A u \in Sockets : Known(rx'[u])
  BY <1>u, <1>r
<1> HIDE DEF Typed
<1>1. CASE Lookup(s)
  <2>1. PICK m \in Arrivals(s) :
          LET k == <<s, m.id>>
              f == pending[k]
          IN rx' = [rx EXCEPT ![s] =
               IF f = None THEN Late(m.id, m.auth, recentDone[k])
               ELSE IF RequestAuth(f, m.id) # m.auth THEN Finish("other")
               ELSE [NewRx("claim") EXCEPT !.id = m.id, !.auth = m.auth, !.ifl = f]]
    BY <1>1 DEF Lookup
  <2> DEFINE k == <<s, m.id>>
             r == IF pending[k] = None THEN Late(m.id, m.auth, recentDone[k])
                  ELSE IF RequestAuth(pending[k], m.id) # m.auth
                    THEN Finish("other")
                  ELSE [NewRx("claim") EXCEPT !.id = m.id, !.auth = m.auth,
                                              !.ifl = pending[k]]
  <2>2. m.id \in IDs /\ m.auth \in Auths \cup {None}
    BY DEF Arrivals, TypeOK
  <2>3. k \in Keys
    BY <2>2, <1>k
  <2>4. pending[k] \in Inflights \cup {None} /\ recentDone[k] \in Auths \cup {None}
    BY <2>3 DEF TypeOK
  <2>5. "other" \in Verdicts
    BY DEF Verdicts
  <2>6. Typed(r)
    <3> HIDE DEF k
    <3>1. CASE pending[k] = None
      BY <3>1, <2>2, <2>4, <1>l
    <3>2. CASE pending[k] # None /\ RequestAuth(pending[k], m.id) # m.auth
      BY <3>2, <2>5, <1>f
    <3>3. CASE pending[k] # None /\ RequestAuth(pending[k], m.id) = m.auth
      BY <3>3, <2>2, <2>4, <1>c
    <3> QED BY <3>1, <3>2, <3>3
  <2>7. rx' = [rx EXCEPT ![s] = r]
    BY <2>1
  <2> QED BY <2>6, <2>7, <1>u, <1>1 DEF Lookup, TypeOK
<1>2. CASE Claim(s)
  <2>1. rx' \in [Sockets -> RxType] /\ \A u \in Sockets : Known(rx'[u])
    BY <1>2, <1>r DEF Claim, Typed
  <2>2. rx[s].ifl \in Inflights /\ <<s, rx[s].id>> \in Keys
    BY <1>2, <1>r, <1>k DEF Claim, Typed
  <2>3. RequestAuth(rx[s].ifl, rx[s].id) \in Auths
    BY <2>2, <1>q, <1>r DEF Typed
  <2>4. recentDone' \in [Keys -> Auths \cup {None}]
    <3> DEFINE k == <<s, rx[s].id>>
               d == [recentDone EXCEPT ![k] = RequestAuth(rx[s].ifl, rx[s].id)]
    <3>1. recentDone' \in Swept(d, k)
      BY <1>2 DEF Claim
    <3>2. d \in [Keys -> Auths \cup {None}]
      BY <2>3 DEF TypeOK
    <3> HIDE DEF d, k
    <3> QED BY <3>1, <3>2 DEF Swept
  <2>5. claimed' \subseteq Inflights /\ pending' \in [Keys -> Inflights \cup {None}]
    BY <2>2, <1>2 DEF Claim, TypeOK
  <2> QED BY <2>1, <2>4, <2>5, <1>2 DEF Claim, TypeOK
<1>3. CASE ClaimLost(s)
  <2>1. rx' \in [Sockets -> RxType] /\ \A u \in Sockets : Known(rx'[u])
    BY <1>3, <1>r DEF ClaimLost, Typed
  <2> QED BY <2>1, <1>3 DEF ClaimLost, TypeOK
<1>4. CASE Reread(s)
  <2>1. Typed(Late(rx[s].id, rx[s].auth, recentDone[<<s, rx[s].id>>]))
    BY <1>r, <1>l, <1>k DEF TypeOK, Typed
  <2>2. rx' = [rx EXCEPT ![s] = Late(rx[s].id, rx[s].auth, recentDone[<<s, rx[s].id>>])]
    BY <1>4 DEF Reread
  <2> QED BY <2>1, <2>2, <1>u, <1>4 DEF Reread, TypeOK
<1>5. CASE PushReply(s)
  <2>1. Typed(Finish("other"))
    BY <1>f DEF Verdicts
  <2>2. rx' = [rx EXCEPT ![s] = Finish("other")]
    BY <1>5 DEF PushReply
  <2>3. chan' \in [Inflights -> Auths \cup {None}]
    BY <1>5, <1>r DEF PushReply, TypeOK, Typed
  <2> QED BY <2>1, <2>2, <2>3, <1>u, <1>5 DEF PushReply, TypeOK
<1>6. CASE DispatchOther(s)
  <2>1. Typed(Finish("other"))
    BY <1>f DEF Verdicts
  <2>2. rx' = [rx EXCEPT ![s] = Finish("other")]
    BY <1>6 DEF DispatchOther
  <2> QED BY <2>1, <2>2, <1>u, <1>6 DEF DispatchOther, TypeOK
<1>7. CASE ReadFails(s)
  <2>1. rx' \in [Sockets -> RxType] /\ \A u \in Sockets : Known(rx'[u])
    BY <1>7, <1>r DEF ReadFails, Typed
  <2> QED BY <2>1, <1>7 DEF ReadFails, TypeOK
<1> QED BY <1>1, <1>2, <1>3, <1>4, <1>5, <1>6, <1>7 DEF ReceiverStep, DeliverStep

LEMMA TypeNext == TypeOK /\ [Next]_vars => TypeOK'
<1> SUFFICES ASSUME TypeOK, [Next]_vars PROVE TypeOK'
  OBVIOUS
<1>1. CASE UNCHANGED vars
  BY <1>1 DEF vars, engineVars, allocVars, matchVars, callVars, TypeOK
<1> QED BY <1>1, TypeEngine, TypeCall, TypeReceiver DEF Next

\* Every variable keeps its type in every behaviour of the engine.
THEOREM TypeCorrect == Spec => []TypeOK
BY TypeInit, TypeNext, PTL DEF Spec

-----------------------------------------------------------------------------
(* The inductive invariant, one conjunct at a time.                        *)

\* What an engine step leaves alone: the calls, the allocator, the channels.
LEMMA EngineFrame ==
  ASSUME EngineStep
  PROVE  /\ UNCHANGED <<allocVars, callVars, chan, sent, claimed>>
         /\ rx' = rx \/ rx' = [s \in Sockets |-> NewRx("idle")]
         /\ \/ pending' = pending /\ recentDone' = recentDone
            \/ /\ pending' = [k \in Keys |-> None]
               /\ recentDone' = [k \in Keys |-> None]
BY DEF EngineStep, Start, CancelCtx, WatcherStop, StopReceiver, CloseAll,
       matchVars

\* An attempt that has not registered yet has been claimed by nobody.
LEMMA NotYetClaimed ==
  ASSUME IInv, NEW c \in Calls, pc[c] \in {"idle", "alloc", "build"},
         NEW f \in claimed, f[1] = c
  PROVE  f[2] # attempt[c]
<1>1. RegisteredUnder(f, KeyOf(c))
  BY DEF IInv, ClaimedInv
<1>2. attempt[c] \in Int
  BY DEF IInv, TypeOK, Attempts
<1> QED BY <1>1, <1>2 DEF RegisteredUnder

\* Attempts later than the current one have been claimed by nobody.
LEMMA NotClaimedAhead ==
  ASSUME IInv, NEW f \in claimed
  PROVE  f[1] \in Calls /\ f[2] \in Int /\ f[2] <= attempt[f[1]]
BY DEF IInv, ClaimedInv, RegisteredUnder, TypeOK, Attempts, Inflights

\* A step of a call that has no entry in the table and leaves it alone.
LEMMA PendingFrame ==
  ASSUME IInv, NEW c \in Calls, UNCHANGED <<pending, claimed>>,
         pc[c] \notin {"write", "wait", "cancel"},
         \A d \in Calls : d # c =>
           pc'[d] = pc[d] /\ sock'[d] = sock[d] /\ id'[d] = id[d] /\ attempt'[d] = attempt[d]
  PROVE  PendingInv'
<1> SUFFICES ASSUME NEW k \in Keys, pending[k] # None
             PROVE  /\ pending[k] \notin claimed
                    /\ pending[k][2] = attempt'[pending[k][1]]
                    /\ pc'[pending[k][1]] \in {"write", "wait", "cancel"}
                    /\ <<sock'[pending[k][1]], id'[pending[k][1]]>> = k
  BY DEF PendingInv, KeyOf
<1> DEFINE f == pending[k]
<1>1. f \notin claimed /\ f[2] = attempt[f[1]] /\ pc[f[1]] \in {"write", "wait", "cancel"}
      /\ <<sock[f[1]], id[f[1]]>> = k
  BY DEF IInv, PendingInv, KeyOf
<1>2. f[1] \in Calls
  BY DEF IInv, TypeOK, Inflights
<1> HIDE DEF f
<1>3. f[1] # c
  BY <1>1
<1> QED BY <1>1, <1>2, <1>3 DEF f

\* PendingInv: a reply empties the table before its waiter leaves, every other
\* exit goes through Cancel.
LEMMA PendingCall ==
  ASSUME IInv, TypeOK', NEW c \in Calls, Send(c) \/ SendRefused(c) \/ SenderStep(c)
  PROVE  PendingInv'
<1> USE DEF engineVars, allocVars, matchVars, callVars
<1>1. CASE Send(c) \/ BeginAttempt(c)
  <2>1. CASE Send(c)
    BY <2>1 DEF Send, BeginScan, IInv, PendingInv, TypeOK, KeyOf, Keys, Inflights
  <2>2. CASE BeginAttempt(c)
    BY <2>2 DEF BeginAttempt, BeginScan, IInv, PendingInv, TypeOK, KeyOf, Keys, Inflights
  <2> QED BY <1>1, <2>1, <2>2
<1>2. CASE SendRefused(c)
BY <1>2 DEF SendRefused, IInv, PendingInv, TypeOK, KeyOf, Keys, Inflights
<1>3. CASE Allocate(c)
BY <1>3 DEF Allocate, IInv, PendingInv, TypeOK, KeyOf, Keys, Inflights
<1>4. CASE TryNextSocket(c)
  <2>1. /\ UNCHANGED <<pending, claimed, pc, id, attempt>> /\ pc[c] = "alloc"
        /\ \A d \in Calls : d # c => sock'[d] = sock[d]
    BY <1>4 DEF TryNextSocket, IInv, TypeOK
  <2> QED BY <2>1, PendingFrame
<1>5. CASE Backoff(c)
  <2>1. /\ UNCHANGED <<pending, claimed, pc, id, attempt>> /\ pc[c] = "alloc"
        /\ \A d \in Calls : d # c => sock'[d] = sock[d]
    BY <1>5 DEF Backoff, BeginScan, IInv, TypeOK
  <2> QED BY <2>1, PendingFrame
<1>6. CASE GiveUpAlloc(c)
BY <1>6 DEF GiveUpAlloc, IInv, PendingInv, TypeOK, KeyOf, Keys, Inflights
<1>7. CASE BuildFails(c)
BY <1>7 DEF BuildFails, IInv, PendingInv, TypeOK, KeyOf, Keys, Inflights
<1>8. CASE Register(c)
  <2> SUFFICES ASSUME NEW k \in Keys, pending'[k] # None
               PROVE  /\ pending'[k] \notin claimed'
                      /\ pending'[k][2] = attempt'[pending'[k][1]]
                      /\ pc'[pending'[k][1]] \in {"write", "wait", "cancel"}
                      /\ <<sock'[pending'[k][1]], id'[pending'[k][1]]>> = k
    BY DEF PendingInv, KeyOf
  <2>k. KeyOf(c) \in Keys /\ Current(c)[1] = c /\ Current(c)[2] = attempt[c]
    BY DEF IInv, TypeOK, KeyOf, Keys, Current
  <2>1. CASE k = KeyOf(c)
    <3>1. Current(c) \notin claimed
      BY <2>k, <1>8, NotYetClaimed DEF Register
    <3>2. pending'[k] = Current(c)
      BY <2>1, <2>k, <1>8 DEF Register, IInv, TypeOK
    <3> QED BY <3>1, <3>2, <2>1, <1>8 DEF Register, IInv, TypeOK, KeyOf, Current
  <2>2. CASE k # KeyOf(c)
    <3>1. pending'[k] = pending[k] /\ pending[k][1] \in Calls /\ pending[k][1] # c
      BY <2>2, <2>k, <1>8 DEF Register, IInv, PendingInv, TypeOK, Inflights
    <3> QED BY <3>1, <1>8 DEF Register, IInv, PendingInv, TypeOK, KeyOf
  <2> QED BY <2>1, <2>2
<1>9. CASE Write(c)
BY <1>9 DEF Write, IInv, PendingInv, TypeOK, KeyOf, Keys, Inflights
<1>10. CASE WriteFails(c)
BY <1>10 DEF WriteFails, Abandon, IInv, PendingInv, TypeOK, KeyOf, Keys,
     Inflights
<1>11. CASE WaitCtx(c)
BY <1>11 DEF WaitCtx, Abandon, IInv, PendingInv, TypeOK, KeyOf, Keys, Inflights
<1>12. CASE WaitTimer(c)
BY <1>12 DEF WaitTimer, Abandon, IInv, PendingInv, TypeOK, KeyOf, Keys,
     Inflights
<1>13. CASE WaitReply(c)
  <2> SUFFICES ASSUME NEW k \in Keys, pending'[k] # None
               PROVE  /\ pending'[k] \notin claimed'
                      /\ pending'[k][2] = attempt'[pending'[k][1]]
                      /\ pc'[pending'[k][1]] \in {"write", "wait", "cancel"}
                      /\ <<sock'[pending'[k][1]], id'[pending'[k][1]]>> = k
    BY DEF PendingInv, KeyOf
  <2>1. pending[k] # None /\ pending[k] \in Inflights /\ pending[k][1] \in Calls
    BY <1>13 DEF WaitReply, IInv, TypeOK, Inflights
  <2>2. Current(c) \in claimed
    BY <1>13 DEF WaitReply, IInv, ChanInv, TypeOK, Current, Inflights
  <2>3. pending[k][1] # c
    <3> SUFFICES ASSUME pending[k][1] = c PROVE FALSE
      OBVIOUS
    <3>1. pending[k] = Current(c)
      BY <2>1 DEF IInv, PendingInv, Current, Inflights
    <3> QED BY <3>1, <2>1, <2>2 DEF IInv, PendingInv
  <2> QED BY <2>1, <2>3, <1>13 DEF WaitReply, IInv, PendingInv, TypeOK, KeyOf
<1>14. CASE Cancel(c)
BY <1>14 DEF Cancel, IInv, PendingInv, TypeOK, KeyOf, Keys, Inflights
<1>15. CASE ReleaseRetry(c)
  <2>1. /\ UNCHANGED <<pending, claimed, id>> /\ pc[c] = "release"
        /\ \A d \in Calls : d # c =>
             pc'[d] = pc[d] /\ sock'[d] = sock[d] /\ attempt'[d] = attempt[d]
    BY <1>15 DEF ReleaseRetry, IInv, TypeOK
  <2> QED BY <2>1, PendingFrame
<1>16. CASE ReleaseReturn(c)
  <2>1. /\ UNCHANGED <<pending, claimed, sock, id, attempt>> /\ pc[c] = "release"
        /\ \A d \in Calls : d # c => pc'[d] = pc[d]
    BY <1>16 DEF ReleaseReturn, IInv, TypeOK
  <2> QED BY <2>1, PendingFrame
<1> QED BY <1>1, <1>2, <1>3, <1>4, <1>5, <1>6, <1>7, <1>8, <1>9, <1>10, <1>11,
           <1>12, <1>13, <1>14, <1>15, <1>16 DEF SenderStep

LEMMA PendingReceiver ==
  ASSUME IInv, TypeOK', NEW s \in Sockets, ReceiverStep(s)
  PROVE  PendingInv'
<1> USE DEF engineVars, allocVars, matchVars, callVars
<1>1. CASE Lookup(s)
BY <1>1 DEF Lookup, IInv, PendingInv, TypeOK, KeyOf, Keys, Inflights
<1>2. CASE Claim(s)
BY <1>2 DEF Claim, IInv, PendingInv, TypeOK, KeyOf, Keys, Inflights
<1>3. CASE ClaimLost(s)
BY <1>3 DEF ClaimLost, IInv, PendingInv, TypeOK, KeyOf, Keys, Inflights
<1>4. CASE Reread(s)
BY <1>4 DEF Reread, IInv, PendingInv, TypeOK, KeyOf, Keys, Inflights
<1>5. CASE PushReply(s)
BY <1>5 DEF PushReply, IInv, PendingInv, TypeOK, KeyOf, Keys, Inflights
<1>6. CASE DispatchOther(s)
BY <1>6 DEF DispatchOther, IInv, PendingInv, TypeOK, KeyOf, Keys, Inflights
<1>7. CASE ReadFails(s)
BY <1>7 DEF ReadFails, IInv, PendingInv, TypeOK, KeyOf, Keys, Inflights
<1> QED BY <1>1, <1>2, <1>3, <1>4, <1>5, <1>6, <1>7 DEF ReceiverStep, DeliverStep

LEMMA PendingStep == IInv /\ TypeOK' /\ [Next]_vars => PendingInv'
<1> SUFFICES ASSUME IInv, TypeOK', [Next]_vars PROVE PendingInv'
  OBVIOUS
<1>1. CASE EngineStep
BY <1>1, EngineFrame DEF callVars, IInv, PendingInv, TypeOK, KeyOf, Keys,
     Inflights
<1>2. CASE UNCHANGED vars
BY <1>2 DEF vars, engineVars, allocVars, matchVars, callVars, IInv, PendingInv,
     TypeOK, KeyOf, Keys, Inflights
<1> QED BY <1>1, <1>2, PendingCall, PendingReceiver DEF Next


\* ClaimedInv: only a registered inflight is ever looked up, hence claimed.
LEMMA ClaimedCall ==
  ASSUME IInv, TypeOK', NEW c \in Calls, Send(c) \/ SendRefused(c) \/ SenderStep(c)
  PROVE  ClaimedInv'
<1> USE DEF engineVars, allocVars, matchVars, callVars
<1>1. CASE Send(c) \/ BeginAttempt(c)
  <2>1. CASE Send(c)
    BY <2>1 DEF Send, BeginScan, IInv, ClaimedInv, PendingInv, RxInv,
       RegisteredUnder, TypeOK, KeyOf, Keys, Inflights, Attempts
  <2>2. CASE BeginAttempt(c)
    BY <2>2 DEF BeginAttempt, BeginScan, IInv, ClaimedInv, PendingInv, RxInv,
       RegisteredUnder, TypeOK, KeyOf, Keys, Inflights, Attempts
  <2> QED BY <1>1, <2>1, <2>2
<1>2. CASE SendRefused(c)
BY <1>2 DEF SendRefused, IInv, ClaimedInv, PendingInv, RxInv,
     RegisteredUnder, TypeOK, KeyOf, Keys, Inflights, Attempts
<1>3. CASE Allocate(c)
BY <1>3 DEF Allocate, IInv, ClaimedInv, PendingInv, RxInv, RegisteredUnder,
     TypeOK, KeyOf, Keys, Inflights, Attempts
<1>4. CASE TryNextSocket(c)
BY <1>4 DEF TryNextSocket, IInv, ClaimedInv, PendingInv, RxInv, RegisteredUnder,
     TypeOK, KeyOf, Keys, Inflights, Attempts
<1>5. CASE Backoff(c)
BY <1>5 DEF Backoff, BeginScan, IInv, ClaimedInv, PendingInv, RxInv,
     RegisteredUnder, TypeOK, KeyOf, Keys, Inflights, Attempts
<1>6. CASE GiveUpAlloc(c)
BY <1>6 DEF GiveUpAlloc, IInv, ClaimedInv, PendingInv, RxInv, RegisteredUnder,
     TypeOK, KeyOf, Keys, Inflights, Attempts
<1>7. CASE BuildFails(c)
BY <1>7 DEF BuildFails, IInv, ClaimedInv, PendingInv, RxInv, RegisteredUnder,
     TypeOK, KeyOf, Keys, Inflights, Attempts
<1>8. CASE Register(c)
BY <1>8 DEF Register, IInv, ClaimedInv, PendingInv, RxInv, RegisteredUnder,
     TypeOK, KeyOf, Keys, Inflights, Attempts
<1>9. CASE Write(c)
BY <1>9 DEF Write, IInv, ClaimedInv, PendingInv, RxInv, RegisteredUnder, TypeOK,
     KeyOf, Keys, Inflights, Attempts
<1>10. CASE WriteFails(c)
BY <1>10 DEF WriteFails, Abandon, IInv, ClaimedInv, PendingInv, RxInv,
     RegisteredUnder, TypeOK, KeyOf, Keys, Inflights, Attempts
<1>11. CASE WaitCtx(c)
BY <1>11 DEF WaitCtx, Abandon, IInv, ClaimedInv, PendingInv, RxInv,
     RegisteredUnder, TypeOK, KeyOf, Keys, Inflights, Attempts
<1>12. CASE WaitTimer(c)
BY <1>12 DEF WaitTimer, Abandon, IInv, ClaimedInv, PendingInv, RxInv,
     RegisteredUnder, TypeOK, KeyOf, Keys, Inflights, Attempts
<1>13. CASE WaitReply(c)
BY <1>13 DEF WaitReply, IInv, ClaimedInv, PendingInv, RxInv, RegisteredUnder,
     TypeOK, KeyOf, Keys, Inflights, Attempts
<1>14. CASE Cancel(c)
BY <1>14 DEF Cancel, IInv, ClaimedInv, PendingInv, RxInv, RegisteredUnder,
     TypeOK, KeyOf, Keys, Inflights, Attempts
<1>15. CASE ReleaseRetry(c)
BY <1>15 DEF ReleaseRetry, ReleaseID, IInv, ClaimedInv, PendingInv,
     RxInv, RegisteredUnder, TypeOK, KeyOf, Keys, Inflights, Attempts
<1>16. CASE ReleaseReturn(c)
BY <1>16 DEF ReleaseReturn, ReleaseID, IInv, ClaimedInv, PendingInv, RxInv,
     RegisteredUnder, TypeOK, KeyOf, Keys, Inflights, Attempts
<1> QED BY <1>1, <1>2, <1>3, <1>4, <1>5, <1>6, <1>7, <1>8, <1>9, <1>10, <1>11,
           <1>12, <1>13, <1>14, <1>15, <1>16 DEF SenderStep

LEMMA ClaimedReceiver ==
  ASSUME IInv, TypeOK', NEW s \in Sockets, ReceiverStep(s)
  PROVE  ClaimedInv'
<1> USE DEF engineVars, allocVars, matchVars, callVars
<1>1. CASE Lookup(s)
BY <1>1 DEF Lookup, IInv, ClaimedInv, PendingInv, RxInv, RegisteredUnder,
     TypeOK, KeyOf, Keys, Inflights, Attempts
<1>2. CASE Claim(s)
BY <1>2 DEF Claim, IInv, ClaimedInv, PendingInv, RxInv, RegisteredUnder, TypeOK,
     KeyOf, Keys, Inflights, Attempts
<1>3. CASE ClaimLost(s)
BY <1>3 DEF ClaimLost, IInv, ClaimedInv, PendingInv, RxInv, RegisteredUnder,
     TypeOK, KeyOf, Keys, Inflights, Attempts
<1>4. CASE Reread(s)
BY <1>4 DEF Reread, IInv, ClaimedInv, PendingInv, RxInv, RegisteredUnder,
     TypeOK, KeyOf, Keys, Inflights, Attempts
<1>5. CASE PushReply(s)
BY <1>5 DEF PushReply, IInv, ClaimedInv, PendingInv, RxInv, RegisteredUnder,
     TypeOK, KeyOf, Keys, Inflights, Attempts
<1>6. CASE DispatchOther(s)
BY <1>6 DEF DispatchOther, IInv, ClaimedInv, PendingInv, RxInv, RegisteredUnder,
     TypeOK, KeyOf, Keys, Inflights, Attempts
<1>7. CASE ReadFails(s)
BY <1>7 DEF ReadFails, IInv, ClaimedInv, PendingInv, RxInv, RegisteredUnder,
     TypeOK, KeyOf, Keys, Inflights, Attempts
<1> QED BY <1>1, <1>2, <1>3, <1>4, <1>5, <1>6, <1>7 DEF ReceiverStep, DeliverStep

LEMMA ClaimedStep == IInv /\ TypeOK' /\ [Next]_vars => ClaimedInv'
<1> SUFFICES ASSUME IInv, TypeOK', [Next]_vars PROVE ClaimedInv'
  OBVIOUS
<1>1. CASE EngineStep
BY <1>1, EngineFrame DEF callVars, IInv, ClaimedInv, PendingInv, RxInv,
     RegisteredUnder, TypeOK, KeyOf, Keys, Inflights, Attempts
<1>2. CASE UNCHANGED vars
BY <1>2 DEF vars, engineVars, allocVars, matchVars, callVars, IInv, ClaimedInv,
     PendingInv, RxInv, RegisteredUnder, TypeOK, KeyOf, Keys, Inflights,
     Attempts
<1> QED BY <1>1, <1>2, ClaimedCall, ClaimedReceiver DEF Next


\* ChanInv: the reply pushed was validated against the inflight it is pushed to.
LEMMA ChanCall ==
  ASSUME IInv, TypeOK', NEW c \in Calls, Send(c) \/ SendRefused(c) \/ SenderStep(c)
  PROVE  ChanInv'
<1> USE DEF engineVars, allocVars, matchVars, callVars
<1>1. CASE Send(c) \/ BeginAttempt(c)
BY <1>1 DEF Send, BeginAttempt, BeginScan, IInv, ChanInv, RequestAuth, TypeOK, Current,
     Inflights, Attempts
<1>2. CASE SendRefused(c)
BY <1>2 DEF SendRefused, IInv, ChanInv, RequestAuth, TypeOK, Current,
     Inflights, Attempts
<1>3. CASE Allocate(c)
  <2> SUFFICES ASSUME NEW f \in Inflights, chan'[f] # None
               PROVE  /\ f \in claimed'
                      /\ f[2] = attempt'[f[1]] => chan'[f] = RequestAuth(f, id'[f[1]])
    BY DEF ChanInv, RequestAuth
  <2>1. f \in claimed /\ chan'[f] = chan[f] /\ f[1] \in Calls
    BY <1>3 DEF Allocate, IInv, ChanInv, Inflights
  <2>2. f[1] = c => f[2] # attempt[c]
    BY <2>1, <1>3, NotYetClaimed DEF Allocate
  <2> QED BY <2>1, <2>2, <1>3 DEF Allocate, IInv, ChanInv, TypeOK
<1>4. CASE TryNextSocket(c)
BY <1>4 DEF TryNextSocket, IInv, ChanInv, RequestAuth, TypeOK, Current,
     Inflights, Attempts
<1>5. CASE Backoff(c)
BY <1>5 DEF Backoff, BeginScan, IInv, ChanInv, RequestAuth, TypeOK, Current,
     Inflights, Attempts
<1>6. CASE GiveUpAlloc(c)
BY <1>6 DEF GiveUpAlloc, IInv, ChanInv, RequestAuth, TypeOK, Current, Inflights,
     Attempts
<1>7. CASE BuildFails(c)
BY <1>7 DEF BuildFails, IInv, ChanInv, RequestAuth, TypeOK, Current, Inflights,
     Attempts
<1>8. CASE Register(c)
BY <1>8 DEF Register, IInv, ChanInv, RequestAuth, TypeOK, Current, Inflights,
     Attempts
<1>9. CASE Write(c)
BY <1>9 DEF Write, IInv, ChanInv, RequestAuth, TypeOK, Current, Inflights,
     Attempts
<1>10. CASE WriteFails(c)
BY <1>10 DEF WriteFails, Abandon, IInv, ChanInv, RequestAuth, TypeOK, Current,
     Inflights, Attempts
<1>11. CASE WaitCtx(c)
BY <1>11 DEF WaitCtx, Abandon, IInv, ChanInv, RequestAuth, TypeOK, Current,
     Inflights, Attempts
<1>12. CASE WaitTimer(c)
BY <1>12 DEF WaitTimer, Abandon, IInv, ChanInv, RequestAuth, TypeOK, Current,
     Inflights, Attempts
<1>13. CASE WaitReply(c)
BY <1>13 DEF WaitReply, IInv, ChanInv, RequestAuth, TypeOK, Current, Inflights,
     Attempts
<1>14. CASE Cancel(c)
BY <1>14 DEF Cancel, IInv, ChanInv, RequestAuth, TypeOK, Current, Inflights,
     Attempts
<1>15. CASE ReleaseRetry(c)
  <2> SUFFICES ASSUME NEW f \in Inflights, chan'[f] # None
               PROVE  /\ f \in claimed'
                      /\ f[2] = attempt'[f[1]] => chan'[f] = RequestAuth(f, id'[f[1]])
    BY DEF ChanInv, RequestAuth
  <2>1. f \in claimed /\ chan'[f] = chan[f]
    BY <1>15 DEF ReleaseRetry, IInv, ChanInv
  <2>2. f[1] = c => f[2] # attempt[c] + 1
    BY <2>1, NotClaimedAhead DEF IInv, TypeOK, Attempts
  <2> QED BY <2>1, <2>2, <1>15 DEF ReleaseRetry, IInv, ChanInv, TypeOK, Inflights
<1>16. CASE ReleaseReturn(c)
BY <1>16 DEF ReleaseReturn, ReleaseID, IInv, ChanInv, RequestAuth, TypeOK,
     Current, Inflights, Attempts
<1> QED BY <1>1, <1>2, <1>3, <1>4, <1>5, <1>6, <1>7, <1>8, <1>9, <1>10, <1>11,
           <1>12, <1>13, <1>14, <1>15, <1>16 DEF SenderStep

LEMMA ChanReceiver ==
  ASSUME IInv, TypeOK', NEW s \in Sockets, ReceiverStep(s)
  PROVE  ChanInv'
<1> USE DEF engineVars, allocVars, matchVars, callVars
<1>1. CASE Lookup(s)
BY <1>1 DEF Lookup, IInv, ChanInv, RequestAuth, TypeOK, Current, Inflights,
     Attempts
<1>2. CASE Claim(s)
BY <1>2 DEF Claim, IInv, ChanInv, RequestAuth, TypeOK, Current, Inflights,
     Attempts
<1>3. CASE ClaimLost(s)
BY <1>3 DEF ClaimLost, IInv, ChanInv, RequestAuth, TypeOK, Current, Inflights,
     Attempts
<1>4. CASE Reread(s)
BY <1>4 DEF Reread, IInv, ChanInv, RequestAuth, TypeOK, Current, Inflights,
     Attempts
<1>5. CASE PushReply(s)
  <2> SUFFICES ASSUME NEW f \in Inflights, chan'[f] # None
               PROVE  /\ f \in claimed'
                      /\ f[2] = attempt'[f[1]] => chan'[f] = RequestAuth(f, id'[f[1]])
    BY DEF ChanInv, RequestAuth
  <2> DEFINE g == rx[s].ifl
  <2>1. g \in claimed /\ chan[g] = None /\ g \in Inflights
    BY <1>5 DEF PushReply, IInv, SendInv, TypeOK
  <2>2. CASE f = g
    <3>1. chan'[f] = RequestAuth(g, rx[s].id)
      BY <2>1, <2>2, <1>5 DEF PushReply, IInv, TypeOK, RxInv
    <3>2. f[2] = attempt[f[1]] => id[f[1]] = rx[s].id
      BY <2>1, <2>2, <1>5 DEF PushReply, IInv, RxInv, RegisteredUnder, KeyOf,
         TypeOK, Attempts, Inflights
    <3> QED BY <2>1, <2>2, <3>1, <3>2, <1>5 DEF PushReply
  <2>3. CASE f # g
    BY <2>1, <2>3, <1>5 DEF PushReply, IInv, ChanInv, TypeOK
  <2> QED BY <2>2, <2>3
<1>6. CASE DispatchOther(s)
BY <1>6 DEF DispatchOther, IInv, ChanInv, RequestAuth, TypeOK, Current,
     Inflights, Attempts
<1>7. CASE ReadFails(s)
BY <1>7 DEF ReadFails, IInv, ChanInv, RequestAuth, TypeOK, Current, Inflights,
     Attempts
<1> QED BY <1>1, <1>2, <1>3, <1>4, <1>5, <1>6, <1>7 DEF ReceiverStep, DeliverStep

LEMMA ChanStep == IInv /\ TypeOK' /\ [Next]_vars => ChanInv'
<1> SUFFICES ASSUME IInv, TypeOK', [Next]_vars PROVE ChanInv'
  OBVIOUS
<1>1. CASE EngineStep
BY <1>1, EngineFrame DEF callVars, IInv, ChanInv, RequestAuth, TypeOK, Current,
     Inflights, Attempts
<1>2. CASE UNCHANGED vars
BY <1>2 DEF vars, engineVars, allocVars, matchVars, callVars, IInv, ChanInv,
     RequestAuth, TypeOK, Current, Inflights, Attempts
<1> QED BY <1>1, <1>2, ChanCall, ChanReceiver DEF Next


\* RxInv: what Lookup validated stays attached to its inflight while the call moves on.
LEMMA RxCall ==
  ASSUME IInv, TypeOK', NEW c \in Calls, Send(c) \/ SendRefused(c) \/ SenderStep(c)
  PROVE  RxInv'
<1> USE DEF engineVars, allocVars, matchVars, callVars
<1>1. CASE Send(c) \/ BeginAttempt(c)
  <2>1. CASE Send(c)
    BY <2>1 DEF Send, BeginScan, IInv, RxInv, RegisteredUnder, RequestAuth, Finish,
       Late, NewRx, TypeOK, KeyOf, Keys, Inflights, Attempts
  <2>2. CASE BeginAttempt(c)
    BY <2>2 DEF BeginAttempt, BeginScan, IInv, RxInv, RegisteredUnder, RequestAuth, Finish,
       Late, NewRx, TypeOK, KeyOf, Keys, Inflights, Attempts
  <2> QED BY <1>1, <2>1, <2>2
<1>2. CASE SendRefused(c)
BY <1>2 DEF SendRefused, IInv, RxInv, RegisteredUnder, RequestAuth, Finish,
     Late, NewRx, TypeOK, KeyOf, Keys, Inflights, Attempts
<1>3. CASE Allocate(c)
BY <1>3 DEF Allocate, IInv, RxInv, RegisteredUnder, RequestAuth, Finish, Late,
     NewRx, TypeOK, KeyOf, Keys, Inflights, Attempts
<1>4. CASE TryNextSocket(c)
BY <1>4 DEF TryNextSocket, IInv, RxInv, RegisteredUnder, RequestAuth, Finish,
     Late, NewRx, TypeOK, KeyOf, Keys, Inflights, Attempts
<1>5. CASE Backoff(c)
BY <1>5 DEF Backoff, BeginScan, IInv, RxInv, RegisteredUnder, RequestAuth,
     Finish, Late, NewRx, TypeOK, KeyOf, Keys, Inflights, Attempts
<1>6. CASE GiveUpAlloc(c)
BY <1>6 DEF GiveUpAlloc, IInv, RxInv, RegisteredUnder, RequestAuth, Finish,
     Late, NewRx, TypeOK, KeyOf, Keys, Inflights, Attempts
<1>7. CASE BuildFails(c)
BY <1>7 DEF BuildFails, IInv, RxInv, RegisteredUnder, RequestAuth, Finish, Late,
     NewRx, TypeOK, KeyOf, Keys, Inflights, Attempts
<1>8. CASE Register(c)
BY <1>8 DEF Register, IInv, RxInv, RegisteredUnder, RequestAuth, Finish, Late,
     NewRx, TypeOK, KeyOf, Keys, Inflights, Attempts
<1>9. CASE Write(c)
BY <1>9 DEF Write, IInv, RxInv, RegisteredUnder, RequestAuth, Finish, Late,
     NewRx, TypeOK, KeyOf, Keys, Inflights, Attempts
<1>10. CASE WriteFails(c)
BY <1>10 DEF WriteFails, Abandon, IInv, RxInv, RegisteredUnder, RequestAuth,
     Finish, Late, NewRx, TypeOK, KeyOf, Keys, Inflights, Attempts
<1>11. CASE WaitCtx(c)
BY <1>11 DEF WaitCtx, Abandon, IInv, RxInv, RegisteredUnder, RequestAuth,
     Finish, Late, NewRx, TypeOK, KeyOf, Keys, Inflights, Attempts
<1>12. CASE WaitTimer(c)
BY <1>12 DEF WaitTimer, Abandon, IInv, RxInv, RegisteredUnder, RequestAuth,
     Finish, Late, NewRx, TypeOK, KeyOf, Keys, Inflights, Attempts
<1>13. CASE WaitReply(c)
BY <1>13 DEF WaitReply, IInv, RxInv, RegisteredUnder, RequestAuth, Finish, Late,
     NewRx, TypeOK, KeyOf, Keys, Inflights, Attempts
<1>14. CASE Cancel(c)
BY <1>14 DEF Cancel, IInv, RxInv, RegisteredUnder, RequestAuth, Finish, Late,
     NewRx, TypeOK, KeyOf, Keys, Inflights, Attempts
<1>15. CASE ReleaseRetry(c)
  <2> SUFFICES ASSUME NEW u \in Sockets, rx'[u].pc \in {"claim", "send", "reread"}
               PROVE  /\ rx'[u].auth = RequestAuth(rx'[u].ifl, rx'[u].id)
                      /\ RegisteredUnder(rx[u].ifl, <<u, rx[u].id>>)'
    BY DEF RxInv, RequestAuth
  <2>1. rx'[u] = rx[u] /\ rx[u].ifl[1] \in Calls /\ rx[u].ifl[2] \in Int
    BY <1>15 DEF ReleaseRetry, IInv, TypeOK, Inflights, Attempts
  <2>2. RegisteredUnder(rx[u].ifl, <<u, rx[u].id>>)
    BY <2>1 DEF IInv, RxInv
  <2>3. CASE rx[u].ifl[1] = c
    BY <2>1, <2>2, <2>3, <1>15 DEF ReleaseRetry, IInv, RxInv, RegisteredUnder,
       TypeOK, Attempts, KeyOf
  <2>4. CASE rx[u].ifl[1] # c
    BY <2>1, <2>2, <2>4, <1>15 DEF ReleaseRetry, IInv, RxInv,
       RegisteredUnder, TypeOK, KeyOf
  <2> QED BY <2>3, <2>4
<1>16. CASE ReleaseReturn(c)
BY <1>16 DEF ReleaseReturn, ReleaseID, IInv, RxInv, RegisteredUnder,
     RequestAuth, Finish, Late, NewRx, TypeOK, KeyOf, Keys, Inflights, Attempts
<1> QED BY <1>1, <1>2, <1>3, <1>4, <1>5, <1>6, <1>7, <1>8, <1>9, <1>10, <1>11,
           <1>12, <1>13, <1>14, <1>15, <1>16 DEF SenderStep

LEMMA RxReceiver ==
  ASSUME IInv, TypeOK', NEW s \in Sockets, ReceiverStep(s)
  PROVE  RxInv'
<1> USE DEF engineVars, allocVars, matchVars, callVars
<1>1. CASE Lookup(s)
  <2> SUFFICES ASSUME NEW u \in Sockets, rx'[u].pc \in {"claim", "send", "reread"}
               PROVE  /\ rx'[u].auth = RequestAuth(rx'[u].ifl, rx'[u].id)
                      /\ RegisteredUnder(rx[u].ifl, <<u, rx[u].id>>)'
    BY DEF RxInv, RequestAuth
  <2>1. PICK m \in Arrivals(s) :
          LET k == <<s, m.id>>
              f == pending[k]
          IN rx' = [rx EXCEPT ![s] =
               IF f = None THEN Late(m.id, m.auth, recentDone[k])
               ELSE IF RequestAuth(f, m.id) # m.auth THEN Finish("other")
               ELSE [NewRx("claim") EXCEPT !.id = m.id, !.auth = m.auth, !.ifl = f]]
    BY <1>1 DEF Lookup
  <2>2. CASE u # s
    BY <2>1, <2>2, <1>1 DEF Lookup, IInv, RxInv, TypeOK, RegisteredUnder, KeyOf
  <2>3. CASE u = s
    <3> DEFINE k == <<s, m.id>>
    <3>1. m.id \in IDs /\ k \in Keys
      BY DEF Arrivals, IInv, TypeOK, Keys
    <3>2. /\ pending[k] # None
          /\ RequestAuth(pending[k], m.id) = m.auth
          /\ rx'[u] = [NewRx("claim") EXCEPT !.id = m.id, !.auth = m.auth,
                                             !.ifl = pending[k]]
      BY <2>1, <2>3 DEF IInv, TypeOK, Late, Finish, NewRx
    <3>3. rx'[u].id = m.id /\ rx'[u].auth = m.auth /\ rx'[u].ifl = pending[k]
      BY <3>2 DEF NewRx
    <3>4. RegisteredUnder(pending[k], k)
      BY <3>1, <3>2 DEF IInv, PendingInv, RegisteredUnder
    <3> QED BY <2>3, <3>2, <3>3, <3>4, <1>1 DEF Lookup, RegisteredUnder, KeyOf
  <2> QED BY <2>2, <2>3
<1>2. CASE Claim(s)
BY <1>2 DEF Claim, IInv, RxInv, RegisteredUnder, RequestAuth, Finish, Late,
     NewRx, TypeOK, KeyOf, Keys, Inflights, Attempts
<1>3. CASE ClaimLost(s)
BY <1>3 DEF ClaimLost, IInv, RxInv, RegisteredUnder, RequestAuth, Finish, Late,
     NewRx, TypeOK, KeyOf, Keys, Inflights, Attempts
<1>4. CASE Reread(s)
BY <1>4, ZenonT(60) DEF Reread, IInv, RxInv, RegisteredUnder, RequestAuth, Finish, Late,
     NewRx, TypeOK, KeyOf, Keys, Inflights, Attempts
<1>5. CASE PushReply(s)
BY <1>5 DEF PushReply, IInv, RxInv, RegisteredUnder, RequestAuth, Finish, Late,
     NewRx, TypeOK, KeyOf, Keys, Inflights, Attempts
<1>6. CASE DispatchOther(s)
BY <1>6 DEF DispatchOther, IInv, RxInv, RegisteredUnder, RequestAuth, Finish,
     Late, NewRx, TypeOK, KeyOf, Keys, Inflights, Attempts
<1>7. CASE ReadFails(s)
BY <1>7 DEF ReadFails, IInv, RxInv, RegisteredUnder, RequestAuth, Finish, Late,
     NewRx, TypeOK, KeyOf, Keys, Inflights, Attempts
<1> QED BY <1>1, <1>2, <1>3, <1>4, <1>5, <1>6, <1>7 DEF ReceiverStep, DeliverStep

LEMMA RxStep == IInv /\ TypeOK' /\ [Next]_vars => RxInv'
<1> SUFFICES ASSUME IInv, TypeOK', [Next]_vars PROVE RxInv'
  OBVIOUS
<1>1. CASE EngineStep
BY <1>1, EngineFrame DEF callVars, IInv, RxInv, RegisteredUnder, RequestAuth,
     NewRx, TypeOK, KeyOf
<1>2. CASE UNCHANGED vars
BY <1>2 DEF vars, engineVars, allocVars, matchVars, callVars, IInv, RxInv,
     RegisteredUnder, RequestAuth, NewRx, TypeOK, KeyOf
<1> QED BY <1>1, <1>2, RxCall, RxReceiver DEF Next


\* SendInv: Claim removes the entry it claims, so no inflight is claimed twice.
LEMMA PushCall ==
  ASSUME IInv, TypeOK', NEW c \in Calls, Send(c) \/ SendRefused(c) \/ SenderStep(c)
  PROVE  SendInv'
<1> USE DEF engineVars, allocVars, matchVars, callVars
<1>1. CASE Send(c) \/ BeginAttempt(c)
BY <1>1 DEF Send, BeginAttempt, BeginScan, IInv, SendInv, ChanInv, Finish, Late, NewRx,
     TypeOK, Current, Inflights, Keys
<1>2. CASE SendRefused(c)
BY <1>2 DEF SendRefused, IInv, SendInv, ChanInv, Finish, Late, NewRx, TypeOK,
     Current, Inflights, Keys
<1>3. CASE Allocate(c)
BY <1>3 DEF Allocate, IInv, SendInv, ChanInv, Finish, Late, NewRx, TypeOK,
     Current, Inflights, Keys
<1>4. CASE TryNextSocket(c)
BY <1>4 DEF TryNextSocket, IInv, SendInv, ChanInv, Finish, Late, NewRx, TypeOK,
     Current, Inflights, Keys
<1>5. CASE Backoff(c)
BY <1>5 DEF Backoff, BeginScan, IInv, SendInv, ChanInv, Finish, Late, NewRx,
     TypeOK, Current, Inflights, Keys
<1>6. CASE GiveUpAlloc(c)
BY <1>6 DEF GiveUpAlloc, IInv, SendInv, ChanInv, Finish, Late, NewRx, TypeOK,
     Current, Inflights, Keys
<1>7. CASE BuildFails(c)
BY <1>7 DEF BuildFails, IInv, SendInv, ChanInv, Finish, Late, NewRx, TypeOK,
     Current, Inflights, Keys
<1>8. CASE Register(c)
BY <1>8 DEF Register, IInv, SendInv, ChanInv, Finish, Late, NewRx, TypeOK,
     Current, Inflights, Keys
<1>9. CASE Write(c)
BY <1>9 DEF Write, IInv, SendInv, ChanInv, Finish, Late, NewRx, TypeOK, Current,
     Inflights, Keys
<1>10. CASE WriteFails(c)
BY <1>10 DEF WriteFails, Abandon, IInv, SendInv, ChanInv, Finish, Late, NewRx,
     TypeOK, Current, Inflights, Keys
<1>11. CASE WaitCtx(c)
BY <1>11 DEF WaitCtx, Abandon, IInv, SendInv, ChanInv, Finish, Late, NewRx,
     TypeOK, Current, Inflights, Keys
<1>12. CASE WaitTimer(c)
BY <1>12 DEF WaitTimer, Abandon, IInv, SendInv, ChanInv, Finish, Late, NewRx,
     TypeOK, Current, Inflights, Keys
<1>13. CASE WaitReply(c)
BY <1>13 DEF WaitReply, IInv, SendInv, ChanInv, Finish, Late, NewRx, TypeOK,
     Current, Inflights, Keys
<1>14. CASE Cancel(c)
BY <1>14 DEF Cancel, IInv, SendInv, ChanInv, Finish, Late, NewRx, TypeOK,
     Current, Inflights, Keys
<1>15. CASE ReleaseRetry(c)
BY <1>15 DEF ReleaseRetry, ReleaseID, IInv, SendInv, ChanInv, Finish,
     Late, NewRx, TypeOK, Current, Inflights, Keys
<1>16. CASE ReleaseReturn(c)
BY <1>16 DEF ReleaseReturn, ReleaseID, IInv, SendInv, ChanInv, Finish, Late,
     NewRx, TypeOK, Current, Inflights, Keys
<1> QED BY <1>1, <1>2, <1>3, <1>4, <1>5, <1>6, <1>7, <1>8, <1>9, <1>10, <1>11,
           <1>12, <1>13, <1>14, <1>15, <1>16 DEF SenderStep

LEMMA PushReceiver ==
  ASSUME IInv, TypeOK', NEW s \in Sockets, ReceiverStep(s)
  PROVE  SendInv'
<1> USE DEF engineVars, allocVars, matchVars, callVars
<1>1. CASE Lookup(s)
BY <1>1 DEF Lookup, IInv, SendInv, ChanInv, Finish, Late, NewRx, TypeOK,
     Current, Inflights, Keys
<1>2. CASE Claim(s)
  <2> DEFINE g == rx[s].ifl
  <2>1. g \in Inflights /\ <<s, rx[s].id>> \in Keys
    BY <1>2 DEF Claim, IInv, TypeOK, Keys
  <2>2. g \notin claimed
    BY <2>1, <1>2, NoneAssumption DEF Claim, IInv, PendingInv
  <2>3. chan[g] = None
    BY <2>1, <2>2 DEF IInv, ChanInv
  <2>4. \A u \in Sockets : u # s /\ rx[u].pc = "send" => rx[u].ifl # g
    BY <2>2 DEF IInv, SendInv
  <2>5. /\ \A u \in Sockets : u # s => rx'[u] = rx[u]
        /\ rx'[s].pc = "send" /\ rx'[s].ifl = g
        /\ claimed' = claimed \cup {g} /\ chan' = chan
    BY <1>2 DEF Claim, IInv, TypeOK
  <2> QED BY <2>3, <2>4, <2>5 DEF IInv, SendInv
<1>3. CASE ClaimLost(s)
BY <1>3 DEF ClaimLost, IInv, SendInv, ChanInv, Finish, Late, NewRx, TypeOK,
     Current, Inflights, Keys
<1>4. CASE Reread(s)
BY <1>4 DEF Reread, IInv, SendInv, ChanInv, Finish, Late, NewRx, TypeOK,
     Current, Inflights, Keys
<1>5. CASE PushReply(s)
BY <1>5 DEF PushReply, IInv, SendInv, ChanInv, Finish, Late, NewRx, TypeOK,
     Current, Inflights, Keys
<1>6. CASE DispatchOther(s)
BY <1>6 DEF DispatchOther, IInv, SendInv, ChanInv, Finish, Late, NewRx, TypeOK,
     Current, Inflights, Keys
<1>7. CASE ReadFails(s)
BY <1>7 DEF ReadFails, IInv, SendInv, ChanInv, Finish, Late, NewRx, TypeOK,
     Current, Inflights, Keys
<1> QED BY <1>1, <1>2, <1>3, <1>4, <1>5, <1>6, <1>7 DEF ReceiverStep, DeliverStep

LEMMA PushStep == IInv /\ TypeOK' /\ [Next]_vars => SendInv'
<1> SUFFICES ASSUME IInv, TypeOK', [Next]_vars PROVE SendInv'
  OBVIOUS
<1>1. CASE EngineStep
BY <1>1, EngineFrame DEF callVars, IInv, SendInv, ChanInv, Finish, Late, NewRx,
     TypeOK, Current, Inflights, Keys
<1>2. CASE UNCHANGED vars
BY <1>2 DEF vars, engineVars, allocVars, matchVars, callVars, IInv, SendInv,
     ChanInv, Finish, Late, NewRx, TypeOK, Current, Inflights, Keys
<1> QED BY <1>1, <1>2, PushCall, PushReceiver DEF Next


\* DoneInv: recentDone is written by Claim only.
LEMMA CompletedCall ==
  ASSUME IInv, TypeOK', NEW c \in Calls, Send(c) \/ SendRefused(c) \/ SenderStep(c)
  PROVE  DoneInv'
<1> USE DEF engineVars, allocVars, matchVars, callVars
<1>1. CASE Send(c) \/ BeginAttempt(c)
BY <1>1 DEF Send, BeginAttempt, BeginScan, IInv, DoneInv, RequestAuth, TypeOK
<1>2. CASE SendRefused(c)
BY <1>2 DEF SendRefused, IInv, DoneInv, RequestAuth, TypeOK
<1>3. CASE Allocate(c)
BY <1>3 DEF Allocate, IInv, DoneInv, RequestAuth, TypeOK
<1>4. CASE TryNextSocket(c)
BY <1>4 DEF TryNextSocket, IInv, DoneInv, RequestAuth, TypeOK
<1>5. CASE Backoff(c)
BY <1>5 DEF Backoff, BeginScan, IInv, DoneInv, RequestAuth, TypeOK
<1>6. CASE GiveUpAlloc(c)
BY <1>6 DEF GiveUpAlloc, IInv, DoneInv, RequestAuth, TypeOK
<1>7. CASE BuildFails(c)
BY <1>7 DEF BuildFails, IInv, DoneInv, RequestAuth, TypeOK
<1>8. CASE Register(c)
BY <1>8 DEF Register, IInv, DoneInv, RequestAuth, TypeOK
<1>9. CASE Write(c)
BY <1>9 DEF Write, IInv, DoneInv, RequestAuth, TypeOK
<1>10. CASE WriteFails(c)
BY <1>10 DEF WriteFails, Abandon, IInv, DoneInv, RequestAuth, TypeOK
<1>11. CASE WaitCtx(c)
BY <1>11 DEF WaitCtx, Abandon, IInv, DoneInv, RequestAuth, TypeOK
<1>12. CASE WaitTimer(c)
BY <1>12 DEF WaitTimer, Abandon, IInv, DoneInv, RequestAuth, TypeOK
<1>13. CASE WaitReply(c)
BY <1>13 DEF WaitReply, IInv, DoneInv, RequestAuth, TypeOK
<1>14. CASE Cancel(c)
BY <1>14 DEF Cancel, IInv, DoneInv, RequestAuth, TypeOK
<1>15. CASE ReleaseRetry(c)
BY <1>15 DEF ReleaseRetry, ReleaseID, IInv, DoneInv, RequestAuth,
     TypeOK
<1>16. CASE ReleaseReturn(c)
BY <1>16 DEF ReleaseReturn, ReleaseID, IInv, DoneInv, RequestAuth, TypeOK
<1> QED BY <1>1, <1>2, <1>3, <1>4, <1>5, <1>6, <1>7, <1>8, <1>9, <1>10, <1>11,
           <1>12, <1>13, <1>14, <1>15, <1>16 DEF SenderStep

LEMMA CompletedReceiver ==
  ASSUME IInv, TypeOK', NEW s \in Sockets, ReceiverStep(s)
  PROVE  DoneInv'
<1> USE DEF engineVars, allocVars, matchVars, callVars
<1>1. CASE Lookup(s)
BY <1>1 DEF Lookup, IInv, DoneInv, RequestAuth, TypeOK
<1>2. CASE Claim(s)
  <2> SUFFICES ASSUME NEW k \in Keys, recentDone'[k] # None
               PROVE  \E f \in claimed' : recentDone'[k] = RequestAuth(f, k[2])
    BY DEF DoneInv, RequestAuth
  <2> DEFINE j == <<s, rx[s].id>>
             a == RequestAuth(rx[s].ifl, rx[s].id)
  <2>1. j \in Keys /\ j[2] = rx[s].id
    BY <1>2 DEF IInv, TypeOK, Keys
  <2>2. claimed' = claimed \cup {rx[s].ifl}
    BY <1>2 DEF Claim
  <2>3. recentDone'[k] = [recentDone EXCEPT ![j] = a][k]
    BY <1>2 DEF Claim, Swept
  <2>4. CASE k = j
    BY <2>1, <2>2, <2>3, <2>4 DEF IInv, TypeOK
  <2>5. CASE k # j
    <3>1. recentDone'[k] = recentDone[k]
      BY <2>1, <2>3, <2>5 DEF IInv, TypeOK
    <3> QED BY <3>1, <2>2 DEF IInv, DoneInv
  <2> QED BY <2>4, <2>5
<1>3. CASE ClaimLost(s)
BY <1>3 DEF ClaimLost, IInv, DoneInv, RequestAuth, TypeOK
<1>4. CASE Reread(s)
BY <1>4 DEF Reread, IInv, DoneInv, RequestAuth, TypeOK
<1>5. CASE PushReply(s)
BY <1>5 DEF PushReply, IInv, DoneInv, RequestAuth, TypeOK
<1>6. CASE DispatchOther(s)
BY <1>6 DEF DispatchOther, IInv, DoneInv, RequestAuth, TypeOK
<1>7. CASE ReadFails(s)
BY <1>7 DEF ReadFails, IInv, DoneInv, RequestAuth, TypeOK
<1> QED BY <1>1, <1>2, <1>3, <1>4, <1>5, <1>6, <1>7 DEF ReceiverStep, DeliverStep

LEMMA CompletedStep == IInv /\ TypeOK' /\ [Next]_vars => DoneInv'
<1> SUFFICES ASSUME IInv, TypeOK', [Next]_vars PROVE DoneInv'
  OBVIOUS
<1>1. CASE EngineStep
BY <1>1, EngineFrame DEF callVars, IInv, DoneInv, RequestAuth, TypeOK
<1>2. CASE UNCHANGED vars
BY <1>2 DEF vars, engineVars, allocVars, matchVars, callVars, IInv, DoneInv,
     RequestAuth, TypeOK
<1> QED BY <1>1, <1>2, CompletedCall, CompletedReceiver DEF Next


\* DuplicateIsSecond: the tail of Deliver compares the reply with what DoneInv describes.
LEMMA DupCall ==
  ASSUME IInv, TypeOK', NEW c \in Calls, Send(c) \/ SendRefused(c) \/ SenderStep(c)
  PROVE  DuplicateIsSecond'
<1> USE DEF engineVars, allocVars, matchVars, callVars
<1>1. CASE Send(c) \/ BeginAttempt(c)
BY <1>1 DEF Send, BeginAttempt, BeginScan, IInv, DuplicateIsSecond, DoneInv, RequestAuth,
     Finish, Late, NewRx, Keys, Arrivals, TypeOK
<1>2. CASE SendRefused(c)
BY <1>2 DEF SendRefused, IInv, DuplicateIsSecond, DoneInv, RequestAuth,
     Finish, Late, NewRx, Keys, Arrivals, TypeOK
<1>3. CASE Allocate(c)
BY <1>3 DEF Allocate, IInv, DuplicateIsSecond, DoneInv, RequestAuth, Finish,
     Late, NewRx, Keys, Arrivals, TypeOK
<1>4. CASE TryNextSocket(c)
BY <1>4 DEF TryNextSocket, IInv, DuplicateIsSecond, DoneInv, RequestAuth,
     Finish, Late, NewRx, Keys, Arrivals, TypeOK
<1>5. CASE Backoff(c)
BY <1>5 DEF Backoff, BeginScan, IInv, DuplicateIsSecond, DoneInv, RequestAuth,
     Finish, Late, NewRx, Keys, Arrivals, TypeOK
<1>6. CASE GiveUpAlloc(c)
BY <1>6 DEF GiveUpAlloc, IInv, DuplicateIsSecond, DoneInv, RequestAuth, Finish,
     Late, NewRx, Keys, Arrivals, TypeOK
<1>7. CASE BuildFails(c)
BY <1>7 DEF BuildFails, IInv, DuplicateIsSecond, DoneInv, RequestAuth, Finish,
     Late, NewRx, Keys, Arrivals, TypeOK
<1>8. CASE Register(c)
BY <1>8 DEF Register, IInv, DuplicateIsSecond, DoneInv, RequestAuth, Finish,
     Late, NewRx, Keys, Arrivals, TypeOK
<1>9. CASE Write(c)
BY <1>9 DEF Write, IInv, DuplicateIsSecond, DoneInv, RequestAuth, Finish, Late,
     NewRx, Keys, Arrivals, TypeOK
<1>10. CASE WriteFails(c)
BY <1>10 DEF WriteFails, Abandon, IInv, DuplicateIsSecond, DoneInv, RequestAuth,
     Finish, Late, NewRx, Keys, Arrivals, TypeOK
<1>11. CASE WaitCtx(c)
BY <1>11 DEF WaitCtx, Abandon, IInv, DuplicateIsSecond, DoneInv, RequestAuth,
     Finish, Late, NewRx, Keys, Arrivals, TypeOK
<1>12. CASE WaitTimer(c)
BY <1>12 DEF WaitTimer, Abandon, IInv, DuplicateIsSecond, DoneInv, RequestAuth,
     Finish, Late, NewRx, Keys, Arrivals, TypeOK
<1>13. CASE WaitReply(c)
BY <1>13 DEF WaitReply, IInv, DuplicateIsSecond, DoneInv, RequestAuth, Finish,
     Late, NewRx, Keys, Arrivals, TypeOK
<1>14. CASE Cancel(c)
BY <1>14 DEF Cancel, IInv, DuplicateIsSecond, DoneInv, RequestAuth, Finish,
     Late, NewRx, Keys, Arrivals, TypeOK
<1>15. CASE ReleaseRetry(c)
BY <1>15 DEF ReleaseRetry, ReleaseID, IInv, DuplicateIsSecond,
     DoneInv, RequestAuth, Finish, Late, NewRx, Keys, Arrivals, TypeOK
<1>16. CASE ReleaseReturn(c)
BY <1>16 DEF ReleaseReturn, ReleaseID, IInv, DuplicateIsSecond, DoneInv,
     RequestAuth, Finish, Late, NewRx, Keys, Arrivals, TypeOK
<1> QED BY <1>1, <1>2, <1>3, <1>4, <1>5, <1>6, <1>7, <1>8, <1>9, <1>10, <1>11,
           <1>12, <1>13, <1>14, <1>15, <1>16 DEF SenderStep

LEMMA DupReceiver ==
  ASSUME IInv, TypeOK', NEW s \in Sockets, ReceiverStep(s)
  PROVE  DuplicateIsSecond'
<1> USE DEF engineVars, allocVars, matchVars, callVars
<1>1. CASE Lookup(s)
BY <1>1 DEF Lookup, IInv, DuplicateIsSecond, DoneInv, RequestAuth, Finish, Late,
     NewRx, Keys, Arrivals, TypeOK
<1>2. CASE Claim(s)
BY <1>2 DEF Claim, IInv, DuplicateIsSecond, DoneInv, RequestAuth, Finish, Late,
     NewRx, Keys, Arrivals, TypeOK
<1>3. CASE ClaimLost(s)
BY <1>3 DEF ClaimLost, IInv, DuplicateIsSecond, DoneInv, RequestAuth, Finish,
     Late, NewRx, Keys, Arrivals, TypeOK
<1>4. CASE Reread(s)
BY <1>4 DEF Reread, IInv, DuplicateIsSecond, DoneInv, RequestAuth, Finish, Late,
     NewRx, Keys, Arrivals, TypeOK
<1>5. CASE PushReply(s)
BY <1>5 DEF PushReply, IInv, DuplicateIsSecond, DoneInv, RequestAuth, Finish,
     Late, NewRx, Keys, Arrivals, TypeOK
<1>6. CASE DispatchOther(s)
BY <1>6 DEF DispatchOther, IInv, DuplicateIsSecond, DoneInv, RequestAuth,
     Finish, Late, NewRx, Keys, Arrivals, TypeOK
<1>7. CASE ReadFails(s)
BY <1>7 DEF ReadFails, IInv, DuplicateIsSecond, DoneInv, RequestAuth, Finish,
     Late, NewRx, Keys, Arrivals, TypeOK
<1> QED BY <1>1, <1>2, <1>3, <1>4, <1>5, <1>6, <1>7 DEF ReceiverStep, DeliverStep

LEMMA DupStep == IInv /\ TypeOK' /\ [Next]_vars => DuplicateIsSecond'
<1> SUFFICES ASSUME IInv, TypeOK', [Next]_vars PROVE DuplicateIsSecond'
  OBVIOUS
<1>1. CASE EngineStep
BY <1>1, EngineFrame DEF callVars, IInv, DuplicateIsSecond, DoneInv,
     RequestAuth, Finish, Late, NewRx, Keys, Arrivals, TypeOK
<1>2. CASE UNCHANGED vars
BY <1>2 DEF vars, engineVars, allocVars, matchVars, callVars, IInv,
     DuplicateIsSecond, DoneInv, RequestAuth, Finish, Late, NewRx, Keys,
     Arrivals, TypeOK
<1> QED BY <1>1, <1>2, DupCall, DupReceiver DEF Next


\* ReplyIntegrity: WaitReply reads the channel ChanInv describes.
LEMMA ReplyCall ==
  ASSUME IInv, TypeOK', NEW c \in Calls, Send(c) \/ SendRefused(c) \/ SenderStep(c)
  PROVE  ReplyIntegrity'
<1> USE DEF engineVars, allocVars, matchVars, callVars
<1>1. CASE Send(c) \/ BeginAttempt(c)
BY <1>1 DEF Send, BeginAttempt, BeginScan, IInv, ReplyIntegrity, TxInv, TypeOK
<1>2. CASE SendRefused(c)
BY <1>2 DEF SendRefused, IInv, ReplyIntegrity, TxInv, TypeOK
<1>3. CASE Allocate(c)
BY <1>3 DEF Allocate, IInv, ReplyIntegrity, TxInv, TypeOK
<1>4. CASE TryNextSocket(c)
BY <1>4 DEF TryNextSocket, IInv, ReplyIntegrity, TxInv, TypeOK
<1>5. CASE Backoff(c)
BY <1>5 DEF Backoff, BeginScan, IInv, ReplyIntegrity, TxInv, TypeOK
<1>6. CASE GiveUpAlloc(c)
BY <1>6 DEF GiveUpAlloc, IInv, ReplyIntegrity, TxInv, TypeOK
<1>7. CASE BuildFails(c)
BY <1>7 DEF BuildFails, IInv, ReplyIntegrity, TxInv, TypeOK
<1>8. CASE Register(c)
BY <1>8 DEF Register, IInv, ReplyIntegrity, TxInv, TypeOK
<1>9. CASE Write(c)
BY <1>9 DEF Write, IInv, ReplyIntegrity, TxInv, TypeOK
<1>10. CASE WriteFails(c)
BY <1>10 DEF WriteFails, Abandon, IInv, ReplyIntegrity, TxInv, TypeOK
<1>11. CASE WaitCtx(c)
BY <1>11 DEF WaitCtx, Abandon, IInv, ReplyIntegrity, TxInv, TypeOK
<1>12. CASE WaitTimer(c)
BY <1>12 DEF WaitTimer, Abandon, IInv, ReplyIntegrity, TxInv, TypeOK
<1>13. CASE WaitReply(c)
  <2>1. chan[Current(c)] = Authenticator(c, attempt[c], id[c])
    BY <1>13 DEF WaitReply, IInv, ChanInv, RequestAuth, Current, TypeOK, Inflights
  <2>2. got'[c] = Authenticator(c, attempt[c], id[c])
    BY <2>1, <1>13 DEF WaitReply, IInv, TypeOK
  <2> QED BY <2>2, <1>13 DEF WaitReply, IInv, ReplyIntegrity, TypeOK
<1>14. CASE Cancel(c)
  <2>1. pc[c] # "release" /\ outcome[c] # "reply"
    BY <1>14 DEF Cancel, IInv, TxInv
  <2> QED BY <2>1, <1>14 DEF Cancel, IInv, ReplyIntegrity, TypeOK
<1>15. CASE ReleaseRetry(c)
BY <1>15 DEF ReleaseRetry, ReleaseID, IInv, ReplyIntegrity, TxInv,
     TypeOK
<1>16. CASE ReleaseReturn(c)
BY <1>16 DEF ReleaseReturn, ReleaseID, IInv, ReplyIntegrity, TxInv, TypeOK
<1> QED BY <1>1, <1>2, <1>3, <1>4, <1>5, <1>6, <1>7, <1>8, <1>9, <1>10, <1>11,
           <1>12, <1>13, <1>14, <1>15, <1>16 DEF SenderStep

LEMMA ReplyReceiver ==
  ASSUME IInv, TypeOK', NEW s \in Sockets, ReceiverStep(s)
  PROVE  ReplyIntegrity'
<1> USE DEF engineVars, allocVars, matchVars, callVars
<1>1. CASE Lookup(s)
BY <1>1 DEF Lookup, IInv, ReplyIntegrity, TxInv, TypeOK
<1>2. CASE Claim(s)
BY <1>2 DEF Claim, IInv, ReplyIntegrity, TxInv, TypeOK
<1>3. CASE ClaimLost(s)
BY <1>3 DEF ClaimLost, IInv, ReplyIntegrity, TxInv, TypeOK
<1>4. CASE Reread(s)
BY <1>4 DEF Reread, IInv, ReplyIntegrity, TxInv, TypeOK
<1>5. CASE PushReply(s)
BY <1>5 DEF PushReply, IInv, ReplyIntegrity, TxInv, TypeOK
<1>6. CASE DispatchOther(s)
BY <1>6 DEF DispatchOther, IInv, ReplyIntegrity, TxInv, TypeOK
<1>7. CASE ReadFails(s)
BY <1>7 DEF ReadFails, IInv, ReplyIntegrity, TxInv, TypeOK
<1> QED BY <1>1, <1>2, <1>3, <1>4, <1>5, <1>6, <1>7 DEF ReceiverStep, DeliverStep

LEMMA ReplyStep == IInv /\ TypeOK' /\ [Next]_vars => ReplyIntegrity'
<1> SUFFICES ASSUME IInv, TypeOK', [Next]_vars PROVE ReplyIntegrity'
  OBVIOUS
<1>1. CASE EngineStep
BY <1>1, EngineFrame DEF callVars, IInv, ReplyIntegrity, TxInv, TypeOK
<1>2. CASE UNCHANGED vars
BY <1>2 DEF vars, engineVars, allocVars, matchVars, callVars, IInv,
     ReplyIntegrity, TxInv, TypeOK
<1> QED BY <1>1, <1>2, ReplyCall, ReplyReceiver DEF Next


\* TxInv: each attempt writes at most once.
LEMMA TxCall ==
  ASSUME IInv, TypeOK', NEW c \in Calls, Send(c) \/ SendRefused(c) \/ SenderStep(c)
  PROVE  TxInv'
<1> USE DEF engineVars, allocVars, matchVars, callVars
<1>1. CASE Send(c) \/ BeginAttempt(c)
BY <1>1 DEF Send, BeginAttempt, BeginScan, IInv, TxInv, TypeOK, Attempts
<1>2. CASE SendRefused(c)
BY <1>2 DEF SendRefused, IInv, TxInv, TypeOK, Attempts
<1>3. CASE Allocate(c)
BY <1>3 DEF Allocate, IInv, TxInv, TypeOK, Attempts
<1>4. CASE TryNextSocket(c)
BY <1>4 DEF TryNextSocket, IInv, TxInv, TypeOK, Attempts
<1>5. CASE Backoff(c)
BY <1>5 DEF Backoff, BeginScan, IInv, TxInv, TypeOK, Attempts
<1>6. CASE GiveUpAlloc(c)
BY <1>6 DEF GiveUpAlloc, IInv, TxInv, TypeOK, Attempts
<1>7. CASE BuildFails(c)
BY <1>7 DEF BuildFails, IInv, TxInv, TypeOK, Attempts
<1>8. CASE Register(c)
BY <1>8 DEF Register, IInv, TxInv, TypeOK, Attempts
<1>9. CASE Write(c)
BY <1>9 DEF Write, IInv, TxInv, TypeOK, Attempts
<1>10. CASE WriteFails(c)
BY <1>10 DEF WriteFails, Abandon, IInv, TxInv, TypeOK, Attempts
<1>11. CASE WaitCtx(c)
BY <1>11 DEF WaitCtx, Abandon, IInv, TxInv, TypeOK, Attempts
<1>12. CASE WaitTimer(c)
BY <1>12 DEF WaitTimer, Abandon, IInv, TxInv, TypeOK, Attempts
<1>13. CASE WaitReply(c)
BY <1>13 DEF WaitReply, IInv, TxInv, TypeOK, Attempts
<1>14. CASE Cancel(c)
BY <1>14 DEF Cancel, IInv, TxInv, TypeOK, Attempts
<1>15. CASE ReleaseRetry(c)
BY <1>15 DEF ReleaseRetry, ReleaseID, IInv, TxInv, TypeOK, Attempts
<1>16. CASE ReleaseReturn(c)
BY <1>16 DEF ReleaseReturn, ReleaseID, IInv, TxInv, TypeOK, Attempts
<1> QED BY <1>1, <1>2, <1>3, <1>4, <1>5, <1>6, <1>7, <1>8, <1>9, <1>10, <1>11,
           <1>12, <1>13, <1>14, <1>15, <1>16 DEF SenderStep

LEMMA TxReceiver ==
  ASSUME IInv, TypeOK', NEW s \in Sockets, ReceiverStep(s)
  PROVE  TxInv'
<1> USE DEF engineVars, allocVars, matchVars, callVars
<1>1. CASE Lookup(s)
BY <1>1 DEF Lookup, IInv, TxInv, TypeOK, Attempts
<1>2. CASE Claim(s)
BY <1>2 DEF Claim, IInv, TxInv, TypeOK, Attempts
<1>3. CASE ClaimLost(s)
BY <1>3 DEF ClaimLost, IInv, TxInv, TypeOK, Attempts
<1>4. CASE Reread(s)
BY <1>4 DEF Reread, IInv, TxInv, TypeOK, Attempts
<1>5. CASE PushReply(s)
BY <1>5 DEF PushReply, IInv, TxInv, TypeOK, Attempts
<1>6. CASE DispatchOther(s)
BY <1>6 DEF DispatchOther, IInv, TxInv, TypeOK, Attempts
<1>7. CASE ReadFails(s)
BY <1>7 DEF ReadFails, IInv, TxInv, TypeOK, Attempts
<1> QED BY <1>1, <1>2, <1>3, <1>4, <1>5, <1>6, <1>7 DEF ReceiverStep, DeliverStep

LEMMA TxStep == IInv /\ TypeOK' /\ [Next]_vars => TxInv'
<1> SUFFICES ASSUME IInv, TypeOK', [Next]_vars PROVE TxInv'
  OBVIOUS
<1>1. CASE EngineStep
BY <1>1, EngineFrame DEF callVars, IInv, TxInv, TypeOK, Attempts
<1>2. CASE UNCHANGED vars
BY <1>2 DEF vars, engineVars, allocVars, matchVars, callVars, IInv, TxInv,
     TypeOK, Attempts
<1> QED BY <1>1, <1>2, TxCall, TxReceiver DEF Next


-----------------------------------------------------------------------------
(* Identifiers: the bitmap and the calls agree.                            *)

LEMMA IDsFinite ==
  ASSUME NEW S, S \subseteq IDs
  PROVE  IsFiniteSet(S) /\ Cardinality(S) \in Nat
<1>1. IsFiniteSet(IDs)
  BY SizeAssumption, FS_Interval DEF IDs
<1> QED BY <1>1, FS_Subset, FS_CardinalityType

\* A step of c that neither takes nor gives back an Identifier.
LEMMA OwnershipFrame ==
  ASSUME IInv, NEW c \in Calls, UNCHANGED <<bits, count>>,
         \A d \in Calls : d # c => pc'[d] = pc[d] /\ sock'[d] = sock[d] /\ id'[d] = id[d],
         Holding(c)' <=> Holding(c),
         Holding(c) => sock'[c] = sock[c] /\ id'[c] = id[c]
  PROVE  IDOwnership'
BY DEF IInv, IDOwnership, Holding, TupleOf

\* A step of c that gives its Identifier back.
LEMMA OwnershipRelease ==
  ASSUME IInv, NEW c \in Calls, Holding(c), ~Holding(c)', ReleaseID(TupleOf(c), id[c]),
         \A d \in Calls : d # c => pc'[d] = pc[d] /\ sock'[d] = sock[d] /\ id'[d] = id[d]
  PROVE  IDOwnership'
<1> DEFINE t == TupleOf(c)
           i == id[c]
<1>1. t \in Tuples /\ i \in bits[t] /\ bits \in [Tuples -> SUBSET IDs]
      /\ count \in [Tuples -> Int]
  BY CallAssumption DEF IInv, TypeOK, IDOwnership, TupleOf, Tuples
<1>2. /\ bits' = [bits EXCEPT ![t] = @ \ {i}]
      /\ count' = [count EXCEPT ![t] = @ - 1]
  BY <1>1 DEF ReleaseID
<1>3. \A d \in Calls : Holding(d)' => d # c /\ Holding(d) /\ TupleOf(d)' = TupleOf(d)
                                      /\ id'[d] = id[d]
  BY DEF Holding, TupleOf
<1>4. \A d \in Calls : d # c /\ Holding(d) => Holding(d)' /\ TupleOf(d)' = TupleOf(d)
                                              /\ id'[d] = id[d]
  BY DEF Holding, TupleOf
<1> HIDE DEF t, i
<1>5. \A a, b \in Calls :
        Holding(a)' /\ Holding(b)' /\ TupleOf(a)' = TupleOf(b)' /\ id'[a] = id'[b]
          => a = b
  BY <1>3 DEF IInv, IDOwnership
<1>6. \A d \in Calls : Holding(d)' => id'[d] \in bits'[TupleOf(d)']
  <2> SUFFICES ASSUME NEW d \in Calls, Holding(d)'
               PROVE  id[d] \in bits'[TupleOf(d)]
    BY <1>3
  <2>1. d # c /\ Holding(d) /\ id[d] \in bits[TupleOf(d)] /\ TupleOf(d) \in Tuples
    BY <1>3, CallAssumption DEF IInv, IDOwnership, TypeOK, TupleOf, Tuples
  <2>2. TupleOf(d) = t => id[d] # i
    BY <2>1 DEF IInv, IDOwnership, t, i
  <2> QED BY <1>1, <1>2, <2>1, <2>2
<1>7. ASSUME NEW u \in Tuples, NEW j \in bits'[u]
      PROVE  \E d \in Calls : Holding(d)' /\ TupleOf(d)' = u /\ id'[d] = j
  <2>1. j \in bits[u] /\ (u = t => j # i)
    BY <1>1, <1>2
  <2>2. PICK d \in Calls : Holding(d) /\ TupleOf(d) = u /\ id[d] = j
    BY <2>1 DEF IInv, IDOwnership
  <2>3. d # c
    BY <2>1, <2>2 DEF t, i
  <2> QED BY <2>2, <2>3, <1>4
<1>8. ASSUME NEW u \in Tuples
      PROVE  count'[u] = Cardinality(bits'[u])
  <2>1. CASE u # t
    BY <1>1, <1>2, <2>1 DEF IInv, IDOwnership
  <2>2. CASE u = t
    <3>1. Cardinality(bits[t] \ {i}) = Cardinality(bits[t]) - 1
      BY <1>1, IDsFinite, FS_RemoveElement
    <3> QED BY <1>1, <1>2, <2>2, <3>1 DEF IInv, IDOwnership
  <2> QED BY <2>1, <2>2
<1> QED BY <1>5, <1>6, <1>7, <1>8 DEF IDOwnership

\* The step that takes an Identifier: it was clear, so nobody holds it.
LEMMA OwnershipAllocate ==
  ASSUME IInv, NEW c \in Calls, Allocate(c)
  PROVE  IDOwnership'
<1> DEFINE t == TupleOf(c)
<1>1. PICK i \in IDs :
        /\ i \notin bits[t]
        /\ bits' = [bits EXCEPT ![t] = @ \cup {i}]
        /\ count' = [count EXCEPT ![t] = @ + 1]
        /\ id' = [id EXCEPT ![c] = i]
  BY DEF Allocate, IsFirstFree
<1>2. t \in Tuples /\ bits \in [Tuples -> SUBSET IDs] /\ count \in [Tuples -> Int]
  BY CallAssumption DEF IInv, TypeOK, TupleOf, Tuples
<1>3. ~Holding(c) /\ Holding(c)' /\ TupleOf(c)' = t /\ id'[c] = i
  BY <1>1 DEF Allocate, Holding, TupleOf, IInv, TypeOK
<1>4. \A d \in Calls : d # c =>
        Holding(d)' = Holding(d) /\ TupleOf(d)' = TupleOf(d) /\ id'[d] = id[d]
  BY <1>1 DEF Allocate, Holding, TupleOf, IInv, TypeOK
<1> HIDE DEF t
<1>5. \A d \in Calls : Holding(d) /\ TupleOf(d) = t => id[d] # i
  BY <1>1 DEF IInv, IDOwnership
<1>6. \A a, b \in Calls :
        Holding(a)' /\ Holding(b)' /\ TupleOf(a)' = TupleOf(b)' /\ id'[a] = id'[b]
          => a = b
  BY <1>3, <1>4, <1>5 DEF IInv, IDOwnership
<1>7. ASSUME NEW d \in Calls, Holding(d)'
      PROVE  id'[d] \in bits'[TupleOf(d)']
  <2>1. CASE d = c
    BY <1>1, <1>2, <1>3, <2>1
  <2>2. CASE d # c
    <3>1. Holding(d) /\ TupleOf(d)' = TupleOf(d) /\ id'[d] = id[d]
      BY <1>4, <1>7, <2>2
    <3>2. id[d] \in bits[TupleOf(d)] /\ TupleOf(d) \in Tuples
      BY <3>1, CallAssumption DEF IInv, IDOwnership, TypeOK, TupleOf, Tuples
    <3> QED BY <1>1, <1>2, <3>1, <3>2
  <2> QED BY <2>1, <2>2
<1>8. ASSUME NEW u \in Tuples, NEW j \in bits'[u]
      PROVE  \E d \in Calls : Holding(d)' /\ TupleOf(d)' = u /\ id'[d] = j
  <2>1. CASE u = t /\ j = i
    BY <1>3, <2>1
  <2>2. CASE ~(u = t /\ j = i)
    <3>1. j \in bits[u]
      BY <1>1, <1>2, <2>2
    <3>2. PICK d \in Calls : Holding(d) /\ TupleOf(d) = u /\ id[d] = j
      BY <3>1 DEF IInv, IDOwnership
    <3> QED BY <3>2, <1>3, <1>4
  <2> QED BY <2>1, <2>2
<1>9. ASSUME NEW u \in Tuples
      PROVE  count'[u] = Cardinality(bits'[u])
  <2>1. CASE u # t
    BY <1>1, <1>2, <2>1 DEF IInv, IDOwnership
  <2>2. CASE u = t
    <3>1. Cardinality(bits[t] \cup {i}) = Cardinality(bits[t]) + 1
      BY <1>1, <1>2, IDsFinite, FS_AddElement
    <3> QED BY <1>1, <1>2, <2>2, <3>1 DEF IInv, IDOwnership
  <2> QED BY <2>1, <2>2
<1> QED BY <1>6, <1>7, <1>8, <1>9 DEF IDOwnership

LEMMA OwnershipStep == IInv /\ TypeOK' /\ [Next]_vars => IDOwnership'
<1> SUFFICES ASSUME IInv, TypeOK', [Next]_vars PROVE IDOwnership'
  OBVIOUS
<1> USE DEF engineVars, allocVars, matchVars, callVars
<1>1. CASE EngineStep
  BY <1>1, EngineFrame DEF IInv, IDOwnership, Holding, TupleOf
<1>2. CASE UNCHANGED vars
  BY <1>2 DEF vars, IInv, IDOwnership, Holding, TupleOf
<1>3. ASSUME NEW s \in Sockets, ReceiverStep(s)
      PROVE  IDOwnership'
  <2>1. UNCHANGED <<allocVars, callVars>>
    BY <1>3 DEF ReceiverStep, DeliverStep, Lookup, Claim, ClaimLost, Reread,
       PushReply, DispatchOther, ReadFails
  <2> QED BY <2>1 DEF IInv, IDOwnership, Holding, TupleOf
<1>4. ASSUME NEW c \in Calls, Send(c) \/ SendRefused(c) \/ SenderStep(c)
      PROVE  IDOwnership'
  <2>1. CASE Send(c) \/ SendRefused(c) \/ BeginAttempt(c)
    <3>1. /\ UNCHANGED <<bits, count>>
          /\ \A d \in Calls : d # c =>
               pc'[d] = pc[d] /\ sock'[d] = sock[d] /\ id'[d] = id[d]
          /\ Holding(c)' <=> Holding(c)
          /\ Holding(c) => sock'[c] = sock[c] /\ id'[c] = id[c]
      BY <2>1 DEF Send, SendRefused, BeginAttempt, BeginScan, Holding, IInv, TypeOK
    <3> QED BY <3>1, OwnershipFrame
  <2>2. CASE Allocate(c)
    BY <2>2, OwnershipAllocate
  <2>3. CASE TryNextSocket(c) \/ Backoff(c) \/ GiveUpAlloc(c)
    <3>1. /\ UNCHANGED <<bits, count>>
          /\ \A d \in Calls : d # c =>
               pc'[d] = pc[d] /\ sock'[d] = sock[d] /\ id'[d] = id[d]
          /\ Holding(c)' <=> Holding(c)
          /\ Holding(c) => sock'[c] = sock[c] /\ id'[c] = id[c]
      BY <2>3 DEF TryNextSocket, Backoff, GiveUpAlloc, BeginScan, Holding, IInv, TypeOK
    <3> QED BY <3>1, OwnershipFrame
  <2>4. CASE BuildFails(c) \/ Register(c) \/ Write(c) \/ Cancel(c) \/ WaitReply(c)
    <3>1. /\ UNCHANGED <<bits, count>>
          /\ \A d \in Calls : d # c =>
               pc'[d] = pc[d] /\ sock'[d] = sock[d] /\ id'[d] = id[d]
          /\ Holding(c)' <=> Holding(c)
          /\ Holding(c) => sock'[c] = sock[c] /\ id'[c] = id[c]
      BY <2>4 DEF BuildFails, Register, Write, Cancel, WaitReply, Holding, IInv, TypeOK
    <3> QED BY <3>1, OwnershipFrame
  <2>5. CASE WriteFails(c) \/ WaitCtx(c) \/ WaitTimer(c)
    <3>1. /\ UNCHANGED <<bits, count>>
          /\ \A d \in Calls : d # c =>
               pc'[d] = pc[d] /\ sock'[d] = sock[d] /\ id'[d] = id[d]
          /\ Holding(c)' <=> Holding(c)
          /\ Holding(c) => sock'[c] = sock[c] /\ id'[c] = id[c]
      BY <2>5 DEF WriteFails, WaitCtx, WaitTimer, Abandon, Holding, IInv, TypeOK
    <3> QED BY <3>1, OwnershipFrame
  <2>6. CASE ReleaseRetry(c)
    <3>1. Holding(c) /\ ~Holding(c)' /\ ReleaseID(TupleOf(c), id[c])
      BY <2>6 DEF ReleaseRetry, Holding, IInv, TypeOK
    <3>2. \A d \in Calls : d # c =>
            pc'[d] = pc[d] /\ sock'[d] = sock[d] /\ id'[d] = id[d]
      BY <2>6 DEF ReleaseRetry, IInv, TypeOK
    <3> QED BY <3>1, <3>2, OwnershipRelease
  <2>7. CASE ReleaseReturn(c)
    <3>1. Holding(c) /\ ~Holding(c)' /\ ReleaseID(TupleOf(c), id[c])
      BY <2>7 DEF ReleaseReturn, Holding, IInv, TypeOK
    <3>2. \A d \in Calls : d # c =>
            pc'[d] = pc[d] /\ sock'[d] = sock[d] /\ id'[d] = id[d]
      BY <2>7 DEF ReleaseReturn, IInv, TypeOK
    <3> QED BY <3>1, <3>2, OwnershipRelease
  <2> QED BY <1>4, <2>1, <2>2, <2>3, <2>4, <2>5, <2>6, <2>7 DEF SenderStep
<1> QED BY <1>1, <1>2, <1>3, <1>4 DEF Next

\* StartedInv: only Send leaves "idle" for a running stage.
LEMMA StartedStep == IInv /\ [Next]_vars => StartedInv'
<1> SUFFICES ASSUME IInv, [Next]_vars PROVE StartedInv'
  OBVIOUS
<1> USE DEF engineVars, allocVars, matchVars, callVars
<1>1. CASE EngineStep
  BY <1>1 DEF EngineStep, Start, CancelCtx, WatcherStop, StopReceiver, CloseAll,
     IInv, StartedInv
<1>2. CASE UNCHANGED vars
  BY <1>2 DEF vars, IInv, StartedInv
<1>3. ASSUME NEW s \in Sockets, ReceiverStep(s)
      PROVE  StartedInv'
  <2>1. UNCHANGED <<started, pc>>
    BY <1>3 DEF ReceiverStep, DeliverStep, Lookup, Claim, ClaimLost, Reread,
       PushReply, DispatchOther, ReadFails
  <2> QED BY <2>1 DEF IInv, StartedInv
<1>4. ASSUME NEW c \in Calls, Send(c) \/ SendRefused(c) \/ SenderStep(c)
      PROVE  StartedInv'
  <2>1. /\ started' = started
        /\ \A d \in Calls : d # c => pc'[d] = pc[d]
        /\ pc'[c] \notin {"idle", "done"} => started \/ pc[c] \notin {"idle", "done"}
    BY <1>4 DEF Send, SendRefused, SenderStep, Allocate, TryNextSocket, Backoff,
       GiveUpAlloc, BuildFails, Register, Write, WriteFails, WaitCtx, WaitTimer,
       Abandon, WaitReply, Cancel, ReleaseRetry, ReleaseReturn, BeginAttempt, IInv, TypeOK
  <2> QED BY <2>1 DEF IInv, StartedInv
<1> QED BY <1>1, <1>2, <1>3, <1>4 DEF Next

-----------------------------------------------------------------------------
(* The invariant holds, and with it the safety properties.                 *)

LEMMA InductiveInit == Init => IInv
<1> SUFFICES ASSUME Init PROVE IInv
  OBVIOUS
<1>1. TypeOK
  BY TypeInit
<1>2. \A s \in Sockets : rx[s].pc = "off" /\ rx[s].verdict = "other"
  BY DEF Init, NewRx
<1>3. IDOwnership
  BY FS_EmptySet DEF Init, IDOwnership, Holding
<1>4. StartedInv /\ PendingInv /\ ClaimedInv /\ ChanInv /\ DoneInv
  BY DEF Init, StartedInv, PendingInv, ClaimedInv, ChanInv, DoneInv
<1>5. TxInv /\ ReplyIntegrity
  BY DEF Init, TxInv, ReplyIntegrity
<1>6. RxInv /\ SendInv /\ DuplicateIsSecond
  BY <1>2 DEF RxInv, SendInv, DuplicateIsSecond
<1> QED BY <1>1, <1>3, <1>4, <1>5, <1>6 DEF IInv

LEMMA InductiveStep == IInv /\ [Next]_vars => IInv'
<1> SUFFICES ASSUME IInv, [Next]_vars PROVE IInv'
  OBVIOUS
<1>1. TypeOK'
  BY TypeNext DEF IInv
<1> QED BY <1>1, StartedStep, PendingStep, ClaimedStep, ChanStep, RxStep, PushStep,
           CompletedStep, DupStep, ReplyStep, TxStep, OwnershipStep DEF IInv

\* The inductive invariant of the engine.
THEOREM Inductive == Spec => []IInv
BY InductiveInit, InductiveStep, PTL DEF Spec

\* For every topology, Identifier space and retry policy: no Identifier is
\* shared within a tuple or leaked, and the exhaustion counter is exact.
THEOREM IdentifiersOwned == Spec => []IDOwnership
<1>1. IInv => IDOwnership
  BY DEF IInv
<1> QED BY <1>1, Inductive, PTL

\* A successful Send always returns the answer to its own transmission.
THEOREM RepliesAuthentic == Spec => []ReplyIntegrity
<1>1. IInv => ReplyIntegrity
  BY DEF IInv
<1> QED BY <1>1, Inductive, PTL

\* Deliver's non-blocking channel send never falls into its default arm.
THEOREM PushAlwaysFits == Spec => []PushNeverDropped
<1>1. IInv => PushNeverDropped
  BY DEF IInv, SendInv, PushNeverDropped
<1> QED BY <1>1, Inductive, PTL

\* A duplicate_reply event always refers to a request already answered.
THEOREM DuplicatesGenuine == Spec => []DuplicateIsSecond
<1>1. IInv => DuplicateIsSecond
  BY DEF IInv
<1> QED BY <1>1, Inductive, PTL

-----------------------------------------------------------------------------
(* One Identifier space per socket: no waiter is ever orphaned.            *)

\* With one destination per socket the matcher's key identifies the holder.
LEMMA KeyExclusive ==
  ASSUME OneScope, IInv, NEW c \in Calls, NEW d \in Calls,
         Holding(c), Holding(d), KeyOf(c) = KeyOf(d)
  PROVE  c = d
BY DEF OneScope, IInv, IDOwnership, KeyOf, TupleOf

\* A step of c that leaves the table, the channels and the readers alone.
LEMMA OrphanFrame ==
  ASSUME NoOrphanInv, NEW c \in Calls,
         UNCHANGED <<cleared, pending, chan, rx>>,
         \A d \in Calls : d # c =>
           pc'[d] = pc[d] /\ sock'[d] = sock[d] /\ id'[d] = id[d] /\ attempt'[d] = attempt[d],
         pc'[c] \in {"write", "wait"} =>
           /\ pc[c] \in {"write", "wait"}
           /\ sock'[c] = sock[c] /\ id'[c] = id[c] /\ attempt'[c] = attempt[c]
  PROVE  NoOrphanInv'
<1> SUFFICES ASSUME NEW d \in Calls, pc'[d] \in {"write", "wait"}, ~cleared
             PROVE  \/ pending[<<sock'[d], id'[d]>>] = <<d, attempt'[d]>>
                    \/ chan[<<d, attempt'[d]>>] # None
                    \/ \E s \in Sockets : rx[s].pc = "send" /\ rx[s].ifl = <<d, attempt'[d]>>
  BY DEF NoOrphanInv, KeyOf, Current
<1>1. /\ pc[d] \in {"write", "wait"}
      /\ sock'[d] = sock[d] /\ id'[d] = id[d] /\ attempt'[d] = attempt[d]
  BY Zenon
<1> QED BY <1>1 DEF NoOrphanInv, KeyOf, Current

LEMMA OrphanCall ==
  ASSUME OneScope, IInv, NoOrphanInv, NEW c \in Calls,
         Send(c) \/ SendRefused(c) \/ SenderStep(c)
  PROVE  NoOrphanInv'
<1> USE DEF engineVars, allocVars, matchVars, callVars
<1> DEFINE Quiet ==
       /\ UNCHANGED <<cleared, pending, chan, rx>>
       /\ \A d \in Calls : d # c =>
            pc'[d] = pc[d] /\ sock'[d] = sock[d] /\ id'[d] = id[d] /\ attempt'[d] = attempt[d]
       /\ pc'[c] \in {"write", "wait"} =>
            /\ pc[c] \in {"write", "wait"}
            /\ sock'[c] = sock[c] /\ id'[c] = id[c] /\ attempt'[c] = attempt[c]
<1>q. Quiet => NoOrphanInv'
  BY OrphanFrame
<1>k. KeyOf(c) \in Keys /\ Current(c) \in Inflights
  BY DEF IInv, TypeOK, KeyOf, Keys, Current, Inflights
<1>1. CASE \/ Send(c) \/ SendRefused(c) \/ BeginAttempt(c)
           \/ Backoff(c) \/ TryNextSocket(c)
  <2>1. Quiet
    BY <1>1 DEF Send, BeginAttempt, SendRefused, Backoff, TryNextSocket, BeginScan, IInv, TypeOK
  <2> QED BY <2>1, <1>q
<1>2. CASE Allocate(c) \/ GiveUpAlloc(c) \/ BuildFails(c) \/ Write(c)
  <2>1. Quiet
    BY <1>2 DEF Allocate, GiveUpAlloc, BuildFails, Write, IInv, TypeOK
  <2> QED BY <2>1, <1>q
<1>3. CASE WriteFails(c) \/ WaitCtx(c) \/ WaitTimer(c)
  <2>1. Quiet
    BY <1>3 DEF WriteFails, WaitCtx, WaitTimer, Abandon, IInv, TypeOK
  <2> QED BY <2>1, <1>q
<1>4. CASE ReleaseReturn(c)
  <2>1. Quiet
    BY <1>4 DEF ReleaseReturn, IInv, TypeOK
  <2> QED BY <2>1, <1>q
<1>5. CASE ReleaseRetry(c)
  <2>1. Quiet
    BY <1>5 DEF ReleaseRetry, IInv, TypeOK
  <2> QED BY <2>1, <1>q
<1> HIDE DEF Quiet
<1>6. CASE Register(c)
  <2> SUFFICES ASSUME NEW d \in Calls, pc'[d] \in {"write", "wait"}, ~cleared
               PROVE  \/ pending'[<<sock[d], id[d]>>] = <<d, attempt[d]>>
                      \/ chan[<<d, attempt[d]>>] # None
                      \/ \E s \in Sockets : rx[s].pc = "send" /\ rx[s].ifl = <<d, attempt[d]>>
    BY <1>6 DEF Register, NoOrphanInv, KeyOf, Current
  <2>1. CASE d = c
    BY <2>1, <1>6, <1>k DEF Register, IInv, TypeOK, KeyOf, Current
  <2>2. CASE d # c
    <3>1. pc[d] \in {"write", "wait"}
      BY <2>2, <1>6 DEF Register, IInv, TypeOK
    <3>2. KeyOf(d) # KeyOf(c)
      BY <3>1, <2>2, <1>6, KeyExclusive DEF Register, Holding
    <3>3. pending'[KeyOf(d)] = pending[KeyOf(d)]
      BY <3>2, <1>6 DEF Register, IInv, TypeOK, KeyOf, Keys
    <3> QED BY <3>1, <3>3 DEF NoOrphanInv, KeyOf, Current
  <2> QED BY <2>1, <2>2
<1>7. CASE Cancel(c)
  <2> SUFFICES ASSUME NEW d \in Calls, pc'[d] \in {"write", "wait"}, ~cleared
               PROVE  \/ pending'[<<sock[d], id[d]>>] = <<d, attempt[d]>>
                      \/ chan[<<d, attempt[d]>>] # None
                      \/ \E s \in Sockets : rx[s].pc = "send" /\ rx[s].ifl = <<d, attempt[d]>>
    BY <1>7 DEF Cancel, NoOrphanInv, KeyOf, Current
  <2>1. d # c /\ pc[d] \in {"write", "wait"}
    BY <1>7 DEF Cancel, IInv, TypeOK
  <2>2. KeyOf(d) # KeyOf(c)
    BY <2>1, <1>7, KeyExclusive DEF Cancel, Holding
  <2>3. pending'[KeyOf(d)] = pending[KeyOf(d)]
    BY <2>2, <1>7 DEF Cancel, IInv, TypeOK, KeyOf, Keys
  <2> QED BY <2>1, <2>3 DEF NoOrphanInv, KeyOf, Current
<1>8. CASE WaitReply(c)
  <2> SUFFICES ASSUME NEW d \in Calls, pc'[d] \in {"write", "wait"}, ~cleared
               PROVE  \/ pending[<<sock[d], id[d]>>] = <<d, attempt[d]>>
                      \/ chan'[<<d, attempt[d]>>] # None
                      \/ \E s \in Sockets : rx[s].pc = "send" /\ rx[s].ifl = <<d, attempt[d]>>
    BY <1>8 DEF WaitReply, NoOrphanInv, KeyOf, Current
  <2>1. d # c /\ pc[d] \in {"write", "wait"}
    BY <1>8 DEF WaitReply, IInv, TypeOK
  <2>2. chan'[Current(d)] = chan[Current(d)]
    BY <2>1, <1>8 DEF WaitReply, IInv, TypeOK, Current, Inflights
  <2> QED BY <2>1, <2>2 DEF NoOrphanInv, KeyOf, Current
<1> QED BY <1>1, <1>2, <1>3, <1>4, <1>5, <1>6, <1>7, <1>8 DEF SenderStep

LEMMA OrphanReceiver ==
  ASSUME IInv, NoOrphanInv, NEW s \in Sockets, ReceiverStep(s)
  PROVE  NoOrphanInv'
<1> USE DEF engineVars, allocVars, matchVars, callVars
<1> SUFFICES ASSUME NEW d \in Calls, pc[d] \in {"write", "wait"}, ~cleared
             PROVE  \/ pending'[<<sock[d], id[d]>>] = <<d, attempt[d]>>
                    \/ chan'[<<d, attempt[d]>>] # None
                    \/ \E u \in Sockets : rx'[u].pc = "send" /\ rx'[u].ifl = <<d, attempt[d]>>
  <2>1. UNCHANGED <<cleared, callVars>>
    BY DEF ReceiverStep, DeliverStep, Lookup, Claim, ClaimLost, Reread,
       PushReply, DispatchOther, ReadFails
  <2> QED BY <2>1 DEF NoOrphanInv, KeyOf, Current
<1> DEFINE f == <<d, attempt[d]>>
           k == <<sock[d], id[d]>>
<1>o. \/ pending[k] = f
      \/ chan[f] # None
      \/ \E u \in Sockets : rx[u].pc = "send" /\ rx[u].ifl = f
  BY DEF NoOrphanInv, KeyOf, Current
<1>f. f \in Inflights /\ k \in Keys
  BY DEF IInv, TypeOK, Inflights, Keys
<1>1. CASE Lookup(s) \/ ClaimLost(s) \/ Reread(s) \/ DispatchOther(s) \/ ReadFails(s)
  <2>1. /\ pending' = pending /\ chan' = chan
        /\ rx[s].pc # "send" /\ \A u \in Sockets : u # s => rx'[u] = rx[u]
    BY <1>1 DEF Lookup, ClaimLost, Reread, DispatchOther, ReadFails, IInv, TypeOK
  <2> QED BY <2>1, <1>o
<1>2. CASE Claim(s)
  <2>1. /\ chan' = chan /\ rx[s].pc # "send"
        /\ \A u \in Sockets : u # s => rx'[u] = rx[u]
        /\ rx'[s].pc = "send" /\ rx'[s].ifl = rx[s].ifl
    BY <1>2 DEF Claim, IInv, TypeOK
  <2>2. CASE <<s, rx[s].id>> = k
    BY <2>1, <2>2, <1>o, <1>2 DEF Claim
  <2>3. CASE <<s, rx[s].id>> # k
    <3>1. pending'[k] = pending[k]
      BY <2>3, <1>f, <1>2 DEF Claim, IInv, TypeOK
    <3> QED BY <3>1, <2>1, <1>o
  <2> QED BY <2>2, <2>3
<1>3. CASE PushReply(s)
  <2>1. /\ pending' = pending /\ \A u \in Sockets : u # s => rx'[u] = rx[u]
        /\ rx[s].pc = "send" /\ rx[s].ifl \in Inflights
    BY <1>3 DEF PushReply, IInv, TypeOK
  <2>2. RequestAuth(rx[s].ifl, rx[s].id) # None
    <3>1. rx[s].id \in IDs /\ rx[s].ifl[1] \in Calls /\ rx[s].ifl[2] \in Attempts
      BY <2>1 DEF IInv, TypeOK, Inflights
    <3> QED BY <3>1, AuthType, NoneAssumption DEF RequestAuth
  <2>3. chan'[rx[s].ifl] # None
    BY <2>1, <2>2, <1>3 DEF PushReply, IInv, TypeOK, RxInv
  <2>4. rx[s].ifl # f => chan'[f] = chan[f]
    BY <2>1, <1>f, <1>3 DEF PushReply, IInv, TypeOK
  <2> QED BY <2>1, <2>3, <2>4, <1>o
<1> QED BY <1>1, <1>2, <1>3 DEF ReceiverStep, DeliverStep

LEMMA OrphanStep ==
  ASSUME OneScope
  PROVE  IInv /\ NoOrphanInv /\ [Next]_vars => NoOrphanInv'
<1> SUFFICES ASSUME IInv, NoOrphanInv, [Next]_vars PROVE NoOrphanInv'
  OBVIOUS
<1> USE DEF engineVars, allocVars, matchVars, callVars
<1>1. CASE UNCHANGED vars
  BY <1>1 DEF vars, NoOrphanInv, KeyOf, Current
<1>2. CASE Start
  <2>1. \A d \in Calls : pc[d] \in {"write", "wait"} => started
    BY DEF IInv, StartedInv
  <2> QED BY <1>2, <2>1 DEF Start, NoOrphanInv, KeyOf, Current
<1>3. CASE CancelCtx \/ WatcherStop \/ StopReceiver
  BY <1>3 DEF CancelCtx, WatcherStop, StopReceiver, NoOrphanInv, KeyOf, Current
<1>4. CASE CloseAll
  BY <1>4 DEF CloseAll, NoOrphanInv
<1> QED BY <1>1, <1>2, <1>3, <1>4, OrphanCall, OrphanReceiver DEF Next, EngineStep

\* When every request of a socket draws on one Identifier space, a waiting
\* Send is always reachable by its reply until the engine is stopped.
THEOREM NoOrphans ==
  ASSUME OneScope
  PROVE  Spec => []NoOrphanWaiter
<1>1. Init => NoOrphanInv
  BY DEF Init, NoOrphanInv
<1>2. IInv /\ NoOrphanInv /\ [Next]_vars => NoOrphanInv'
  BY OrphanStep
<1>3. NoOrphanInv => NoOrphanWaiter
  BY DEF NoOrphanInv, NoOrphanWaiter
<1> QED BY <1>1, <1>2, <1>3, Inductive, PTL DEF Spec

-----------------------------------------------------------------------------
(* Engine.Send implements SendContract.                                    *)

\* Initial states map to initial states.
LEMMA ContractInit == Init => Contract!Init
BY DEF Init, Contract!Init

\* Every step is a transmission, a return or invisible to the caller.
LEMMA ContractStep == IInv /\ [Next]_vars => [Contract!Next]_(Contract!cvars)
<1> SUFFICES ASSUME IInv, [Next]_vars PROVE [Contract!Next]_(Contract!cvars)
  OBVIOUS
<1> USE DEF engineVars, allocVars, matchVars, callVars
<1> DEFINE Ret == [c \in Calls |-> IF pc[c] = "done" THEN outcome[c] ELSE "none"]
<1>s. UNCHANGED <<tx, Ret>> => UNCHANGED Contract!cvars
  BY DEF Contract!cvars
<1>1. CASE UNCHANGED vars
  BY <1>1, <1>s DEF vars
<1>2. CASE EngineStep
  BY <1>2, <1>s, EngineFrame
<1>3. ASSUME NEW s \in Sockets, ReceiverStep(s)
      PROVE  UNCHANGED Contract!cvars
  <2>1. UNCHANGED callVars
    BY <1>3 DEF ReceiverStep, DeliverStep, Lookup, Claim, ClaimLost, Reread,
       PushReply, DispatchOther, ReadFails
  <2> QED BY <2>1, <1>s
<1>4. ASSUME NEW c \in Calls, Send(c) \/ SendRefused(c) \/ SenderStep(c)
      PROVE  [Contract!Next]_(Contract!cvars)
  <2>t. /\ pc \in [Calls -> Stages] /\ outcome \in [Calls -> Outcomes]
        /\ tx \in [Calls -> Nat] /\ attempt[c] \in 0 .. MaxAttempts - 1
    BY DEF IInv, TypeOK, Attempts
  <2>m. MaxAttempts \in Nat \ {0}
    BY Sizes
  <2>1. ASSUME UNCHANGED tx, pc[c] # "done", pc'[c] # "done",
               \A d \in Calls : d # c => pc'[d] = pc[d] /\ outcome'[d] = outcome[d]
        PROVE  UNCHANGED Contract!cvars
    <3>1. Ret' = Ret
      BY <2>1, <2>t
    <3> QED BY <3>1, <2>1, <1>s
  <2>2. ASSUME NEW r \in {"ctx", "write_error", "build_error", "exhausted",
                          "reply", "final_timeout", "not_started", "no_address"},
               pc[c] # "done", pc' = [pc EXCEPT ![c] = "done"],
               outcome' = [outcome EXCEPT ![c] = r], UNCHANGED tx,
               r = "reply" => tx[c] > 0,
               r = "final_timeout" => tx[c] = MaxAttempts,
               r \in {"not_started", "no_address"} => tx[c] = 0
        PROVE  Contract!Next
    <3>1. Ret' = [Ret EXCEPT ![c] = r] /\ Ret[c] = "none"
      BY <2>2, <2>t
    <3> QED BY <3>1, <2>2 DEF Contract!Next, Contract!Return, Contract!Errors,
                             Contract!Refusals
  <2>3. CASE \/ Send(c) \/ BeginAttempt(c)
             \/ TryNextSocket(c) \/ Backoff(c) \/ Allocate(c)
    BY <2>1, <2>3, <2>t DEF Send, BeginAttempt, TryNextSocket, Backoff, Allocate
  <2>4. CASE BuildFails(c) \/ Register(c) \/ WaitReply(c) \/ Cancel(c)
    BY <2>1, <2>4, <2>t DEF BuildFails, Register, WaitReply, Cancel
  <2>5. CASE WriteFails(c) \/ WaitCtx(c) \/ WaitTimer(c)
    BY <2>1, <2>5, <2>t DEF WriteFails, WaitCtx, WaitTimer, Abandon
  <2>6. CASE ReleaseRetry(c)
    BY <2>1, <2>6, <2>t DEF ReleaseRetry
  <2>7. CASE Write(c)
    <3>1. tx[c] = attempt[c] /\ tx' = [tx EXCEPT ![c] = @ + 1]
      BY <2>7 DEF Write, IInv, TxInv
    <3>2. tx[c] < MaxAttempts
      BY <3>1, <2>t, <2>m
    <3>3. Ret' = Ret /\ Ret[c] = "none"
      BY <2>7, <2>t DEF Write
    <3> QED BY <3>1, <3>2, <3>3 DEF Contract!Next, Contract!Transmit
  <2>8. CASE SendRefused(c)
    <3>1. tx[c] = 0
      BY <2>8 DEF SendRefused, IInv, TxInv
    <3> QED BY <2>2, <2>8, <3>1 DEF SendRefused
  <2>9. CASE GiveUpAlloc(c)
    BY <2>2, <2>9 DEF GiveUpAlloc
  <2>10. CASE ReleaseReturn(c)
    <3> DEFINE r == IF outcome[c] = "timeout" THEN "final_timeout" ELSE outcome[c]
    <3>1. /\ outcome[c] \in {"timeout", "ctx", "reply", "write_error", "build_error"}
          /\ outcome[c] \in {"timeout", "reply"} => tx[c] = attempt[c] + 1
          /\ outcome[c] = "timeout" => attempt[c] + 1 >= MaxAttempts
      BY <2>10 DEF ReleaseReturn, IInv, TxInv
    <3>2. /\ r \in {"ctx", "write_error", "build_error", "reply", "final_timeout"}
          /\ r = "reply" => tx[c] > 0
          /\ r = "final_timeout" => tx[c] = MaxAttempts
      BY <3>1, <2>t, <2>m
    <3>3. /\ pc[c] # "done" /\ pc' = [pc EXCEPT ![c] = "done"] /\ UNCHANGED tx
          /\ outcome' = [outcome EXCEPT ![c] = r]
      BY <2>10 DEF ReleaseReturn
    <3> HIDE DEF r
    <3> QED BY <2>2, <3>2, <3>3
  <2> QED BY <1>4, <2>3, <2>4, <2>5, <2>6, <2>7, <2>8, <2>9, <2>10 DEF SenderStep
<1> QED BY <1>1, <1>2, <1>3, <1>4 DEF Next

\* Every behaviour of the engine is one the contract of Send allows.
THEOREM SendImplementsContract == Spec => ImplementsContract
<1>1. Init => Contract!Init
  BY ContractInit
<1>2. IInv /\ [Next]_vars => [Contract!Next]_(Contract!cvars)
  BY ContractStep
<1> QED BY <1>1, <1>2, Inductive, PTL DEF Spec, Contract!Spec, ImplementsContract
=============================================================================
