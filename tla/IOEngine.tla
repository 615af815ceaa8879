------------------------------ MODULE IOEngine ------------------------------
(***************************************************************************)
(* pkg/io: the RADIUS client engine.  Every Engine.Send call is a          *)
(* goroutine running runSend (allocate an Identifier, register with the    *)
(* reply matcher, write, wait for reply / timer / ctx, clean up, retry);   *)
(* every socket has one readLoop goroutine running dispatch and            *)
(* ReplyMatcher.Deliver.  A step is one critical section or one select:    *)
(* the goroutines interleave between them.                                 *)
(*                                                                         *)
(* The network is not a variable: a socket may read, at any time and any   *)
(* number of times, a reply to any request already written from it, so     *)
(* loss, delay, duplication and reordering are all present.                *)
(***************************************************************************)
EXTENDS Integers, FiniteSets

CONSTANTS
  Calls,        \* the Engine.Send invocations
  NumSockets,   \* SocketPool.Len()
  Dests,        \* server addresses (the auth and the accounting port)
  DestOf,       \* [Calls -> Dests]
  RandomAuth,   \* calls whose packets carry a random authenticator
                \* (Access-Request); the others carry a digest
  NumIDs,       \* size of the Identifier space, 256 in the code
  MaxRetries,   \* RetransmitPolicy.MaxRetries
  MaxBackoffs,  \* AllocMaxWait / AllocBackoffStep
  GCThreshold,  \* ReplyMatcher.gcThreshold, 1024 in the code
  None          \* no inflight, no authenticator

Sockets     == 0 .. NumSockets - 1
IDs         == 0 .. NumIDs - 1
MaxAttempts == IF MaxRetries + 1 < 1 THEN 1 ELSE MaxRetries + 1
Attempts    == 0 .. MaxAttempts - 1
Tuples      == Sockets \X Dests     \* Tuple: scope of an Identifier
Keys        == Sockets \X IDs       \* matchKey: what a reply is looked up by
Inflights   == Calls \X Attempts    \* one *inflight per Register

\* The RequestAuthenticator of a request: random for an Access-Request, a
\* digest of the attributes and the Identifier for an Accounting-Request.
Authenticator(c, n, i) ==
  IF c \in RandomAuth THEN <<c, "random", n>> ELSE <<c, "digest", i>>

Auths == {Authenticator(c, n, i) : c \in Calls, n \in Attempts, i \in IDs}

ASSUME SizeAssumption ==
  /\ NumSockets \in Nat \ {0}
  /\ NumIDs \in Nat \ {0}
  /\ MaxRetries \in Int
  /\ MaxBackoffs \in Nat
  /\ GCThreshold \in Nat
ASSUME CallAssumption ==
  /\ DestOf \in [Calls -> Dests]
  /\ RandomAuth \subseteq Calls
ASSUME NoneAssumption ==
  /\ None \notin Inflights
  /\ None \notin Auths

VARIABLES
  started, stopped, \* Engine.startedAtRaw # 0, Engine.stopped
  ctxDone,          \* the run's context has been cancelled
  closed,           \* SocketPool.closed
  cleared,          \* ReplyMatcher.CloseAll has run
  bits, count, next,\* idBitmap of every tuple
  rrIdx,            \* SocketPool.rrIdx, modulo NumSockets
  pending,          \* ReplyMatcher.pending
  recentDone,       \* ReplyMatcher.recentDone (the authenticators)
  pc, attempt, sock, id, \* locals of each runSend
  left, backoffs,   \* sockets left in this scan, scans begun
  outcome,          \* how the attempt, then the call, ended
  tx,               \* datagrams this call has written
  got,              \* authenticator the delivered reply answers
  chan,             \* inflight.Reply, capacity 1
  sent,             \* requests that reached the wire
  claimed,          \* inflights some Deliver has claimed (history)
  rx                \* each socket's readLoop

engineVars == <<started, stopped, ctxDone, closed, cleared>>
allocVars  == <<bits, count, next, rrIdx>>
matchVars  == <<pending, recentDone, claimed>>
callVars   == <<pc, attempt, sock, id, left, backoffs, outcome, tx, got>>
vars == <<engineVars, allocVars, matchVars, callVars, chan, sent, rx>>

Outcomes == {"none", "timeout", "reply", "ctx", "write_error", "build_error",
             "exhausted", "final_timeout", "not_started", "no_address"}
Stages   == {"idle", "alloc", "build", "write", "wait", "cancel", "release",
             "retry", "done"}
\* The event a dispatch ended with: duplicate_reply, or one of the others
\* (validation_failed, unmatched_response, ...), which nothing tells apart.
Verdicts == {"duplicate", "other"}

TupleOf(c) == <<sock[c], DestOf[c]>>
Current(c) == <<c, attempt[c]>>

KeyOf(c) == <<sock[c], id[c]>>

NewRx(stage) == [pc |-> stage, id |-> 0, auth |-> None, ifl |-> None,
                 verdict |-> "other"]

Init ==
  /\ started = FALSE /\ stopped = FALSE /\ ctxDone = FALSE
  /\ closed = FALSE /\ cleared = FALSE
  /\ bits  = [t \in Tuples |-> {}]
  /\ count = [t \in Tuples |-> 0]
  /\ next  = [t \in Tuples |-> 0]
  /\ rrIdx = 0
  /\ pending    = [k \in Keys |-> None]
  /\ recentDone = [k \in Keys |-> None]
  /\ pc       = [c \in Calls |-> "idle"]
  /\ attempt  = [c \in Calls |-> 0]
  /\ sock     = [c \in Calls |-> 0]
  /\ id       = [c \in Calls |-> 0]
  /\ left     = [c \in Calls |-> 0]
  /\ backoffs = [c \in Calls |-> 0]
  /\ outcome  = [c \in Calls |-> "none"]
  /\ tx       = [c \in Calls |-> 0]
  /\ got      = [c \in Calls |-> None]
  /\ chan     = [f \in Inflights |-> None]
  /\ sent     = {}
  /\ claimed  = {}
  /\ rx       = [s \in Sockets |-> NewRx("off")]

-----------------------------------------------------------------------------
(* Engine lifecycle.                                                       *)

\* Engine.Start launches one readLoop per socket and the ctx watcher.
Start ==
  /\ ~started /\ ~stopped
  /\ started' = TRUE
  /\ rx' = [s \in Sockets |-> NewRx("idle")]
  /\ UNCHANGED <<stopped, ctxDone, closed, cleared>>
  /\ UNCHANGED <<allocVars, matchVars, callVars, chan, sent>>

\* The caller cancels the context shared by the engine and every Send.
CancelCtx ==
  /\ ~ctxDone
  /\ ctxDone' = TRUE
  /\ UNCHANGED <<started, stopped, closed, cleared>>
  /\ UNCHANGED <<allocVars, matchVars, callVars, chan, sent, rx>>

\* The receiver's watcher goroutine: closes the sockets once ctx is done.
WatcherStop ==
  /\ started /\ ctxDone /\ ~closed
  /\ closed' = TRUE
  /\ UNCHANGED <<started, stopped, ctxDone, cleared>>
  /\ UNCHANGED <<allocVars, matchVars, callVars, chan, sent, rx>>

\* Engine.Stop: close the sockets ...
StopReceiver ==
  /\ ~stopped
  /\ stopped' = TRUE
  /\ closed' = TRUE
  /\ UNCHANGED <<started, ctxDone, cleared>>
  /\ UNCHANGED <<allocVars, matchVars, callVars, chan, sent, rx>>

\* ... then empty the matcher.  Nothing is written to the waiters' channels.
CloseAll ==
  /\ stopped /\ ~cleared
  /\ cleared' = TRUE
  /\ pending' = [k \in Keys |-> None]
  /\ recentDone' = [k \in Keys |-> None]
  /\ UNCHANGED <<started, stopped, ctxDone, closed, claimed>>
  /\ UNCHANGED <<allocVars, callVars, chan, sent, rx>>

-----------------------------------------------------------------------------
(* runSend and allocateOnAnyTuple, one goroutine per call.                 *)

\* Entry of allocateOnAnyTuple, and every new scan: take a round-robin start.
BeginScan(c) ==
  /\ sock' = [sock EXCEPT ![c] = rrIdx]
  /\ rrIdx' = (rrIdx + 1) % NumSockets
  /\ left' = [left EXCEPT ![c] = NumSockets]

\* Engine.Send on a started engine, to an address that resolves.
Send(c) ==
  /\ pc[c] = "idle" /\ started
  /\ pc' = [pc EXCEPT ![c] = "alloc"]
  /\ BeginScan(c)
  /\ UNCHANGED <<bits, count, next, attempt, id, backoffs, outcome, tx, got>>
  /\ UNCHANGED <<engineVars, matchVars, chan, sent, rx>>

\* Engine.Send before Start, or to an address resolveDst cannot turn into a
\* UDP address: an error before anything is touched.
SendRefused(c) ==
  /\ pc[c] = "idle"
  /\ \/ ~started /\ outcome' = [outcome EXCEPT ![c] = "not_started"]
     \/ started  /\ outcome' = [outcome EXCEPT ![c] = "no_address"]
  /\ pc' = [pc EXCEPT ![c] = "done"]
  /\ UNCHANGED <<attempt, sock, id, left, backoffs, tx, got>>
  /\ UNCHANGED <<engineVars, allocVars, matchVars, chan, sent, rx>>

\* The first clear bit at or after next, wrapping around.
IsFirstFree(i, t) ==
  /\ i \in IDs \ bits[t]
  /\ \A j \in IDs \ bits[t] :
       (i - next[t] + NumIDs) % NumIDs <= (j - next[t] + NumIDs) % NumIDs

\* IDAllocator.Allocate finds a free Identifier on the socket under trial.
Allocate(c) ==
  LET t == TupleOf(c) IN
  /\ pc[c] = "alloc" /\ left[c] > 0
  /\ count[t] # NumIDs
  /\ \E i \in IDs :
       /\ IsFirstFree(i, t)
       /\ bits' = [bits EXCEPT ![t] = @ \cup {i}]
       /\ count' = [count EXCEPT ![t] = @ + 1]
       /\ next' = [next EXCEPT ![t] = (i + 1) % NumIDs]
       /\ id' = [id EXCEPT ![c] = i]
  /\ pc' = [pc EXCEPT ![c] = "build"]
  /\ UNCHANGED <<rrIdx, attempt, sock, left, backoffs, outcome, tx, got>>
  /\ UNCHANGED <<engineVars, matchVars, chan, sent, rx>>

\* The tuple is full: try the next socket.
TryNextSocket(c) ==
  /\ pc[c] = "alloc" /\ left[c] > 0
  /\ count[TupleOf(c)] = NumIDs
  /\ sock' = [sock EXCEPT ![c] = (@ + 1) % NumSockets]
  /\ left' = [left EXCEPT ![c] = @ - 1]
  /\ UNCHANGED <<pc, attempt, id, backoffs, outcome, tx, got>>
  /\ UNCHANGED <<engineVars, allocVars, matchVars, chan, sent, rx>>

\* Every tuple was full: sleep one step and scan again before the deadline.
Backoff(c) ==
  /\ pc[c] = "alloc" /\ left[c] = 0
  /\ backoffs[c] < MaxBackoffs
  /\ backoffs' = [backoffs EXCEPT ![c] = @ + 1]
  /\ BeginScan(c)
  /\ UNCHANGED <<bits, count, next, pc, attempt, id, outcome, tx, got>>
  /\ UNCHANGED <<engineVars, matchVars, chan, sent, rx>>

\* Fault: the deadline check is missing, only ctx ends the wait.
GiveUpAllocNoDeadline(c) ==
  /\ pc[c] = "alloc" /\ left[c] = 0
  /\ ctxDone /\ outcome' = [outcome EXCEPT ![c] = "ctx"]
  /\ pc' = [pc EXCEPT ![c] = "done"]
  /\ UNCHANGED <<attempt, sock, id, left, backoffs, tx, got>>
  /\ UNCHANGED <<engineVars, allocVars, matchVars, chan, sent, rx>>

\* Every tuple was full: ErrIdentifierExhausted at the deadline, or ctx.Err().
GiveUpAlloc(c) ==
  /\ pc[c] = "alloc" /\ left[c] = 0
  /\ \/ outcome' = [outcome EXCEPT ![c] = "exhausted"]
     \/ ctxDone /\ outcome' = [outcome EXCEPT ![c] = "ctx"]
  /\ pc' = [pc EXCEPT ![c] = "done"]
  /\ UNCHANGED <<attempt, sock, id, left, backoffs, tx, got>>
  /\ UNCHANGED <<engineVars, allocVars, matchVars, chan, sent, rx>>

\* Fault: the build error path returns without Release.
BuildFailsNoRelease(c) ==
  /\ pc[c] = "build"
  /\ pc' = [pc EXCEPT ![c] = "done"]
  /\ outcome' = [outcome EXCEPT ![c] = "build_error"]
  /\ UNCHANGED <<attempt, sock, id, left, backoffs, tx, got>>
  /\ UNCHANGED <<engineVars, allocVars, matchVars, chan, sent, rx>>

\* build returned an error or nil, or Encode failed.
BuildFails(c) ==
  /\ pc[c] = "build"
  /\ pc' = [pc EXCEPT ![c] = "release"]
  /\ outcome' = [outcome EXCEPT ![c] = "build_error"]
  /\ UNCHANGED <<attempt, sock, id, left, backoffs, tx, got>>
  /\ UNCHANGED <<engineVars, allocVars, matchVars, chan, sent, rx>>

\* ReplyMatcher.Register: replaces whatever the key held and forgets its
\* completed entry.
Register(c) ==
  /\ pc[c] = "build"
  /\ pending' = [pending EXCEPT ![KeyOf(c)] = Current(c)]
  /\ recentDone' = [recentDone EXCEPT ![KeyOf(c)] = None]
  /\ pc' = [pc EXCEPT ![c] = "write"]
  /\ UNCHANGED <<attempt, sock, id, left, backoffs, outcome, tx, got, claimed>>
  /\ UNCHANGED <<engineVars, allocVars, chan, sent, rx>>

\* WriteToUDP succeeds and the timer is armed.
Write(c) ==
  /\ pc[c] = "write" /\ ~closed
  /\ sent' = sent \cup {[sock |-> sock[c], id |-> id[c],
               auth |-> Authenticator(c, attempt[c], id[c])]}
  /\ tx' = [tx EXCEPT ![c] = @ + 1]
  /\ pc' = [pc EXCEPT ![c] = "wait"]
  /\ UNCHANGED <<attempt, sock, id, left, backoffs, outcome, got>>
  /\ UNCHANGED <<engineVars, allocVars, matchVars, chan, rx>>

\* Leave the write or the select with a result that needs Cancel + Release.
Abandon(c, why) ==
  /\ outcome' = [outcome EXCEPT ![c] = why]
  /\ pc' = [pc EXCEPT ![c] = "cancel"]
  /\ UNCHANGED <<attempt, sock, id, left, backoffs, tx, got>>
  /\ UNCHANGED <<engineVars, allocVars, matchVars, chan, sent, rx>>

\* WriteToUDP fails (always once the sockets are closed).
WriteFails(c) == pc[c] = "write" /\ Abandon(c, "write_error")

\* select: ctx.Done.
WaitCtx(c) == pc[c] = "wait" /\ ctxDone /\ Abandon(c, "ctx")

\* select: the attempt's timer, which may fire while a reply is on its way.
WaitTimer(c) == pc[c] = "wait" /\ Abandon(c, "timeout")

\* select: a reply is in the channel.  The matcher already dropped the entry.
WaitReply(c) ==
  /\ pc[c] = "wait" /\ chan[Current(c)] # None
  /\ got' = [got EXCEPT ![c] = chan[Current(c)]]
  /\ chan' = [chan EXCEPT ![Current(c)] = None]
  /\ outcome' = [outcome EXCEPT ![c] = "reply"]
  /\ pc' = [pc EXCEPT ![c] = "release"]
  /\ UNCHANGED <<attempt, sock, id, left, backoffs, tx>>
  /\ UNCHANGED <<engineVars, allocVars, matchVars, sent, rx>>

\* ReplyMatcher.Cancel: deletes the key's entry, whoever registered it.
Cancel(c) ==
  /\ pc[c] = "cancel"
  /\ pending' = [pending EXCEPT ![KeyOf(c)] = None]
  /\ pc' = [pc EXCEPT ![c] = "release"]
  /\ UNCHANGED <<recentDone, claimed, attempt, sock, id, left, backoffs,
                 outcome, tx, got>>
  /\ UNCHANGED <<engineVars, allocVars, chan, sent, rx>>

\* IDAllocator.Release: no-op on a bit that is already clear.
ReleaseID(t, i) ==
  /\ bits' = [bits EXCEPT ![t] = @ \ {i}]
  /\ count' = [count EXCEPT ![t] = IF i \in bits[t] THEN @ - 1 ELSE @]

\* Release after a timeout with attempts left: loop.
ReleaseRetry(c) ==
  /\ pc[c] = "release" /\ outcome[c] = "timeout"
  /\ attempt[c] + 1 < MaxAttempts
  /\ ReleaseID(TupleOf(c), id[c])
  /\ attempt' = [attempt EXCEPT ![c] = @ + 1]
  /\ outcome' = [outcome EXCEPT ![c] = "none"]
  /\ backoffs' = [backoffs EXCEPT ![c] = 0]
  /\ pc' = [pc EXCEPT ![c] = "retry"]
  /\ UNCHANGED <<next, rrIdx, sock, left, id, tx, got>>
  /\ UNCHANGED <<engineVars, matchVars, chan, sent, rx>>

\* The next attempt enters allocateOnAnyTuple.
BeginAttempt(c) ==
  /\ pc[c] = "retry"
  /\ pc' = [pc EXCEPT ![c] = "alloc"]
  /\ BeginScan(c)
  /\ UNCHANGED <<bits, count, next, attempt, id, backoffs, outcome, tx, got>>
  /\ UNCHANGED <<engineVars, matchVars, chan, sent, rx>>

\* Fault: the retry budget is counted one short.
ReleaseReturnEarly(c) ==
  /\ pc[c] = "release"
  /\ outcome[c] = "timeout" => attempt[c] + 2 >= MaxAttempts
  /\ ReleaseID(TupleOf(c), id[c])
  /\ outcome' = [outcome EXCEPT
                   ![c] = IF @ = "timeout" THEN "final_timeout" ELSE @]
  /\ pc' = [pc EXCEPT ![c] = "done"]
  /\ UNCHANGED <<next, rrIdx, attempt, sock, id, left, backoffs, tx, got>>
  /\ UNCHANGED <<engineVars, matchVars, chan, sent, rx>>

\* Release on every path that returns; retries exhausted is ErrFinalTimeout.
ReleaseReturn(c) ==
  /\ pc[c] = "release"
  /\ outcome[c] = "timeout" => attempt[c] + 1 >= MaxAttempts
  /\ ReleaseID(TupleOf(c), id[c])
  /\ outcome' = [outcome EXCEPT
                   ![c] = IF @ = "timeout" THEN "final_timeout" ELSE @]
  /\ pc' = [pc EXCEPT ![c] = "done"]
  /\ UNCHANGED <<next, rrIdx, attempt, sock, id, left, backoffs, tx, got>>
  /\ UNCHANGED <<engineVars, matchVars, chan, sent, rx>>

SenderStep(c) ==
  \/ Allocate(c) \/ TryNextSocket(c) \/ Backoff(c) \/ GiveUpAlloc(c)
  \/ BuildFails(c) \/ Register(c) \/ Write(c) \/ WriteFails(c)
  \/ WaitCtx(c) \/ WaitTimer(c) \/ WaitReply(c)
  \/ Cancel(c) \/ ReleaseRetry(c) \/ ReleaseReturn(c) \/ BeginAttempt(c)

-----------------------------------------------------------------------------
(* readLoop, dispatch and ReplyMatcher.Deliver, one goroutine per socket.  *)

\* What can be read from socket s: an answer to a request written from it,
\* or a response packet that authenticates against nothing.
Arrivals(s) ==
  {[id |-> m.id, auth |-> m.auth] : m \in {r \in sent : r.sock = s}}
    \cup {[id |-> i, auth |-> None] : i \in IDs}

\* The end of one dispatch: its event is out; readLoop returns if ctx is done
\* or the next read fails because the socket is closed, and else reads on.
Finish(verdict) ==
  [NewRx(IF ctxDone \/ closed THEN "exited" ELSE "idle")
     EXCEPT !.verdict = verdict]

\* Fault: a completed entry is taken as proof without the authenticator.
LateUnchecked(i, a, dup) ==
  IF dup # None THEN [Finish("duplicate") EXCEPT !.id = i, !.auth = a]
  ELSE Finish("other")

\* The duplicate / unmatched tail of Deliver for a reply with Identifier i
\* and authenticator a, given the completed entry it read.
Late(i, a, dup) ==
  IF dup # None /\ dup = a THEN [Finish("duplicate") EXCEPT !.id = i, !.auth = a]
  ELSE Finish("other")

\* Request.Authenticator of a registered inflight.
RequestAuth(f, i) == Authenticator(f[1], f[2], i)

\* Fault: any answer to a request that used the Identifier is good enough.
LookupAnyRequest(s) ==
  /\ rx[s].pc = "idle"
  /\ \E m \in Arrivals(s) :
       LET k == <<s, m.id>>
           f == pending[k]
       IN rx' = [rx EXCEPT ![s] =
            IF f = None THEN Late(m.id, m.auth, recentDone[k])
            ELSE IF m.auth = None THEN Finish("other")
            ELSE [NewRx("claim") EXCEPT !.id = m.id, !.auth = m.auth, !.ifl = f]]
  /\ UNCHANGED <<engineVars, allocVars, matchVars, callVars, chan, sent>>

\* Deliver, first critical section: look the key up; validate the response
\* authenticator against the pending request, or classify a late reply.  The
\* datagram was read earlier, perhaps just before the socket was closed.
Lookup(s) ==
  /\ rx[s].pc = "idle"
  /\ \E m \in Arrivals(s) :
       LET k == <<s, m.id>>
           f == pending[k]
       IN rx' = [rx EXCEPT ![s] =
            IF f = None THEN Late(m.id, m.auth, recentDone[k])
            ELSE IF RequestAuth(f, m.id) # m.auth THEN Finish("other")
            ELSE [NewRx("claim") EXCEPT !.id = m.id, !.auth = m.auth, !.ifl = f]]
  /\ UNCHANGED <<engineVars, allocVars, matchVars, callVars, chan, sent>>

\* gcLocked: below the threshold nothing goes; above it, the stale entries.
Swept(done, k) ==
  LET used == {j \in Keys : done[j] # None} IN
  IF Cardinality(used) < GCThreshold THEN {done}
  ELSE {[j \in Keys |-> IF j \in stale THEN None ELSE done[j]] :
          stale \in SUBSET (used \ {k})}

\* Fault: whatever the key holds now is claimed, not the inflight looked up.
ClaimAnyOwner(s) ==
  LET k == <<s, rx[s].id>> IN
  /\ rx[s].pc = "claim" /\ pending[k] # None
  /\ pending' = [pending EXCEPT ![k] = None]
  /\ recentDone' \in Swept([recentDone EXCEPT ![k] = RequestAuth(rx[s].ifl, rx[s].id)], k)
  /\ claimed' = claimed \cup {rx[s].ifl}
  /\ rx' = [rx EXCEPT ![s].pc = "send"]
  /\ UNCHANGED <<engineVars, allocVars, callVars, chan, sent>>

\* Fault: a claimed inflight stays in the table.
ClaimWithoutDelete(s) ==
  LET k == <<s, rx[s].id>> IN
  /\ rx[s].pc = "claim" /\ pending[k] = rx[s].ifl
  /\ recentDone' \in Swept([recentDone EXCEPT ![k] = RequestAuth(rx[s].ifl, rx[s].id)], k)
  /\ claimed' = claimed \cup {rx[s].ifl}
  /\ rx' = [rx EXCEPT ![s].pc = "send"]
  /\ UNCHANGED <<pending, engineVars, allocVars, callVars, chan, sent>>

\* Deliver, second critical section: claim the inflight if it is still the
\* one looked up.
Claim(s) ==
  LET k == <<s, rx[s].id>> IN
  /\ rx[s].pc = "claim" /\ pending[k] = rx[s].ifl
  /\ pending' = [pending EXCEPT ![k] = None]
  /\ recentDone' \in Swept([recentDone EXCEPT ![k] = RequestAuth(rx[s].ifl, rx[s].id)], k)
  /\ claimed' = claimed \cup {rx[s].ifl}
  /\ rx' = [rx EXCEPT ![s].pc = "send"]
  /\ UNCHANGED <<engineVars, allocVars, callVars, chan, sent>>

\* Deliver lost the race with a Cancel (and perhaps a new Register).
ClaimLost(s) ==
  /\ rx[s].pc = "claim" /\ pending[<<s, rx[s].id>>] # rx[s].ifl
  /\ rx' = [rx EXCEPT ![s].pc = "reread"]
  /\ UNCHANGED <<engineVars, allocVars, matchVars, callVars, chan, sent>>

\* Deliver, third critical section: recentDone is read again.
Reread(s) ==
  /\ rx[s].pc = "reread"
  /\ rx' = [rx EXCEPT ![s] = Late(@.id, @.auth, recentDone[<<s, @.id>>])]
  /\ UNCHANGED <<engineVars, allocVars, matchVars, callVars, chan, sent>>

\* The non-blocking channel send, made after the lock was released.
PushReply(s) ==
  LET f == rx[s].ifl IN
  /\ rx[s].pc = "send"
  /\ chan' = [chan EXCEPT ![f] = IF @ = None THEN rx[s].auth ELSE @]
  /\ rx' = [rx EXCEPT ![s] = Finish("other")]
  /\ UNCHANGED <<engineVars, allocVars, matchVars, callVars, sent>>

\* dispatch of anything that is not a response: an undecodable datagram, a
\* CoA / Disconnect request, another request code.  The matcher is untouched.
DispatchOther(s) ==
  /\ rx[s].pc = "idle"
  /\ rx' = [rx EXCEPT ![s] = Finish("other")]
  /\ UNCHANGED <<engineVars, allocVars, matchVars, callVars, chan, sent>>

\* ReadFromUDP fails: the socket was closed, or a read error ends the loop.
ReadFails(s) ==
  /\ rx[s].pc = "idle"
  /\ rx' = [rx EXCEPT ![s].pc = "exited"]
  /\ UNCHANGED <<engineVars, allocVars, matchVars, callVars, chan, sent>>

DeliverStep(s) ==
  Claim(s) \/ ClaimLost(s) \/ Reread(s) \/ PushReply(s)

ReceiverStep(s) ==
  Lookup(s) \/ DeliverStep(s) \/ DispatchOther(s) \/ ReadFails(s)

-----------------------------------------------------------------------------

EngineStep == Start \/ CancelCtx \/ WatcherStop \/ StopReceiver \/ CloseAll

Next ==
  \/ EngineStep
  \/ \E c \in Calls : Send(c) \/ SendRefused(c) \/ SenderStep(c)
  \/ \E s \in Sockets : ReceiverStep(s)

Spec == Init /\ [][Next]_vars

\* Go runs every runnable goroutine and every armed timer fires; a Deliver
\* that has begun runs on.  Nothing is assumed of the network or the caller.
Fairness ==
  /\ \A c \in Calls : WF_vars(SenderStep(c))
  /\ \A s \in Sockets : WF_vars(DeliverStep(s))

FairSpec == Spec /\ Fairness

-----------------------------------------------------------------------------
(* Properties.                                                             *)

Holding(c) == pc[c] \in {"build", "write", "wait", "cancel", "release"}

\* Types of every variable.
TypeOK ==
  /\ started \in BOOLEAN /\ stopped \in BOOLEAN /\ ctxDone \in BOOLEAN
  /\ closed \in BOOLEAN /\ cleared \in BOOLEAN
  /\ bits \in [Tuples -> SUBSET IDs]
  /\ count \in [Tuples -> Int]
  /\ next \in [Tuples -> IDs]
  /\ rrIdx \in Sockets
  /\ pending \in [Keys -> Inflights \cup {None}]
  /\ recentDone \in [Keys -> Auths \cup {None}]
  /\ pc \in [Calls -> Stages]
  /\ attempt \in [Calls -> Attempts]
  /\ sock \in [Calls -> Sockets]
  /\ id \in [Calls -> IDs]
  /\ left \in [Calls -> 0 .. NumSockets]
  /\ backoffs \in [Calls -> 0 .. MaxBackoffs]
  /\ outcome \in [Calls -> Outcomes]
  /\ tx \in [Calls -> Nat]
  /\ got \in [Calls -> Auths \cup {None}]
  /\ chan \in [Inflights -> Auths \cup {None}]
  /\ sent \subseteq [sock : Sockets, id : IDs, auth : Auths]
  /\ claimed \subseteq Inflights
  /\ rx \in [Sockets -> [pc : {"off", "idle", "claim", "reread", "send", "exited"},
                         id : IDs, auth : Auths \cup {None},
                         ifl : Inflights \cup {None}, verdict : Verdicts]]
  /\ \A s \in Sockets :
       rx[s].pc \in {"claim", "reread", "send"} => rx[s].ifl \in Inflights

\* No two live requests of a tuple share an Identifier, every allocated bit
\* belongs to a call that will release it, and the count that gates
\* exhaustion is exact: no early return leaks an Identifier.
IDOwnership ==
  /\ \A c, d \in Calls :
       Holding(c) /\ Holding(d) /\ TupleOf(c) = TupleOf(d) /\ id[c] = id[d]
         => c = d
  /\ \A c \in Calls : Holding(c) => id[c] \in bits[TupleOf(c)]
  /\ \A t \in Tuples : \A i \in bits[t] :
       \E c \in Calls : Holding(c) /\ TupleOf(c) = t /\ id[c] = i
  /\ \A t \in Tuples : count[t] = Cardinality(bits[t])

\* A Send that succeeds returns the answer to its own current transmission,
\* whatever stale, duplicated or forged replies reached the socket and
\* however Identifiers were recycled meanwhile.
ReplyIntegrity ==
  \A c \in Calls :
    pc[c] \in {"release", "done"} /\ outcome[c] = "reply"
      => got[c] = Authenticator(c, attempt[c], id[c])

\* The default arm of Deliver's channel send is dead: an inflight is claimed
\* once, so its capacity-1 channel is empty when the reply is pushed.
PushNeverDropped ==
  \A s \in Sockets : rx[s].pc = "send" => chan[rx[s].ifl] = None

\* duplicate_reply is only reported for a request whose first reply was
\* claimed, not for a stale reply that merely shares the Identifier.
DuplicateIsSecond ==
  \A s \in Sockets : rx[s].verdict = "duplicate"
    => \E f \in claimed : rx[s].auth = RequestAuth(f, rx[s].id)

\* Until the engine is stopped, a call that waits is either registered under
\* its key or has a reply in its channel or about to be pushed to it.
NoOrphanWaiter ==
  \A c \in Calls : pc[c] = "wait" /\ ~cleared
    => \/ pending[KeyOf(c)] = Current(c)
       \/ chan[Current(c)] # None
       \/ \E s \in Sockets : rx[s].pc = "send" /\ rx[s].ifl = Current(c)

\* Every Send returns, even when Engine.Stop emptied the matcher under it or
\* every Identifier is taken.
EverySendReturns ==
  \A c \in Calls : (pc[c] # "idle") ~> (pc[c] = "done")

-----------------------------------------------------------------------------
(* The inductive invariant behind the safety properties above.             *)

\* Inflight f was registered, and if by f's current attempt, under key k.
RegisteredUnder(f, k) ==
  \/ f[2] < attempt[f[1]]
  \/ /\ f[2] = attempt[f[1]]
     /\ pc[f[1]] \in {"write", "wait", "cancel", "release", "done"}
     /\ KeyOf(f[1]) = k

\* The table only holds unclaimed inflights of attempts under way.
PendingInv ==
  \A k \in Keys : pending[k] # None =>
    LET f == pending[k] IN
    /\ f \notin claimed
    /\ f[2] = attempt[f[1]]
    /\ pc[f[1]] \in {"write", "wait", "cancel"}
    /\ KeyOf(f[1]) = k

\* A claimed inflight was registered; its attempt never registers again.
ClaimedInv ==
  \A f \in claimed : RegisteredUnder(f, KeyOf(f[1]))

\* A filled channel belongs to a claimed inflight and, for the attempt under
\* way, holds the answer to that very request.
ChanInv ==
  \A f \in Inflights : chan[f] # None =>
    /\ f \in claimed
    /\ f[2] = attempt[f[1]] => chan[f] = RequestAuth(f, id[f[1]])

\* A Deliver under way carries a reply validated against its inflight.
RxInv ==
  \A s \in Sockets : rx[s].pc \in {"claim", "send", "reread"} =>
    /\ rx[s].auth = RequestAuth(rx[s].ifl, rx[s].id)
    /\ RegisteredUnder(rx[s].ifl, <<s, rx[s].id>>)

\* Two readLoops never push to the same channel.
SendInv ==
  \A s \in Sockets : rx[s].pc = "send" =>
    /\ rx[s].ifl \in claimed
    /\ chan[rx[s].ifl] = None
    /\ \A t \in Sockets : rx[t].pc = "send" /\ rx[t].ifl = rx[s].ifl => t = s

\* A completed entry records the authenticator of a claimed request.
DoneInv ==
  \A k \in Keys : recentDone[k] # None =>
    \E f \in claimed : recentDone[k] = RequestAuth(f, k[2])

\* Transmissions and the pending outcome at every stage of a call.
TxInv ==
  \A c \in Calls :
    /\ pc[c] = "idle" => attempt[c] = 0
    /\ pc[c] \in {"idle", "alloc", "build", "write", "retry"} =>
         tx[c] = attempt[c] /\ outcome[c] = "none"
    /\ pc[c] = "wait" => tx[c] = attempt[c] + 1 /\ outcome[c] = "none"
    /\ pc[c] = "cancel" => outcome[c] \in {"timeout", "ctx", "write_error"}
    /\ pc[c] \in {"cancel", "release"} =>
         /\ outcome[c] \in {"timeout", "ctx", "reply", "write_error", "build_error"}
         /\ outcome[c] \in {"timeout", "ctx", "reply"} => tx[c] = attempt[c] + 1

\* Only a started engine runs calls.
StartedInv ==
  \A c \in Calls : pc[c] \notin {"idle", "done"} => started

IInv ==
  /\ TypeOK /\ StartedInv /\ PendingInv /\ ClaimedInv /\ ChanInv /\ RxInv /\ SendInv
  /\ DoneInv /\ TxInv /\ IDOwnership /\ ReplyIntegrity /\ DuplicateIsSecond

\* Every destination shares one Identifier space per socket, so the matcher's
\* key (local address, Identifier) is as fine as the allocator's tuple.
OneScope == \A c, d \in Calls : DestOf[c] = DestOf[d]

\* The strengthening of NoOrphanWaiter: from Register on.
NoOrphanInv ==
  \A c \in Calls : pc[c] \in {"write", "wait"} /\ ~cleared
    => \/ pending[KeyOf(c)] = Current(c)
       \/ chan[Current(c)] # None
       \/ \E s \in Sockets : rx[s].pc = "send" /\ rx[s].ifl = Current(c)

-----------------------------------------------------------------------------
\* What a caller of Send sees: transmissions and one return value.
Contract == INSTANCE SendContract
  WITH returned <- [c \in Calls |-> IF pc[c] = "done" THEN outcome[c] ELSE "none"]

\* Engine.Send implements its documented contract (SendContract).
ImplementsContract == Contract!Spec
=============================================================================
