------------------------------ MODULE Listener ------------------------------
(***************************************************************************)
(* pkg/server: the CoA and Disconnect listener, composed with the          *)
(* subscriber its requests are for.  Reader goroutines share one UDP       *)
(* socket; each reads a datagram, answers it, and for an acknowledged      *)
(* request starts the subscriber's handler on a goroutine of its own,      *)
(* which no WaitGroup covers.  The scenario runner starts and stops the    *)
(* listener; its context may be cancelled at any time.                     *)
(*                                                                         *)
(* Every Disconnect and every CoA of Subscriber is one datagram, taken     *)
(* from the socket at most once; a retransmitted request is two.  What a   *)
(* datagram holds is chosen when it is handled, from Inputs.  Event tags,  *)
(* latencies and addresses are left out.                                   *)
(***************************************************************************)
EXTENDS Subscriber, Pool, FiniteSets

CONSTANTS
  Readers,          \* Opts.ReaderCount goroutines
  Secret, Intruder, \* the shared secret, and another one
  Creds, Count,     \* the user names of the credentials; subscribers.count
  Self              \* the subscriber modelled

ASSUME CredsAssumption == Creds \in Seq(UserNameType) /\ Count \in Nat
ASSUME SecretAssumption == Secret # Intruder
ASSUME SelfAssumption == Self \in DOMAIN NewPool(Creds, Count)
ASSUME NoReplyAssumption == None \notin {"ack", "nak"}

Datagrams == Disconnects \cup CoAs
TheNames  == NewPool(Creds, Count)

-----------------------------------------------------------------------------
(* handlePacket, as a function of the datagram's bytes.                    *)

dropPacket == [verdict |-> "drop", target |-> NoSubscriber, reply |-> Absent]

respondCoANak(pkt, cause) ==
  [verdict |-> "nak", target |-> NoSubscriber,
   reply |-> Encode(newDynAuthNak("CoA-NAK", pkt, Secret, cause))]

respondDisconnectNak(pkt, cause) ==
  [verdict |-> "nak", target |-> NoSubscriber,
   reply |-> Encode(newDynAuthNak("Disconnect-NAK", pkt, Secret, cause))]

\* Building and encoding a reply cannot fail: it has at most two attributes.
Ack(code, pkt, target) ==
  [verdict |-> "ack", target |-> target,
   reply |-> Encode(newDynAuthAck(code, pkt, Secret))]

handleCoA(pkt, wire) ==
  LET target == Lookup(TheNames, pkt.attrs)
  IN  IF ~ValidateMessageAuthenticator(pkt, wire, Secret) THEN dropPacket
      ELSE IF vsaErr(pkt.attrs) THEN respondCoANak(pkt, 401)
      ELSE IF target = NoSubscriber THEN respondCoANak(pkt, 503)
      ELSE Ack("CoA-ACK", pkt, target)

handleDisconnect(pkt, wire) ==
  LET target == Lookup(TheNames, pkt.attrs)
  IN  IF ~ValidateMessageAuthenticator(pkt, wire, Secret) THEN dropPacket
      ELSE IF vsaErr(pkt.attrs) THEN respondDisconnectNak(pkt, 401)
      ELSE IF target = NoSubscriber THEN respondDisconnectNak(pkt, 503)
      ELSE Ack("Disconnect-ACK", pkt, target)

handlePacket(wire) ==
  LET pkt == Decode(wire, Secret)
  IN  IF ~wire.framed THEN dropPacket
      ELSE IF pkt.code = "CoA-Request" THEN handleCoA(pkt, wire)
      ELSE IF pkt.code = "Disconnect-Request" THEN handleDisconnect(pkt, wire)
      ELSE dropPacket

-----------------------------------------------------------------------------
(* The datagrams a peer may send in the place of p: what Encode makes of   *)
(* a request with the right or another secret, with and without a          *)
(* Message-Authenticator, naming this subscriber, another one or none; and *)
(* datagrams that are padded, damaged or of another code.                  *)

Stranger == Text(Name("stranger", <<>>))

Identities ==
  {<<Attr("Acct-Session-Id", SessionID(Self))>>,
   <<Attr("User-Name", TheNames[Self])>>,
   <<Attr("User-Name", TheNames[Count - 1])>>,
   <<Attr("Framed-IP-Address", FramedIP(Self)), Attr("User-Name", Stranger)>>,
   <<Attr("Acct-Session-Id", SessionID(Self)),
     Attr("User-Name", TheNames[Count - 1])>>,
   <<Attr("Acct-Session-Id", SessionID(Count - 1))>>,
   <<Attr("Acct-Session-Id", SessionID(Count))>>,
   <<>>}

Vendor == {<<>>, <<VSA(TRUE)>>, <<VSA(TRUE), VSA(FALSE)>>}

Request(p, code, attrs, secret) ==
  Encode([code |-> code, id |-> p, auth |-> Zero16, requestAuth |-> Zero16,
          attrs |-> attrs, secret |-> secret])

RequestCode(p) == IF p \in CoAs THEN "CoA-Request" ELSE "Disconnect-Request"

Inputs(p) ==
  LET Proper == {Request(p, RequestCode(p), who \o vendor \o ma, secret) :
                   who \in Identities, vendor \in Vendor,
                   ma \in {<<>>, <<Attr(MA, Zero16)>>},
                   secret \in {Secret, Intruder}}
  IN  Proper \cup {[w EXCEPT !.pad = TRUE] : w \in Proper}
             \cup {[w EXCEPT !.framed = FALSE] : w \in Proper}
             \cup {[w EXCEPT !.code = "Access-Request"] : w \in Proper}

\* What handling p may come to, the decision without the reply's bytes.
Decision(h) == [verdict |-> h.verdict, target |-> h.target]
Drop        == Decision(dropPacket)
Handlings   == [p \in Datagrams |-> {Decision(handlePacket(w)) : w \in Inputs(p)}]

-----------------------------------------------------------------------------

VARIABLES
  owner,        \* the runner's calls: Start, Stop and how Stop returned
  cancelled,    \* is the context of Start done?
  closed,       \* has the socket been closed?
  watcher,      \* the cancel watcher
  rpc, rpkt,    \* each reader: where it is, the datagram it handles
  handling,     \* each reader: handlePacket's decision
  taken,        \* datagrams read from the socket
  replies,      \* the replies on the wire: ack or nak, by request
  targets,      \* handler goroutines started: request -> subscriber
  packets,      \* the four packet counters
  submitted     \* events handed to Collector.Submit, by kind of request

lvars == <<owner, cancelled, closed, watcher, rpc, rpkt, handling, taken,
           replies, targets, packets, submitted>>
allvars == <<vars, lvars>>

Kinds == {"coa", "disconnect"}
Kind(p) == IF p \in CoAs THEN "coa" ELSE "disconnect"
stopped == owner \in {"stopping", "waiting", "stopped", "gave_up"}
stopChClosed == owner \in {"waiting", "stopped", "gave_up"}

LInit ==
  /\ Init
  /\ owner = "new" /\ cancelled = FALSE /\ closed = FALSE /\ watcher = "none"
  /\ rpc = [r \in Readers |-> "none"]
  /\ rpkt = [r \in Readers |-> None]
  /\ handling = [r \in Readers |-> Drop]
  /\ taken = {}
  /\ replies = [p \in Datagrams |-> None]
  /\ targets = [p \in Datagrams |-> NoSubscriber]
  /\ packets = [received |-> 0, acked |-> 0, naked |-> 0, dropped |-> 0]
  /\ submitted = [k \in Kinds |-> [received |-> 0, acked |-> 0, naked |-> 0,
                                   error |-> 0]]

-----------------------------------------------------------------------------
(* Start, Stop and the cancel watcher.                                     *)

Start ==
  /\ owner = "new" /\ owner' = "running"
  /\ rpc' = [r \in Readers |-> "check"]
  /\ watcher' = "select"
  /\ UNCHANGED <<vars, cancelled, closed, rpkt, handling, taken, replies,
                 targets, packets, submitted>>

\* After Stop's flag a cancellation makes no difference: readers look at the
\* flag wherever they look at the context, and Stop closes the socket itself.
Cancel ==
  /\ ~cancelled /\ ~stopped /\ cancelled' = TRUE
  /\ UNCHANGED <<vars, owner, closed, watcher, rpc, rpkt, handling, taken,
                 replies, targets, packets, submitted>>

\* Fault: the watcher waits for the context only.
WatchContextOnly ==
  /\ watcher = "select" /\ cancelled
  /\ watcher' = "exited" /\ closed' = TRUE
  /\ UNCHANGED <<vars, owner, cancelled, rpc, rpkt, handling, taken, replies,
                 targets, packets, submitted>>

\* The context or stopCh: closeConn, and the watcher is done.
Watch ==
  /\ watcher = "select" /\ (cancelled \/ stopChClosed)
  /\ watcher' = "exited" /\ closed' = TRUE
  /\ UNCHANGED <<vars, owner, cancelled, rpc, rpkt, handling, taken, replies,
                 targets, packets, submitted>>

\* Stop: the flag (Start was called, or construction failed before it) ...
StopFlag ==
  /\ owner \in {"new", "running"} /\ owner' = "stopping"
  /\ UNCHANGED <<vars, cancelled, closed, watcher, rpc, rpkt, handling, taken,
                 replies, targets, packets, submitted>>

\* ... stopCh and closeConn ...
StopClose ==
  /\ owner = "stopping" /\ owner' = "waiting"
  /\ closed' = TRUE
  /\ UNCHANGED <<vars, cancelled, watcher, rpc, rpkt, handling, taken, replies,
                 targets, packets, submitted>>

\* ... the WaitGroup of readers and watcher ...
StopDone ==
  /\ owner = "waiting" /\ owner' = "stopped"
  /\ watcher \in {"none", "exited"}
  /\ \A r \in Readers : rpc[r] \in {"none", "exited"}
  /\ UNCHANGED <<vars, cancelled, closed, watcher, rpc, rpkt, handling, taken,
                 replies, targets, packets, submitted>>

\* ... or the caller's deadline.
StopGivesUp ==
  /\ owner = "waiting" /\ owner' = "gave_up"
  /\ UNCHANGED <<vars, cancelled, closed, watcher, rpc, rpkt, handling, taken,
                 replies, targets, packets, submitted>>

-----------------------------------------------------------------------------
(* readLoop and the effects of handlePacket.                               *)

GoTo(r, from, to) == rpc[r] = from /\ rpc' = [rpc EXCEPT ![r] = to]

\* handlePacket returns: the next iteration, with the locals gone.
NextPacket(r, from) ==
  /\ GoTo(r, from, "check")
  /\ rpkt' = [rpkt EXCEPT ![r] = None]
  /\ handling' = [handling EXCEPT ![r] = Drop]

Check(r) ==
  /\ GoTo(r, "check", IF stopped THEN "exited" ELSE "read")
  /\ UNCHANGED <<vars, owner, cancelled, closed, watcher, rpkt, handling,
                 taken, replies, targets, packets, submitted>>

\* ReadFromUDP fails: for good once the socket is closed, or transiently.
ReadError(r) ==
  /\ GoTo(r, "read", IF closed \/ stopped \/ cancelled THEN "exited" ELSE "check")
  /\ UNCHANGED <<vars, owner, cancelled, closed, watcher, rpkt, handling,
                 taken, replies, targets, packets, submitted>>

EmptyDatagram(r) ==
  /\ ~closed
  /\ GoTo(r, "read", "check")
  /\ UNCHANGED <<vars, owner, cancelled, closed, watcher, rpkt, handling,
                 taken, replies, targets, packets, submitted>>

\* ReadFromUDP returns a datagram and handlePacket decides.  Until the reply
\* is written nothing it does depends on the other goroutines, so this is one
\* step.  A datagram that cannot be decoded, is of another code or not
\* authenticated: validation_failed or coa_dropped, which no property here
\* tells apart, and the next iteration.
Refuse(r) ==
  /\ ~closed
  /\ GoTo(r, "read", "check")
  /\ \E p \in Datagrams \ taken :
       Drop \in Handlings[p] /\ taken' = taken \cup {p}
  /\ packets' = [packets EXCEPT !.received = @ + 1, !.dropped = @ + 1]
  /\ UNCHANGED <<vars, owner, cancelled, closed, watcher, rpkt, handling,
                 replies, targets, submitted>>

\* Fault: coa_received is not emitted for a request that gets a NAK.
AcceptSilently(r) ==
  /\ ~closed
  /\ GoTo(r, "read", "reply")
  /\ \E p \in Datagrams \ taken : \E h \in Handlings[p] \ {Drop} :
       /\ rpkt' = [rpkt EXCEPT ![r] = p] /\ taken' = taken \cup {p}
       /\ handling' = [handling EXCEPT ![r] = h]
       /\ submitted' = IF h.verdict = "nak" THEN submitted
                       ELSE [submitted EXCEPT ![Kind(p)].received = @ + 1]
  /\ packets' = [packets EXCEPT !.received = @ + 1]
  /\ UNCHANGED <<vars, owner, cancelled, closed, watcher, replies, targets>>

\* An authenticated request: coa_received or disconnect_received, whatever
\* becomes of it.
Accept(r) ==
  /\ ~closed
  /\ GoTo(r, "read", "reply")
  /\ \E p \in Datagrams \ taken : \E h \in Handlings[p] \ {Drop} :
       /\ rpkt' = [rpkt EXCEPT ![r] = p] /\ taken' = taken \cup {p}
       /\ handling' = [handling EXCEPT ![r] = h]
       /\ submitted' = [submitted EXCEPT ![Kind(p)].received = @ + 1]
  /\ packets' = [packets EXCEPT !.received = @ + 1]
  /\ UNCHANGED <<vars, owner, cancelled, closed, watcher, replies, targets>>

writeReply(r) ==
  /\ ~closed
  /\ GoTo(r, "reply", "report")
  /\ replies' = [replies EXCEPT ![rpkt[r]] = handling[r].verdict]
  /\ UNCHANGED <<vars, owner, cancelled, closed, watcher, rpkt, handling,
                 taken, targets, packets, submitted>>

\* Fault: a reply that could not be written is reported like one that was.
WriteErrorIgnored(r) ==
  /\ GoTo(r, "reply", "report")
  /\ UNCHANGED <<vars, owner, cancelled, closed, watcher, rpkt, handling,
                 taken, replies, targets, packets, submitted>>

\* The write fails, as it must once the socket is closed: internal_error,
\* and the subscriber is left alone.
WriteError(r) ==
  /\ NextPacket(r, "reply")
  /\ submitted' = [submitted EXCEPT ![Kind(rpkt[r])].error = @ + 1]
  /\ packets' = [packets EXCEPT !.dropped = @ + 1]
  /\ UNCHANGED <<vars, owner, cancelled, closed, watcher, taken, replies,
                 targets>>

ReportNak(r) ==
  /\ handling[r].verdict = "nak"
  /\ NextPacket(r, "report")
  /\ submitted' = [submitted EXCEPT ![Kind(rpkt[r])].naked = @ + 1]
  /\ packets' = [packets EXCEPT !.naked = @ + 1]
  /\ UNCHANGED <<vars, owner, cancelled, closed, watcher, taken, replies,
                 targets>>

\* Fault: the handler's goroutine is only started while the listener runs.
ReportAckUnlessStopped(r) ==
  /\ handling[r].verdict = "ack"
  /\ NextPacket(r, "report")
  /\ submitted' = [submitted EXCEPT ![Kind(rpkt[r])].acked = @ + 1]
  /\ packets' = [packets EXCEPT !.acked = @ + 1]
  /\ targets' = IF stopped THEN targets
                ELSE [targets EXCEPT ![rpkt[r]] = handling[r].target]
  /\ UNCHANGED <<vars, owner, cancelled, closed, watcher, taken, replies>>

\* ... and then go target.OnCoA or go target.OnDisconnect.  Event, counter and
\* go statement are one step: no step of the model reads what the first two
\* leave, and the handler's first step is its own.
ReportAck(r) ==
  /\ handling[r].verdict = "ack"
  /\ NextPacket(r, "report")
  /\ submitted' = [submitted EXCEPT ![Kind(rpkt[r])].acked = @ + 1]
  /\ packets' = [packets EXCEPT !.acked = @ + 1]
  /\ targets' = [targets EXCEPT ![rpkt[r]] = handling[r].target]
  /\ UNCHANGED <<vars, owner, cancelled, closed, watcher, taken, replies>>

readLoop(r) ==
  \/ Check(r) \/ ReadError(r) \/ EmptyDatagram(r) \/ Refuse(r) \/ Accept(r)
  \/ writeReply(r) \/ WriteError(r) \/ ReportNak(r) \/ ReportAck(r)

-----------------------------------------------------------------------------
(* The composition: a handler runs once its goroutine was started.         *)

Session(A) == A /\ UNCHANGED lvars

Handler(p) ==
  /\ targets[p] = Self
  /\ \/ p \in Disconnects /\ Session(LoadDeps(p) \/ OnDisconnect(p))
     \/ p \in CoAs /\ Session(CountCoA(p) \/ EmitCoA(p))

LNext ==
  \/ Start \/ Cancel \/ Watch
  \/ StopFlag \/ StopClose \/ StopDone \/ StopGivesUp
  \/ \E r \in Readers : readLoop(r)
  \/ Session(RunRefused \/ StashDeps)
  \/ Session(Run)
  \/ \E p \in Datagrams : Handler(p)

LSpec == LInit /\ [][LNext]_allvars

\* A reader that does not wait for the network: it has no read under way, or
\* the socket is closed.
Running(r) == (rpc[r] # "read" \/ closed) /\ readLoop(r)

\* Go runs every runnable goroutine, and Sender.Send returns; reading from a
\* closed socket returns at once.  A datagram is never obliged to arrive, the
\* runner never obliged to call.
LFairness ==
  /\ WF_allvars(Session(Run))
  /\ WF_allvars(Watch)
  /\ WF_allvars(StopClose)
  /\ WF_allvars(StopDone)
  /\ \A r \in Readers : WF_allvars(Running(r))
  /\ \A p \in Datagrams : WF_allvars(Handler(p))

LFairSpec == LSpec /\ LFairness

-----------------------------------------------------------------------------
(* Properties.                                                             *)

Decisions == [verdict : {"ack"}, target : DOMAIN TheNames]
               \cup [verdict : {"nak"}, target : {NoSubscriber}]

PacketCounts == [received : Nat, acked : Nat, naked : Nat, dropped : Nat]
EventCounts  == [received : Nat, acked : Nat, naked : Nat, error : Nat]

\* Types of the listener's variables.
LTypeOK ==
  /\ owner \in {"new", "running", "stopping", "waiting", "stopped", "gave_up"}
  /\ cancelled \in BOOLEAN /\ closed \in BOOLEAN
  /\ watcher \in {"none", "select", "exited"}
  /\ rpc \in [Readers -> {"none", "check", "read", "reply", "report", "exited"}]
  /\ rpkt \in [Readers -> Datagrams \cup {None}]
  /\ handling \in [Readers -> Decisions \cup {Drop}]
  /\ taken \subseteq Datagrams
  /\ replies \in [Datagrams -> {None, "ack", "nak"}]
  /\ targets \in [Datagrams -> DOMAIN TheNames \cup {NoSubscriber}]
  /\ packets \in PacketCounts /\ submitted \in [Kinds -> EventCounts]

Busy == {r \in Readers : rpc[r] \in {"reply", "report"}}

\* Whenever the socket is closed under a reader, each packet counted as received
\* is counted once more, as acked, naked or dropped, or is in the hands of a
\* reader; the acked and naked are the replies that went out; and of each kind
\* of request the events submitted add up: one answer or one error for each that
\* was received and is not in hand.
PacketAccounting ==
  /\ packets.received = packets.acked + packets.naked + packets.dropped + Cardinality(Busy)
  /\ packets.acked + packets.naked
       + Cardinality({r \in Readers : rpc[r] = "report"})
     = Cardinality({p \in Datagrams : replies[p] # None})
  /\ \A f \in {"acked", "naked"} :
       submitted["coa"][f] + submitted["disconnect"][f] = packets[f]
  /\ \A k \in Kinds :
       submitted[k].received = submitted[k].acked + submitted[k].naked
         + submitted[k].error + Cardinality({r \in Busy : Kind(rpkt[r]) = k})

\* What the summary shows as coa.received if no event is lost: the listener's
\* coa_received and those of the subscriber's handlers.
SummaryReceived == submitted["coa"].received + obs.coas

\* RESULTS-INTERPRETATION.md shows received = acked + naked: every CoA-Request
\* that got its reply is counted once.  Violated: OnCoA submits a second
\* coa_received for a request that was acknowledged.
ReceivedIsAnswered ==
  (Busy = {} /\ submitted["coa"].error = 0) =>
    SummaryReceived = submitted["coa"].acked + submitted["coa"].naked

HandlerStarted(p) == (IF p \in CoAs THEN cpc[p] ELSE dpc[p]) # "idle"

\* The subscriber is disturbed, and its session ended, only by a request that
\* was read from the socket, authenticated and meant for it, and whose ACK is
\* on the wire, although the handler runs on a goroutine of its own.
OnlyAckedHandled ==
  \A p \in Datagrams :
    HandlerStarted(p) => p \in taken /\ replies[p] = "ack" /\ targets[p] = Self

\* Is w answered as it should be?  h is what handlePacket makes of it.
Carries(w, value) == \E i \in DOMAIN w.attrs : w.attrs[i].value = value

Answered(w, h) ==
  LET rep    == h.reply
      BySession == {s \in DOMAIN TheNames : Carries(w, SessionID(s))}
      ByName == {s \in DOMAIN TheNames : Carries(w, TheNames[s])}
      ByAddress == {s \in DOMAIN TheNames : Carries(w, FramedIP(s))}
      Known  == BySession \cup ByName \cup ByAddress
  IN  /\ rep.id = w.id
      /\ ValidateMessageAuthenticator(Decode(rep, Secret), rep, Secret)
      /\ rep.auth.md5[3] = w.auth /\ rep.auth.md5[5] = Secret
      /\ IF h.verdict = "ack"
         THEN /\ <<w.code, rep.code>> \in {<<"CoA-Request", "CoA-ACK">>,
                                  <<"Disconnect-Request", "Disconnect-ACK">>}
              /\ ~Carries(w, [vsa |-> FALSE])
              /\ h.target \in Known
              /\ BySession # {} => h.target \in BySession
              /\ BySession = {} /\ ByName # {} => h.target \in ByName
         ELSE /\ <<w.code, rep.code>> \in {<<"CoA-Request", "CoA-NAK">>,
                                  <<"Disconnect-Request", "Disconnect-NAK">>}
              /\ IF Carries(w, [vsa |-> FALSE])
                 THEN Get(rep.attrs, "Error-Cause") = Cause(401)
                 ELSE Known = {} /\ Get(rep.attrs, "Error-Cause") = Cause(503)

HandledRight(p, w) ==
  IF /\ w.framed /\ ~w.pad /\ w.code = RequestCode(p)
     /\ \E i \in DOMAIN w.attrs :
          w.attrs[i].type = MA /\ w.attrs[i].value.key = Secret
  THEN Answered(w, handlePacket(w))
  ELSE handlePacket(w) = dropPacket

Verdicts == [p \in Datagrams |-> {HandledRight(p, w) : w \in Inputs(p)}]

\* The whole way of a datagram's bytes through Decode, the validation, the
\* lookup and Encode, for whatever it held: a request is answered exactly if it
\* was authenticated with the shared secret.  The reply has its identifier, an
\* authenticator made with the request's and the secret (over which attributes
\* is ReplyValidates' question) and a Message-Authenticator that validates; it
\* is an ACK for a subscriber that the request's session, or else its name, or
\* else its address belongs to.
HandlerContract == \A p \in taken : Verdicts[p] = {TRUE}

Validates(w) ==
  LET h == handlePacket(w)
  IN  h.verdict # "drop" =>
        ValidateResponseAuthenticator(Decode(h.reply, Secret), w, Secret, h.reply)

\* PROTOCOL.md: the Response Authenticator of every reply, CoA and Disconnect
\* ones included, is the MD5 over its attributes; so the repository's own
\* validator accepts each reply as it was sent.  Violated: Encode computes the
\* authenticator first and fills in the Message-Authenticator afterwards.
ReplyValidates ==
  \A p \in Datagrams : replies[p] # None => \A w \in Inputs(p) : Validates(w)

\* A cancelled context or a Stop frees the socket, every reader and the
\* watcher, also when only one of the two happens, and so Stop returns.
EverythingReleased ==
  (owner # "new" /\ (cancelled \/ stopped)) ~>
    /\ closed /\ watcher \in {"none", "exited"}
    /\ \A r \in Readers : rpc[r] \in {"none", "exited"}

HandlerDone(p) == (IF p \in CoAs THEN cpc[p] ELSE dpc[p]) = "done"

\* A request whose ACK went out reaches its subscriber and is worked off there,
\* also when the listener is stopped meanwhile.
AckedIsHandled ==
  \A p \in Datagrams :
    (replies[p] = "ack") ~>
      /\ targets[p] # NoSubscriber
      /\ targets[p] = Self => HandlerDone(p)
=============================================================================
