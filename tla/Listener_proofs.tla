-------------------------- MODULE Listener_proofs --------------------------
(***************************************************************************)
(* Proofs about Listener, for any number of readers, datagrams and         *)
(* subscribers: the listener's accounts, and that the subscriber it drives *)
(* is the one Subscriber_proofs is about.                                  *)
(***************************************************************************)
EXTENDS Listener, Subscriber_proofs, SequenceTheorems

\* A busy reader has a datagram of its own, taken from the socket, with a
\* decision; whether the reply is on the wire depends on where the reader is.
\* Nobody reads before Start.
ReaderInv ==
  /\ owner = "new" => \A r \in Readers : rpc[r] = "none"
  /\ \A r \in Busy :
       /\ rpkt[r] \in taken /\ handling[r] \in Decisions
       /\ targets[rpkt[r]] = NoSubscriber
       /\ replies[rpkt[r]] = IF rpc[r] = "reply" THEN None ELSE handling[r].verdict
  /\ \A r, s \in Busy : rpkt[r] = rpkt[s] => r = s

\* Replies and handlers exist only for datagrams that were taken, handlers
\* only for those that were acknowledged.
ReplyInv ==
  /\ \A p \in Datagrams : replies[p] # None => p \in taken
  /\ \A p \in Datagrams : targets[p] # NoSubscriber => replies[p] = "ack"

\* The sets the accounts count are finite, each datagram having taken a step
\* to get there.
AtReport == {r \in Readers : rpc[r] = "report"}
Replied  == {p \in Datagrams : replies[p] # None}
BusyWith(k) == {r \in Busy : Kind(rpkt[r]) = k}
FiniteInv == IsFiniteSet(Busy) /\ IsFiniteSet(Replied)

-----------------------------------------------------------------------------
(* The composition.                                                        *)

\* The listener, with as many readers as it likes, drives the subscriber in no
\* other way than Subscriber allows: every step of the composition is a step of
\* the subscriber or leaves it alone.
THEOREM DrivesSubscriber == LSpec => Spec
<1>1. LInit => Init
  BY DEF LInit
<1>2. [LNext]_allvars => [Next]_vars
  <2> SUFFICES ASSUME [LNext]_allvars PROVE [Next]_vars
    OBVIOUS
  <2>1. CASE Start \/ Cancel \/ Watch \/ StopFlag \/ StopClose \/ StopDone \/ StopGivesUp
    BY <2>1 DEF Start, Cancel, Watch, StopFlag, StopClose, StopDone, StopGivesUp
  <2>2. ASSUME NEW r \in Readers, readLoop(r) PROVE UNCHANGED vars
    BY <2>2
    DEF readLoop, Check, ReadError, EmptyDatagram, Refuse, Accept, writeReply, WriteError,
        ReportNak, ReportAck
  <2>3. CASE Session(RunRefused \/ StashDeps) \/ Session(Run)
    BY <2>3 DEF Session, Next
  <2>4. ASSUME NEW p \in Datagrams, Handler(p) PROVE Next
    BY <2>4 DEF Handler, Session, Next
  <2>5. CASE UNCHANGED allvars
    BY <2>5 DEF allvars
  <2> QED BY <2>1, <2>2, <2>3, <2>4, <2>5 DEF LNext
<1> QED BY <1>1, <1>2, PTL DEF LSpec, Spec

\* What is proved of the subscriber alone therefore holds of the one behind the
\* listener: its rows are coherent, agree with the summary, and account for
\* every disconnect.
THEOREM SubscriberBehindListener ==
  LSpec => [](RowsCoherent /\ SummaryMatchesRow /\ QuietAccounting)
BY DrivesSubscriber, Coherence, SummaryAgrees, QuietRowsAccount, PTL

-----------------------------------------------------------------------------
(* Types.                                                                  *)

\* Every set of naturals has a least element: the least of its intervals.
LEMMA LeastNatural ==
  ASSUME NEW T \in SUBSET Nat, T # {}
  PROVE  \E m \in T : \A k \in T : m <= k
<1> DEFINE Upto == {0 .. n : n \in T}
<1>1. Upto \subseteq FiniteSubsetsOf(Nat) /\ Upto # {}
  <2>1. ASSUME NEW n \in T PROVE 0 .. n \in FiniteSubsetsOf(Nat)
    <3>1. IsFiniteSet(0 .. n)
      BY FS_Interval
    <3>2. 0 .. n \subseteq Nat
      OBVIOUS
    <3> QED BY <3>1, <3>2 DEF FiniteSubsetsOf
  <2> QED BY <2>1
<1>2. PICK x \in Upto : \A y \in Upto : <<y, x>> \notin StrictSubsetOrdering(Nat)
  <2> HIDE DEF Upto
  <2> QED BY <1>1, WFMin, FS_StrictSubsetOrderingWellFounded
<1>3. PICK m \in T : x = 0 .. m
  BY <1>2
<1>4. ASSUME NEW k \in T, k < m PROVE FALSE
  <2>1. 0 .. k \in Upto /\ 0 .. k \subseteq 0 .. m /\ m \in 0 .. m /\ m \notin 0 .. k
    BY <1>4
  <2>2. <<0 .. k, 0 .. m>> \in StrictSubsetOrdering(Nat)
    BY <2>1 DEF StrictSubsetOrdering
  <2> QED BY <1>2, <1>3, <2>1, <2>2
<1> QED BY <1>3, <1>4

LEMMA GreatestBelow ==
  ASSUME NEW n \in Nat, NEW T \in SUBSET (0 .. n), T # {}
  PROVE  \E m \in T : \A k \in T : k <= m
<1> DEFINE D == {n - k : k \in T}
<1>0. \A k \in T : k \in Int /\ k <= n /\ n - k \in Nat
  OBVIOUS
<1>1. D \in SUBSET Nat /\ D # {}
  BY <1>0
<1>2. PICK d \in D : \A e \in D : d <= e
  <2> HIDE DEF D
  <2> QED BY <1>1, LeastNatural
<1>3. PICK m \in T : d = n - m
  BY <1>2
<1>4. ASSUME NEW k \in T PROVE k <= m
  <2>1. n - m <= n - k
    BY <1>2, <1>3
  <2> QED BY <1>0, <2>1
<1> QED BY <1>4

LEMMA NamesDomain ==
  /\ DOMAIN TheNames = 0 .. Count - 1 /\ Count \in Nat /\ Count - 1 \in DOMAIN TheNames
  /\ \A i \in DOMAIN TheNames : i # NoSubscriber /\ \E t : TheNames[i] = Text(t)
<1>1. /\ DOMAIN TheNames = 0 .. (IF Len(Creds) = 0 THEN 0 ELSE Count) - 1
      /\ Self \in DOMAIN TheNames /\ Count \in Nat
  BY CredsAssumption, SelfAssumption DEF TheNames, NewPool
<1>2. DOMAIN TheNames = 0 .. Count - 1 /\ Count - 1 \in DOMAIN TheNames
  BY <1>1
<1>3. ASSUME NEW i \in DOMAIN TheNames PROVE i # NoSubscriber /\ \E t : TheNames[i] = Text(t)
  <2>1. TheNames[i] = IF i < Len(Creds) THEN Text(Creds[i + 1])
                      ELSE Recycled(Creds[(i % Len(Creds)) + 1], i)
    BY DEF TheNames, NewPool
  <2> QED BY <1>2, <2>1 DEF Recycled, NoSubscriber
<1> QED BY <1>1, <1>2, <1>3

\* Of the subscribers with one name there is a last one.
LEMMA LastNamed ==
  ASSUME NEW u, NEW i \in DOMAIN TheNames, TheNames[i] = u
  PROVE  LET x == LookupByUsername(TheNames, u) IN
         /\ x \in DOMAIN TheNames /\ TheNames[x] = u
         /\ \A j \in DOMAIN TheNames : TheNames[j] = u => j <= x
<1> DEFINE Named == {j \in DOMAIN TheNames : TheNames[j] = u}
<1>1. PICK n \in Nat : n = Count
  BY NamesDomain
<1>2. Named \in SUBSET (0 .. n) /\ Named # {}
  BY <1>1, NamesDomain
<1>3. \E m \in Named : \A k \in Named : k <= m
  <2> HIDE DEF Named
  <2> QED BY <1>2, GreatestBelow
<1> QED BY <1>3 DEF LookupByUsername

\* And of those with one address.
LEMMA LastAddressed ==
  ASSUME NEW a, NEW i \in DOMAIN TheNames, FramedIP(i) = a
  PROVE  LET x == LookupByFramedIP(TheNames, a) IN
         x \in DOMAIN TheNames /\ FramedIP(x) = a
<1> DEFINE There == {j \in DOMAIN TheNames : FramedIP(j) = a}
<1>1. PICK n \in Nat : n = Count
  BY NamesDomain
<1>2. There \in SUBSET (0 .. n) /\ There # {}
  BY <1>1, NamesDomain
<1>3. \E m \in There : \A k \in There : k <= m
  <2> HIDE DEF There
  <2> QED BY <1>2, GreatestBelow
<1> QED BY <1>3 DEF LookupByFramedIP

LEMMA LookupType ==
  ASSUME NEW attrs
  PROVE  Lookup(TheNames, attrs) \in DOMAIN TheNames \cup {NoSubscriber}
<1>1. \A s : LookupBySessionID(TheNames, s) \in DOMAIN TheNames \cup {NoSubscriber}
  BY DEF LookupBySessionID
<1>2. \A a : LookupByFramedIP(TheNames, a) \in DOMAIN TheNames \cup {NoSubscriber}
  BY LastAddressed DEF LookupByFramedIP
<1>3. \A u : LookupByUsername(TheNames, u) \in DOMAIN TheNames \cup {NoSubscriber}
  BY LastNamed DEF LookupByUsername
<1> QED BY <1>1, <1>2, <1>3 DEF Lookup

\* handlePacket drops a datagram, refuses it, or acknowledges it for a
\* subscriber of the pool.
LEMMA HandlingType ==
  ASSUME NEW p \in Datagrams
  PROVE  Handlings[p] \subseteq Decisions \cup {Drop}
<1> SUFFICES ASSUME NEW wire PROVE Decision(handlePacket(wire)) \in Decisions \cup {Drop}
  BY DEF Handlings
<1>1. Decision(dropPacket) = Drop
  BY DEF Drop
<1>2. ASSUME NEW pkt, NEW cause
      PROVE  /\ Decision(respondCoANak(pkt, cause)) \in Decisions
             /\ Decision(respondDisconnectNak(pkt, cause)) \in Decisions
  BY DEF Decision, respondCoANak, respondDisconnectNak, Decisions
<1>3. ASSUME NEW code, NEW pkt, NEW target \in DOMAIN TheNames
      PROVE  Decision(Ack(code, pkt, target)) \in Decisions
  BY DEF Decision, Ack, Decisions
<1>4. ASSUME NEW pkt
      PROVE  /\ Decision(handleCoA(pkt, wire)) \in Decisions \cup {Drop}
             /\ Decision(handleDisconnect(pkt, wire)) \in Decisions \cup {Drop}
  <2> DEFINE target == Lookup(TheNames, pkt.attrs)
  <2>1. target = NoSubscriber \/ target \in DOMAIN TheNames
    BY LookupType
  <2> QED BY <1>1, <1>2, <1>3, <2>1 DEF handleCoA, handleDisconnect
<1> QED BY <1>1, <1>4 DEF handlePacket

\* A step of the owner or the watcher, and one of the session, leave the readers
\* and their books alone.
Apart == UNCHANGED <<rpkt, handling, taken, replies, targets, packets, submitted>>

OwnerStep ==
  Cancel \/ Watch \/ StopFlag \/ StopClose \/ StopDone \/ StopGivesUp

SessionStep ==
  \/ Session(RunRefused \/ StashDeps) \/ Session(Run)
  \/ \E p \in Datagrams : Handler(p)

LEMMA OwnerApart ==
  ASSUME OwnerStep
  PROVE  UNCHANGED <<vars, rpc>> /\ Apart /\ (owner' = owner \/ owner' # "new")
BY DEF OwnerStep, Apart, Cancel, Watch, StopFlag, StopClose, StopDone, StopGivesUp

LEMMA SessionApart ==
  ASSUME SessionStep
  PROVE  UNCHANGED lvars
BY DEF SessionStep, Session, Handler

\* Counting one more, in one of the counters.
LEMMA Counted ==
  ASSUME LTypeOK, NEW k \in Kinds
  PROVE  /\ [packets EXCEPT !.received = @ + 1] \in PacketCounts
         /\ [packets EXCEPT !.received = @ + 1, !.dropped = @ + 1] \in PacketCounts
         /\ [packets EXCEPT !.dropped = @ + 1] \in PacketCounts
         /\ [packets EXCEPT !.naked = @ + 1] \in PacketCounts
         /\ [packets EXCEPT !.acked = @ + 1] \in PacketCounts
         /\ [submitted EXCEPT ![k].received = @ + 1] \in [Kinds -> EventCounts]
         /\ [submitted EXCEPT ![k].acked = @ + 1] \in [Kinds -> EventCounts]
         /\ [submitted EXCEPT ![k].naked = @ + 1] \in [Kinds -> EventCounts]
         /\ [submitted EXCEPT ![k].error = @ + 1] \in [Kinds -> EventCounts]
<1>0. packets \in PacketCounts /\ submitted \in [Kinds -> EventCounts] /\ submitted[k] \in EventCounts
  BY DEF LTypeOK
<1>1. [packets EXCEPT !.received = @ + 1] \in PacketCounts
  BY <1>0 DEF PacketCounts
<1>2. [packets EXCEPT !.received = @ + 1, !.dropped = @ + 1] \in PacketCounts
  <2>1. packets = [received |-> packets.received, acked |-> packets.acked,
                   naked |-> packets.naked, dropped |-> packets.dropped]
    BY <1>0 DEF PacketCounts
  <2>2. /\ packets.received + 1 \in Nat /\ packets.dropped + 1 \in Nat
        /\ packets.acked \in Nat /\ packets.naked \in Nat
    BY <1>0 DEF PacketCounts
  <2>3. ASSUME NEW m \in Nat, NEW n \in Nat
        PROVE  [packets EXCEPT !.received = m, !.dropped = n] \in PacketCounts
    BY <2>1, <2>2 DEF PacketCounts
  <2> QED BY <2>2, <2>3
<1>3. [packets EXCEPT !.dropped = @ + 1] \in PacketCounts
  BY <1>0 DEF PacketCounts
<1>4. [packets EXCEPT !.naked = @ + 1] \in PacketCounts
  BY <1>0 DEF PacketCounts
<1>5. [packets EXCEPT !.acked = @ + 1] \in PacketCounts
  BY <1>0 DEF PacketCounts
<1>6. /\ [submitted[k] EXCEPT !.received = @ + 1] \in EventCounts
      /\ [submitted[k] EXCEPT !.acked = @ + 1] \in EventCounts
      /\ [submitted[k] EXCEPT !.naked = @ + 1] \in EventCounts
      /\ [submitted[k] EXCEPT !.error = @ + 1] \in EventCounts
  BY <1>0 DEF EventCounts
<1> QED BY <1>0, <1>1, <1>2, <1>3, <1>4, <1>5, <1>6

\* Every step keeps the types of the listener's variables.
LEMMA LTypeNext ==
  ASSUME LTypeOK, ReaderInv, [LNext]_allvars
  PROVE  LTypeOK'
<1>0. Kinds = {"coa", "disconnect"} /\ \A p : Kind(p) \in Kinds
  BY DEF Kinds, Kind
<1>1. CASE Start
  BY <1>1 DEF Start, LTypeOK
<1>2. CASE OwnerStep
  <2>1. UNCHANGED rpc /\ Apart
    BY <1>2, OwnerApart
  <2>2. closed' \in BOOLEAN /\ cancelled' \in BOOLEAN
    BY <1>2, Zenon DEF OwnerStep, Cancel, Watch, StopFlag, StopClose, StopDone, StopGivesUp, LTypeOK
  <2>3. /\ owner' \in {"new", "running", "stopping", "waiting", "stopped", "gave_up"}
        /\ watcher' \in {"none", "select", "exited"}
    BY <1>2 DEF OwnerStep, Cancel, Watch, StopFlag, StopClose, StopDone, StopGivesUp, LTypeOK
  <2> QED BY <2>1, <2>2, <2>3 DEF LTypeOK, Apart
<1>3. CASE SessionStep \/ UNCHANGED allvars
  BY <1>3, SessionApart DEF LTypeOK, lvars, allvars
<1>4. ASSUME NEW r \in Readers, Check(r) \/ ReadError(r) \/ EmptyDatagram(r)
      PROVE  LTypeOK'
  BY <1>4 DEF Check, ReadError, EmptyDatagram, GoTo, LTypeOK
<1>5. ASSUME NEW r \in Readers, Refuse(r) PROVE LTypeOK'
  <2>1. packets' \in PacketCounts
    BY <1>0, <1>5, Counted DEF Refuse
  <2>2. taken' \subseteq Datagrams /\ rpc' = [rpc EXCEPT ![r] = "check"]
    BY <1>5 DEF Refuse, GoTo, LTypeOK
  <2> QED BY <1>5, <2>1, <2>2 DEF Refuse, LTypeOK
<1>6. ASSUME NEW r \in Readers, Accept(r) PROVE LTypeOK'
  <2>0. PICK p \in Datagrams \ taken : \E h \in Handlings[p] \ {Drop} :
          /\ rpkt' = [rpkt EXCEPT ![r] = p] /\ taken' = taken \cup {p}
          /\ handling' = [handling EXCEPT ![r] = h]
          /\ submitted' = [submitted EXCEPT ![Kind(p)].received = @ + 1]
    BY <1>6 DEF Accept
  <2>1. PICK h \in Handlings[p] \ {Drop} :
          /\ rpkt' = [rpkt EXCEPT ![r] = p] /\ taken' = taken \cup {p}
          /\ handling' = [handling EXCEPT ![r] = h]
          /\ submitted' = [submitted EXCEPT ![Kind(p)].received = @ + 1]
    BY <2>0
  <2>2. h \in Decisions
    BY HandlingType
  <2>3. packets' \in PacketCounts
    BY <1>0, <1>6, Counted DEF Accept
  <2>4. submitted' \in [Kinds -> EventCounts]
    BY <1>0, <2>1, Counted
  <2>5. /\ rpkt' \in [Readers -> Datagrams \cup {None}]
        /\ handling' \in [Readers -> Decisions \cup {Drop}]
        /\ taken' \subseteq Datagrams
    BY <2>1, <2>2 DEF LTypeOK
  <2>6. /\ rpc' = [rpc EXCEPT ![r] = "reply"]
        /\ UNCHANGED <<owner, cancelled, closed, watcher, replies, targets>>
    BY <1>6 DEF Accept, GoTo
  <2> QED BY <2>3, <2>4, <2>5, <2>6 DEF LTypeOK
<1>7. ASSUME NEW r \in Readers, writeReply(r) PROVE LTypeOK'
  <2>1. rpkt[r] \in Datagrams /\ handling[r] \in Decisions
    BY <1>7 DEF writeReply, GoTo, ReaderInv, Busy, LTypeOK
  <2>2. handling[r].verdict \in {"ack", "nak"}
    BY <2>1 DEF Decisions
  <2>3. replies' \in [Datagrams -> {None, "ack", "nak"}]
    BY <1>7, <2>1, <2>2 DEF writeReply, LTypeOK
  <2> QED BY <1>7, <2>3 DEF writeReply, GoTo, LTypeOK
<1>8. ASSUME NEW r \in Readers, NEW from, NextPacket(r, from)
      PROVE  /\ rpc' \in [Readers -> {"none", "check", "read", "reply", "report", "exited"}]
             /\ rpkt' \in [Readers -> Datagrams \cup {None}]
             /\ handling' \in [Readers -> Decisions \cup {Drop}]
  BY <1>8 DEF NextPacket, GoTo, LTypeOK
<1>9. ASSUME NEW r \in Readers, WriteError(r) PROVE LTypeOK'
  <2>1. packets' \in PacketCounts /\ submitted' \in [Kinds -> EventCounts]
    BY <1>0, <1>9, Counted DEF WriteError
  <2>2. NextPacket(r, "reply") /\ UNCHANGED <<owner, cancelled, closed, watcher, taken, replies,
                 targets>>
    BY <1>9 DEF WriteError
  <2> QED BY <1>8, <2>1, <2>2 DEF LTypeOK
<1>10. ASSUME NEW r \in Readers, ReportNak(r) PROVE LTypeOK'
  <2>1. /\ packets' \in PacketCounts
        /\ submitted' \in [Kinds -> EventCounts]
    BY <1>0, <1>10, Counted DEF ReportNak
  <2>2. NextPacket(r, "report") /\ UNCHANGED <<owner, cancelled, closed, watcher, taken, replies, targets>>
    BY <1>10 DEF ReportNak
  <2> QED BY <1>8, <2>1, <2>2 DEF LTypeOK
<1>11. ASSUME NEW r \in Readers, ReportAck(r) PROVE LTypeOK'
  <2>1. /\ packets' \in PacketCounts
        /\ submitted' \in [Kinds -> EventCounts]
    BY <1>0, <1>11, Counted DEF ReportAck
  <2>2. NextPacket(r, "report") /\ UNCHANGED <<owner, cancelled, closed, watcher, taken, replies>>
    BY <1>11 DEF ReportAck
  <2>3. handling[r].target \in DOMAIN TheNames \cup {NoSubscriber}
    BY DEF LTypeOK, Decisions, Drop, Decision, dropPacket
  <2>4. targets' \in [Datagrams -> DOMAIN TheNames \cup {NoSubscriber}]
    BY <1>11, <2>3 DEF ReportAck, LTypeOK
  <2> QED BY <1>8, <2>1, <2>2, <2>4 DEF LTypeOK
<1> QED BY <1>1, <1>2, <1>3, <1>4, <1>5, <1>6, <1>7, <1>9, <1>10, <1>11
  DEF LNext, readLoop, OwnerStep, SessionStep

-----------------------------------------------------------------------------
(* The readers.                                                            *)

\* Where a reader goes decides whether it is busy; the others stay.
LEMMA Moves ==
  ASSUME LTypeOK, NEW r \in Readers, NEW from, NEW to, GoTo(r, from, to)
  PROVE  /\ rpc[r] = from /\ rpc'[r] = to /\ \A s \in Readers \ {r} : rpc'[s] = rpc[s]
         /\ Busy' = IF to \in {"reply", "report"} THEN Busy \cup {r} ELSE Busy \ {r}
         /\ AtReport' = IF to = "report" THEN AtReport \cup {r} ELSE AtReport \ {r}
<1>1. rpc[r] = from /\ rpc'[r] = to /\ \A s \in Readers \ {r} : rpc'[s] = rpc[s]
  BY DEF GoTo, LTypeOK
<1> QED BY <1>1 DEF Busy, AtReport

\* A busy reader's step is about its own datagram: nobody else holds it.
LEMMA BusyFacts ==
  ASSUME LTypeOK, ReaderInv, NEW r \in Readers, rpc[r] \in {"reply", "report"}
  PROVE  /\ r \in Busy /\ rpkt[r] \in taken /\ rpkt[r] \in Datagrams
         /\ handling[r] \in Decisions /\ handling[r].verdict \in {"ack", "nak"}
         /\ targets[rpkt[r]] = NoSubscriber
         /\ replies[rpkt[r]] = IF rpc[r] = "reply" THEN None ELSE handling[r].verdict
         /\ \A s \in Busy \ {r} : rpkt[s] # rpkt[r]
<1>1. r \in Busy
  BY DEF Busy
<1> QED BY <1>1 DEF ReaderInv, LTypeOK, Decisions

LEMMA AcceptFacts ==
  ASSUME LTypeOK, ReaderInv, ReplyInv, NEW r \in Readers, Accept(r)
  PROVE  \E p \in Datagrams \ taken : \E h \in Decisions :
           /\ rpkt' = [rpkt EXCEPT ![r] = p] /\ taken' = taken \cup {p}
           /\ handling' = [handling EXCEPT ![r] = h]
           /\ submitted' = [submitted EXCEPT ![Kind(p)].received = @ + 1]
           /\ replies[p] = None /\ targets[p] = NoSubscriber
<1>1. PICK p \in Datagrams \ taken : \E h \in Handlings[p] \ {Drop} :
        /\ rpkt' = [rpkt EXCEPT ![r] = p] /\ taken' = taken \cup {p}
        /\ handling' = [handling EXCEPT ![r] = h]
        /\ submitted' = [submitted EXCEPT ![Kind(p)].received = @ + 1]
  BY DEF Accept
<1>2. replies[p] = None
  BY DEF ReplyInv
<1>3. targets[p] = NoSubscriber
  BY <1>2, NoReplyAssumption DEF ReplyInv
<1>4. Handlings[p] \ {Drop} \subseteq Decisions
  BY HandlingType
<1> QED BY <1>1, <1>2, <1>3, <1>4

\* What handlePacket does when it returns: the reader lets go of its datagram.
LEMMA Released ==
  ASSUME LTypeOK, NEW r \in Readers, NEW from, NextPacket(r, from)
  PROVE  /\ rpc[r] = from /\ Busy' = Busy \ {r} /\ AtReport' = AtReport \ {r}
         /\ \A s \in Busy' : /\ rpc'[s] = rpc[s] /\ rpkt'[s] = rpkt[s]
                             /\ handling'[s] = handling[s]
<1>1. GoTo(r, from, "check")
  BY DEF NextPacket
<1>2. /\ rpc[r] = from /\ Busy' = Busy \ {r} /\ AtReport' = AtReport \ {r}
      /\ \A s \in Readers \ {r} : rpc'[s] = rpc[s]
  BY <1>1, Moves
<1>3. \A s \in Readers \ {r} : rpkt'[s] = rpkt[s] /\ handling'[s] = handling[s]
  BY DEF NextPacket, LTypeOK
<1> QED BY <1>2, <1>3 DEF Busy

\* No two readers ever hold one datagram, whatever the socket does.
LEMMA ReaderNext ==
  ASSUME LTypeOK, ReaderInv, ReplyInv, [LNext]_allvars
  PROVE  ReaderInv'
<1>1. CASE Start
  <2>1. Busy' = {} /\ owner' # "new"
    BY <1>1 DEF Start, Busy
  <2> QED BY <2>1 DEF ReaderInv
<1>2. CASE OwnerStep
  <2>1. UNCHANGED rpc /\ Apart /\ (owner' = owner \/ owner' # "new")
    BY <1>2, OwnerApart
  <2> QED BY <2>1 DEF ReaderInv, Busy, Apart
<1>3. CASE SessionStep \/ UNCHANGED allvars
  <2>1. UNCHANGED lvars
    BY <1>3, SessionApart DEF allvars
  <2> QED BY <2>1 DEF ReaderInv, Busy, lvars
<1>4. ASSUME NEW r \in Readers, rpc[r] # "none", UNCHANGED owner PROVE owner' # "new"
  BY <1>4 DEF ReaderInv
<1>5. ASSUME NEW r \in Readers, Check(r) \/ ReadError(r) \/ EmptyDatagram(r) \/ Refuse(r)
      PROVE  ReaderInv'
  <2>1. PICK from \in {"check", "read"}, to \in {"check", "read", "exited"} : GoTo(r, from, to)
    BY <1>5 DEF Check, ReadError, EmptyDatagram, Refuse
  <2>2. Busy' = Busy /\ rpc[r] # "none" /\ \A s \in Busy : rpc'[s] = rpc[s]
    BY <2>1, Moves DEF Busy
  <2>3. UNCHANGED <<owner, rpkt, handling, replies, targets>> /\ taken \subseteq taken'
    BY <1>5 DEF Check, ReadError, EmptyDatagram, Refuse
  <2> QED BY <1>4, <2>2, <2>3 DEF ReaderInv
<1>6. ASSUME NEW r \in Readers, Accept(r) PROVE ReaderInv'
  <2>1. PICK p \in Datagrams \ taken : \E h \in Decisions :
          /\ rpkt' = [rpkt EXCEPT ![r] = p] /\ taken' = taken \cup {p}
          /\ handling' = [handling EXCEPT ![r] = h]
          /\ submitted' = [submitted EXCEPT ![Kind(p)].received = @ + 1]
          /\ replies[p] = None /\ targets[p] = NoSubscriber
    BY <1>6, AcceptFacts
  <2>2. GoTo(r, "read", "reply") /\ UNCHANGED <<owner, replies, targets>>
    BY <1>6 DEF Accept
  <2>3. /\ rpc[r] = "read" /\ rpc'[r] = "reply" /\ Busy' = Busy \cup {r}
        /\ \A s \in Readers \ {r} : rpc'[s] = rpc[s]
    BY <2>2, Moves
  <2>4. /\ rpkt'[r] = p /\ handling'[r] \in Decisions
        /\ \A s \in Readers \ {r} : rpkt'[s] = rpkt[s] /\ handling'[s] = handling[s]
    BY <2>1 DEF LTypeOK
  <2>5. r \notin Busy /\ Busy \subseteq Readers
    BY <2>3 DEF Busy
  <2>6. owner' # "new"
    BY <1>4, <2>2, <2>3
  <2>7. ASSUME NEW s \in Busy'
        PROVE  /\ rpkt'[s] \in taken' /\ handling'[s] \in Decisions
               /\ targets'[rpkt'[s]] = NoSubscriber
               /\ replies'[rpkt'[s]] = IF rpc'[s] = "reply" THEN None ELSE handling'[s].verdict
    <3>1. CASE s = r
      BY <2>1, <2>2, <2>3, <2>4, <3>1
    <3>2. CASE s # r
      BY <2>1, <2>2, <2>3, <2>4, <2>5, <3>2 DEF ReaderInv
    <3> QED BY <3>1, <3>2
  <2>8. ASSUME NEW s \in Busy', NEW u \in Busy', rpkt'[s] = rpkt'[u] PROVE s = u
    <3>1. \A v \in Busy : rpkt'[v] = rpkt[v] /\ rpkt[v] # p
      BY <2>4, <2>5 DEF ReaderInv
    <3> QED BY <2>3, <2>4, <2>8, <3>1 DEF ReaderInv
  <2> QED BY <2>6, <2>7, <2>8 DEF ReaderInv
<1>7. ASSUME NEW r \in Readers, writeReply(r) PROVE ReaderInv'
  <2>1. GoTo(r, "reply", "report") /\ UNCHANGED <<owner, rpkt, handling, taken, targets>>
    BY <1>7 DEF writeReply
  <2>2. /\ rpc[r] = "reply" /\ rpc'[r] = "report" /\ Busy' = Busy \cup {r}
        /\ \A s \in Readers \ {r} : rpc'[s] = rpc[s]
    BY <2>1, Moves
  <2>3. r \in Busy /\ rpkt[r] \in Datagrams /\ \A s \in Busy \ {r} : rpkt[s] # rpkt[r]
    BY <2>2, BusyFacts
  <2>4. Busy' = Busy /\ Busy \subseteq Readers
    BY <2>2, <2>3 DEF Busy
  <2>5. /\ replies'[rpkt[r]] = handling[r].verdict
        /\ \A s \in Busy \ {r} : rpkt[s] \in Datagrams /\ replies'[rpkt[s]] = replies[rpkt[s]]
    BY <1>7, <2>3, <2>4 DEF writeReply, LTypeOK, ReaderInv
  <2>6. owner' # "new"
    BY <1>4, <2>1, <2>2
  <2>7. ASSUME NEW s \in Busy
        PROVE  replies'[rpkt[s]] = IF rpc'[s] = "reply" THEN None ELSE handling[s].verdict
    BY <2>2, <2>4, <2>5 DEF ReaderInv
  <2> QED BY <2>1, <2>4, <2>6, <2>7 DEF ReaderInv
<1>8. ASSUME NEW r \in Readers, WriteError(r) \/ ReportNak(r) \/ ReportAck(r)
      PROVE  ReaderInv'
  <2>1. PICK from \in {"reply", "report"} : NextPacket(r, from)
    BY <1>8 DEF WriteError, ReportNak, ReportAck
  <2>2. /\ rpc[r] = from /\ Busy' = Busy \ {r}
        /\ \A s \in Busy' : rpc'[s] = rpc[s] /\ rpkt'[s] = rpkt[s] /\ handling'[s] = handling[s]
    BY <2>1, Released
  <2>3. \A s \in Busy' : rpkt[s] # rpkt[r] /\ rpkt[s] \in Datagrams
    BY <2>2, BusyFacts DEF ReaderInv, LTypeOK
  <2>4. /\ UNCHANGED <<owner, taken, replies>>
        /\ \A s \in Busy' : targets'[rpkt[s]] = targets[rpkt[s]]
    BY <1>8, <2>3 DEF WriteError, ReportNak, ReportAck, LTypeOK
  <2>5. owner' # "new"
    BY <1>4, <2>2, <2>4
  <2> QED BY <2>2, <2>4, <2>5 DEF ReaderInv
<1> QED BY <1>1, <1>2, <1>3, <1>5, <1>6, <1>7, <1>8
  DEF LNext, readLoop, OwnerStep, SessionStep

\* Replies and handlers are for requests that were taken and acknowledged.
LEMMA ReplyNext ==
  ASSUME LTypeOK, ReaderInv, ReplyInv, [LNext]_allvars
  PROVE  ReplyInv'
<1>1. CASE Start \/ OwnerStep
  BY <1>1, OwnerApart DEF Start, Apart, ReplyInv
<1>2. CASE SessionStep \/ UNCHANGED allvars
  BY <1>2, SessionApart DEF allvars, lvars, ReplyInv
<1>3. ASSUME NEW r \in Readers,
             \/ Check(r) \/ ReadError(r) \/ EmptyDatagram(r) \/ Refuse(r) \/ Accept(r)
             \/ WriteError(r) \/ ReportNak(r)
      PROVE  ReplyInv'
  <2>1. UNCHANGED <<replies, targets>> /\ taken \subseteq taken'
    BY <1>3 DEF Check, ReadError, EmptyDatagram, Refuse, Accept, WriteError, ReportNak
  <2> QED BY <2>1 DEF ReplyInv
<1>4. ASSUME NEW r \in Readers, writeReply(r) PROVE ReplyInv'
  <2>1. rpkt[r] \in taken /\ targets[rpkt[r]] = NoSubscriber
    BY <1>4, BusyFacts DEF writeReply, GoTo
  <2>2. /\ UNCHANGED <<taken, targets>>
        /\ \A p \in Datagrams \ {rpkt[r]} : replies'[p] = replies[p]
    BY <1>4 DEF writeReply, LTypeOK
  <2> QED BY <2>1, <2>2 DEF ReplyInv
<1>5. ASSUME NEW r \in Readers, ReportAck(r) PROVE ReplyInv'
  <2>1. replies[rpkt[r]] = "ack"
    BY <1>5, BusyFacts DEF ReportAck, NextPacket, GoTo
  <2>2. /\ UNCHANGED <<taken, replies>>
        /\ \A p \in Datagrams \ {rpkt[r]} : targets'[p] = targets[p]
    BY <1>5 DEF ReportAck, LTypeOK
  <2> QED BY <2>1, <2>2 DEF ReplyInv
<1> QED BY <1>1, <1>2, <1>3, <1>4, <1>5
  DEF LNext, readLoop, OwnerStep, SessionStep

-----------------------------------------------------------------------------
(* The accounts: the conjuncts of PacketAccounting.                        *)

PacketsAdd ==
  packets.received = packets.acked + packets.naked + packets.dropped + Cardinality(Busy)
RepliesAdd ==
  packets.acked + packets.naked + Cardinality(AtReport) = Cardinality(Replied)
KindsAdd ==
  \A f \in {"acked", "naked"} : submitted["coa"][f] + submitted["disconnect"][f] = packets[f]
EventsAdd ==
  \A k \in Kinds :
    submitted[k].received =
      submitted[k].acked + submitted[k].naked + submitted[k].error + Cardinality(BusyWith(k))

LEMMA AccountParts ==
  PacketAccounting <=> PacketsAdd /\ RepliesAdd /\ KindsAdd /\ EventsAdd
BY DEF PacketAccounting, PacketsAdd, RepliesAdd, KindsAdd, EventsAdd, AtReport, Replied, BusyWith

\* What is counted is finite, and so are its parts.
LEMMA Countable ==
  ASSUME FiniteInv
  PROVE  /\ IsFiniteSet(AtReport) /\ \A k : IsFiniteSet(BusyWith(k))
         /\ Cardinality(Busy) \in Nat /\ Cardinality(Replied) \in Nat
         /\ Cardinality(AtReport) \in Nat /\ \A k : Cardinality(BusyWith(k)) \in Nat
<1>1. AtReport \subseteq Busy /\ \A k : BusyWith(k) \subseteq Busy
  BY DEF AtReport, BusyWith, Busy
<1>2. IsFiniteSet(AtReport) /\ \A k : IsFiniteSet(BusyWith(k))
  BY <1>1, FS_Subset DEF FiniteInv
<1> QED BY <1>2, FS_CardinalityType DEF FiniteInv

LEMMA FiniteNext ==
  ASSUME LTypeOK, ReaderInv, ReplyInv, FiniteInv, [LNext]_allvars
  PROVE  FiniteInv'
<1>1. CASE Start
  <2>1. Busy' = {} /\ Replied' = Replied
    BY <1>1 DEF Start, Busy, Replied
  <2> QED BY <2>1, FS_EmptySet DEF FiniteInv
<1>2. CASE OwnerStep
  BY <1>2, OwnerApart DEF Apart, FiniteInv, Busy, Replied
<1>3. CASE SessionStep \/ UNCHANGED allvars
  BY <1>3, SessionApart DEF allvars, lvars, FiniteInv, Busy, Replied
<1>4. ASSUME NEW r \in Readers, readLoop(r) PROVE FiniteInv'
  <2>1. \E from, to : GoTo(r, from, to)
    BY <1>4
    DEF readLoop, Check, ReadError, EmptyDatagram, Refuse, Accept, writeReply, WriteError,
        ReportNak, ReportAck, NextPacket
  <2>2. Busy' \subseteq Busy \cup {r}
    BY <2>1, Moves
  <2>3. IsFiniteSet(Busy \cup {r}) /\ IsFiniteSet(Replied \cup {rpkt[r]})
    BY FS_AddElement DEF FiniteInv
  <2>4. Replied' \subseteq Replied \cup {rpkt[r]}
    <3>1. \A p \in Datagrams \ {rpkt[r]} : replies'[p] = replies[p]
      BY <1>4
      DEF readLoop, Check, ReadError, EmptyDatagram, Refuse, Accept, writeReply, WriteError,
          ReportNak, ReportAck, LTypeOK
    <3> QED BY <3>1 DEF Replied
  <2> QED BY <2>2, <2>3, <2>4, FS_Subset DEF FiniteInv
<1> QED BY <1>1, <1>2, <1>3, <1>4
  DEF LNext, OwnerStep, SessionStep

\* The counters as numbers.
LEMMA CountTypes ==
  ASSUME LTypeOK
  PROVE  /\ packets.received \in Nat /\ packets.acked \in Nat
         /\ packets.naked \in Nat /\ packets.dropped \in Nat
         /\ \A k \in Kinds : /\ submitted[k].received \in Nat
                             /\ submitted[k].acked \in Nat /\ submitted[k].naked \in Nat
                             /\ submitted[k].error \in Nat
BY DEF LTypeOK, PacketCounts, EventCounts

\* A reader that is done with its datagram is one busy reader less.
LEMMA ReleasedCount ==
  ASSUME LTypeOK, ReaderInv, FiniteInv, NEW r \in Readers,
         NEW from \in {"reply", "report"}, NextPacket(r, from)
  PROVE  /\ Cardinality(Busy') = Cardinality(Busy) - 1
         /\ Cardinality(AtReport') = Cardinality(AtReport) - (IF from = "report" THEN 1 ELSE 0)
         /\ \A k : Cardinality(BusyWith(k)') =
              Cardinality(BusyWith(k)) - (IF k = Kind(rpkt[r]) THEN 1 ELSE 0)
<1>1. /\ rpc[r] = from /\ Busy' = Busy \ {r} /\ AtReport' = AtReport \ {r}
      /\ \A s \in Busy' : rpkt'[s] = rpkt[s]
  BY Released
<1>2. r \in Busy /\ (r \in AtReport <=> from = "report")
  BY <1>1 DEF Busy, AtReport
<1>3. Cardinality(Busy') = Cardinality(Busy) - 1
  BY <1>1, <1>2, FS_RemoveElement DEF FiniteInv
<1>4. Cardinality(AtReport') = Cardinality(AtReport) - (IF from = "report" THEN 1 ELSE 0)
  <2>0. IsFiniteSet(AtReport) /\ Cardinality(AtReport) \in Nat
    BY Countable
  <2>1. CASE from = "report"
    BY <1>1, <1>2, <2>0, <2>1, FS_RemoveElement
  <2>2. CASE from # "report"
    <3>1. AtReport' = AtReport
      BY <1>1, <1>2, <2>2
    <3> QED BY <2>0, <2>2, <3>1
  <2> QED BY <2>1, <2>2
<1>5. ASSUME NEW k
      PROVE  Cardinality(BusyWith(k)') =
               Cardinality(BusyWith(k)) - (IF k = Kind(rpkt[r]) THEN 1 ELSE 0)
  <2>1. BusyWith(k)' = BusyWith(k) \ {r}
    BY <1>1 DEF BusyWith, Kind
  <2>2. r \in BusyWith(k) <=> k = Kind(rpkt[r])
    BY <1>2 DEF BusyWith
  <2>0. IsFiniteSet(BusyWith(k)) /\ Cardinality(BusyWith(k)) \in Nat
    BY Countable
  <2>3. CASE k = Kind(rpkt[r])
    BY <2>0, <2>1, <2>2, <2>3, FS_RemoveElement
  <2>4. CASE k # Kind(rpkt[r])
    <3>1. BusyWith(k)' = BusyWith(k)
      BY <2>1, <2>2, <2>4
    <3> QED BY <2>0, <2>4, <3>1
  <2> QED BY <2>3, <2>4
<1> QED BY <1>3, <1>4, <1>5

\* Every datagram is counted where it ends up.
LEMMA AccountNext ==
  ASSUME LTypeOK, ReaderInv, ReplyInv, FiniteInv, [LNext]_allvars,
         PacketsAdd, RepliesAdd, KindsAdd, EventsAdd
  PROVE  PacketsAdd' /\ RepliesAdd' /\ KindsAdd' /\ EventsAdd'
<1>0. /\ \A p : Kind(p) \in Kinds
      /\ Kinds = {"coa", "disconnect"} /\ Cardinality(Busy) \in Nat
      /\ Cardinality(Replied) \in Nat /\ Cardinality(AtReport) \in Nat
      /\ \A k : Cardinality(BusyWith(k)) \in Nat
  BY Countable DEF Kind, Kinds
<1>1. CASE Start
  <2>1. Busy = {} /\ Busy' = {}
    BY <1>1 DEF Start, Busy, ReaderInv
  <2>2. /\ AtReport = {} /\ AtReport' = {}
        /\ \A k : BusyWith(k)' = BusyWith(k)
    BY <2>1 DEF AtReport, Busy, BusyWith
  <2> QED BY <1>1, <2>1, <2>2 DEF Start, PacketsAdd, RepliesAdd, KindsAdd, EventsAdd, Replied
<1>2. CASE OwnerStep
  <2>1. UNCHANGED <<rpc, rpkt, replies, packets, submitted>>
    BY <1>2, OwnerApart DEF Apart
  <2> QED BY <2>1
    DEF PacketsAdd, RepliesAdd, KindsAdd, EventsAdd, Replied, AtReport, Busy, BusyWith
<1>3. CASE SessionStep \/ UNCHANGED allvars
  <2>1. UNCHANGED <<rpc, rpkt, replies, packets, submitted>>
    BY <1>3, SessionApart DEF allvars, lvars
  <2> QED BY <2>1
    DEF PacketsAdd, RepliesAdd, KindsAdd, EventsAdd, Replied, AtReport, Busy, BusyWith
<1>4. ASSUME NEW r \in Readers, Check(r) \/ ReadError(r) \/ EmptyDatagram(r) \/ Refuse(r)
      PROVE  PacketsAdd' /\ RepliesAdd' /\ KindsAdd' /\ EventsAdd'
  <2>1. PICK from \in {"check", "read"}, to \in {"check", "read", "exited"} : GoTo(r, from, to)
    BY <1>4 DEF Check, ReadError, EmptyDatagram, Refuse
  <2>2. Busy' = Busy /\ AtReport' = AtReport
    BY <2>1, Moves DEF Busy, AtReport
  <2>3. UNCHANGED <<rpkt, replies, submitted>>
    BY <1>4 DEF Check, ReadError, EmptyDatagram, Refuse
  <2>4. Replied' = Replied /\ \A k : BusyWith(k)' = BusyWith(k)
    BY <2>2, <2>3 DEF Replied, BusyWith, Kind
  <2>5. CASE packets' = packets
    BY <2>2, <2>3, <2>4, <2>5 DEF PacketsAdd, RepliesAdd, KindsAdd, EventsAdd
  <2>6. CASE Refuse(r)
    <3>1. /\ packets'.received = packets.received + 1 /\ packets'.dropped = packets.dropped + 1
          /\ packets'.acked = packets.acked /\ packets'.naked = packets.naked
      BY <2>6 DEF Refuse, LTypeOK, PacketCounts
    <3>2. PacketsAdd'
      BY <1>0, <2>2, <3>1, CountTypes DEF PacketsAdd
    <3> QED BY <2>2, <2>3, <2>4, <3>1, <3>2 DEF RepliesAdd, KindsAdd, EventsAdd
  <2> QED BY <1>4, <2>5, <2>6 DEF Check, ReadError, EmptyDatagram
<1>5. ASSUME NEW r \in Readers, Accept(r)
      PROVE  PacketsAdd' /\ RepliesAdd' /\ KindsAdd' /\ EventsAdd'
  <2>1. PICK p \in Datagrams \ taken :
          rpkt' = [rpkt EXCEPT ![r] = p] /\ submitted' = [submitted EXCEPT ![Kind(p)].received = @ + 1]
    BY <1>5 DEF Accept
  <2>2. /\ GoTo(r, "read", "reply") /\ UNCHANGED replies
        /\ packets' = [packets EXCEPT !.received = @ + 1]
    BY <1>5 DEF Accept
  <2>3. /\ rpc[r] = "read" /\ Busy' = Busy \cup {r} /\ AtReport' = AtReport \ {r}
    BY <2>2, Moves
  <2>4. r \notin Busy /\ AtReport' = AtReport /\ Replied' = Replied
    BY <2>2, <2>3 DEF Busy, AtReport, Replied
  <2>5. Cardinality(Busy') = Cardinality(Busy) + 1
    BY <2>3, <2>4, FS_AddElement DEF FiniteInv
  <2>6. /\ packets'.received = packets.received + 1 /\ packets'.dropped = packets.dropped
        /\ packets'.acked = packets.acked /\ packets'.naked = packets.naked
    BY <2>2 DEF LTypeOK, PacketCounts
  <2>7. PacketsAdd' /\ RepliesAdd'
    BY <1>0, <2>4, <2>5, <2>6, CountTypes DEF PacketsAdd, RepliesAdd
  <2>8. \A k \in Kinds :
          /\ submitted'[k].acked = submitted[k].acked /\ submitted'[k].naked = submitted[k].naked
          /\ submitted'[k].error = submitted[k].error
          /\ submitted'[k].received = submitted[k].received + (IF k = Kind(p) THEN 1 ELSE 0)
    BY <1>0, <2>1, CountTypes DEF LTypeOK, EventCounts
  <2>9. KindsAdd'
    BY <1>0, <2>6, <2>8 DEF KindsAdd
  <2>10. ASSUME NEW k \in Kinds
         PROVE  Cardinality(BusyWith(k)') = Cardinality(BusyWith(k)) + (IF k = Kind(p) THEN 1 ELSE 0)
    <3>0. rpkt'[r] = p /\ \A s \in Readers \ {r} : rpkt'[s] = rpkt[s]
      BY <2>1 DEF LTypeOK
    <3>1. CASE k = Kind(p)
      <4>1. BusyWith(k)' = BusyWith(k) \cup {r} /\ r \notin BusyWith(k)
        BY <2>3, <2>4, <3>0, <3>1 DEF BusyWith, Busy, Kind
      <4> QED BY <3>1, <4>1, Countable, FS_AddElement
    <3>2. CASE k # Kind(p)
      <4>1. BusyWith(k)' = BusyWith(k)
        BY <2>3, <2>4, <3>0, <3>2 DEF BusyWith, Busy, Kind
      <4> QED BY <1>0, <3>2, <4>1
    <3> QED BY <3>1, <3>2
  <2>11. EventsAdd'
    <3> SUFFICES ASSUME NEW k \in Kinds
                 PROVE  submitted'[k].received =
                          submitted'[k].acked + submitted'[k].naked + submitted'[k].error
                            + Cardinality(BusyWith(k)')
      BY DEF EventsAdd
    <3>1. submitted[k].received = submitted[k].acked + submitted[k].naked + submitted[k].error
                                    + Cardinality(BusyWith(k))
      BY DEF EventsAdd
    <3>2. /\ submitted'[k].acked = submitted[k].acked /\ submitted'[k].naked = submitted[k].naked
          /\ submitted'[k].error = submitted[k].error
          /\ submitted'[k].received = submitted[k].received + (IF k = Kind(p) THEN 1 ELSE 0)
      BY <2>8
    <3>3. Cardinality(BusyWith(k)') = Cardinality(BusyWith(k)) + (IF k = Kind(p) THEN 1 ELSE 0)
      BY <2>10
    <3>4. Cardinality(BusyWith(k)) \in Nat
      BY Countable, FS_CardinalityType
    <3> QED BY <3>1, <3>2, <3>3, <3>4, CountTypes
  <2> QED BY <2>7, <2>9, <2>11
<1>6. ASSUME NEW r \in Readers, writeReply(r)
      PROVE  PacketsAdd' /\ RepliesAdd' /\ KindsAdd' /\ EventsAdd'
  <2>1. GoTo(r, "reply", "report") /\ UNCHANGED <<rpkt, packets, submitted>>
    BY <1>6 DEF writeReply
  <2>2. /\ rpc[r] = "reply" /\ Busy' = Busy \cup {r} /\ AtReport' = AtReport \cup {r}
    BY <2>1, Moves
  <2>3. Busy' = Busy /\ r \notin AtReport /\ \A k : BusyWith(k)' = BusyWith(k)
    BY <2>1, <2>2 DEF Busy, AtReport, BusyWith, Kind
  <2>4. /\ rpkt[r] \in Datagrams /\ replies[rpkt[r]] = None
        /\ handling[r].verdict # None
    BY <2>2, BusyFacts, NoReplyAssumption
  <2>5. Replied' = Replied \cup {rpkt[r]} /\ rpkt[r] \notin Replied
    <3>1. replies'[rpkt[r]] = handling[r].verdict
          /\ \A p \in Datagrams \ {rpkt[r]} : replies'[p] = replies[p]
      BY <1>6, <2>4 DEF writeReply, LTypeOK
    <3> QED BY <2>4, <3>1 DEF Replied
  <2>6. /\ Cardinality(Replied') = Cardinality(Replied) + 1
        /\ Cardinality(AtReport') = Cardinality(AtReport) + 1
    BY <2>2, <2>3, <2>5, Countable, FS_AddElement DEF FiniteInv
  <2>7. RepliesAdd'
    BY <1>0, <2>1, <2>6, CountTypes DEF RepliesAdd
  <2> QED BY <2>1, <2>3, <2>7 DEF PacketsAdd, KindsAdd, EventsAdd
<1>7. ASSUME NEW r \in Readers, WriteError(r)
      PROVE  PacketsAdd' /\ RepliesAdd' /\ KindsAdd' /\ EventsAdd'
  <2>1. /\ NextPacket(r, "reply") /\ UNCHANGED replies
        /\ submitted' = [submitted EXCEPT ![Kind(rpkt[r])].error = @ + 1]
        /\ packets' = [packets EXCEPT !.dropped = @ + 1]
    BY <1>7 DEF WriteError
  <2>2. /\ Cardinality(Busy') = Cardinality(Busy) - 1
        /\ Cardinality(AtReport') = Cardinality(AtReport) - 0
        /\ \A k : Cardinality(BusyWith(k)') =
             Cardinality(BusyWith(k)) - (IF k = Kind(rpkt[r]) THEN 1 ELSE 0)
    BY <2>1, ReleasedCount
  <2>3. /\ packets'.received = packets.received /\ packets'.dropped = packets.dropped + 1
        /\ packets'.acked = packets.acked /\ packets'.naked = packets.naked
    BY <2>1 DEF LTypeOK, PacketCounts
  <2>4. PacketsAdd'
    BY <1>0, <2>2, <2>3, CountTypes DEF PacketsAdd
  <2>5. RepliesAdd'
    <3>1. Replied' = Replied
      BY <2>1 DEF Replied
    <3> QED BY <1>0, <2>2, <2>3, <3>1, CountTypes DEF RepliesAdd
  <2>8. \A k \in Kinds :
          /\ submitted'[k].acked = submitted[k].acked /\ submitted'[k].naked = submitted[k].naked
          /\ submitted'[k].received = submitted[k].received
          /\ submitted'[k].error = submitted[k].error + (IF k = Kind(rpkt[r]) THEN 1 ELSE 0)
    BY <1>0, <2>1, CountTypes DEF LTypeOK, EventCounts
  <2>6. KindsAdd'
    BY <1>0, <2>3, <2>8 DEF KindsAdd
  <2>7. EventsAdd'
    <3> SUFFICES ASSUME NEW k \in Kinds
                 PROVE  submitted'[k].received =
                          submitted'[k].acked + submitted'[k].naked + submitted'[k].error
                            + Cardinality(BusyWith(k)')
      BY DEF EventsAdd
    <3> QED BY <1>0, <2>2, <2>8, CountTypes DEF EventsAdd
  <2> QED BY <2>4, <2>5, <2>6, <2>7
<1>8. ASSUME NEW r \in Readers, ReportNak(r) \/ ReportAck(r)
      PROVE  PacketsAdd' /\ RepliesAdd' /\ KindsAdd' /\ EventsAdd'
  <2> DEFINE K == Kind(rpkt[r])
  <2>0. PICK f \in {"acked", "naked"} :
          \/ f = "acked" /\ ReportAck(r)
          \/ f = "naked" /\ ReportNak(r)
    BY <1>8
  <2>1. /\ NextPacket(r, "report") /\ UNCHANGED replies
        /\ f = "acked" => /\ packets' = [packets EXCEPT !.acked = @ + 1]
                          /\ submitted' = [submitted EXCEPT ![K].acked = @ + 1]
        /\ f = "naked" => /\ packets' = [packets EXCEPT !.naked = @ + 1]
                          /\ submitted' = [submitted EXCEPT ![K].naked = @ + 1]
    BY <2>0 DEF ReportAck, ReportNak
  <2>2. /\ Cardinality(Busy') = Cardinality(Busy) - 1
        /\ Cardinality(AtReport') = Cardinality(AtReport) - 1
        /\ \A k : Cardinality(BusyWith(k)') =
             Cardinality(BusyWith(k)) - (IF k = K THEN 1 ELSE 0)
    BY <2>1, ReleasedCount
  <2>3. /\ packets'.received = packets.received /\ packets'.dropped = packets.dropped
        /\ packets'.acked = packets.acked + (IF f = "acked" THEN 1 ELSE 0)
        /\ packets'.naked = packets.naked + (IF f = "naked" THEN 1 ELSE 0)
    BY <2>1, CountTypes DEF LTypeOK, PacketCounts
  <2>4. K \in Kinds
    BY <1>0
  <2>5. \A k \in Kinds :
          /\ submitted'[k].received = submitted[k].received
          /\ submitted'[k].acked = submitted[k].acked + (IF f = "acked" /\ k = K THEN 1 ELSE 0)
          /\ submitted'[k].naked = submitted[k].naked + (IF f = "naked" /\ k = K THEN 1 ELSE 0)
          /\ submitted'[k].error = submitted[k].error
    <3> HIDE DEF K
    <3> QED BY <2>1, <2>4, CountTypes DEF LTypeOK, EventCounts
  <2>6. PacketsAdd'
    BY <1>0, <2>2, <2>3, CountTypes DEF PacketsAdd
  <2>7. RepliesAdd'
    <3>1. Replied' = Replied
      BY <2>1 DEF Replied
    <3> HIDE DEF K
    <3>2. /\ Cardinality(AtReport') = Cardinality(AtReport) - 1
          /\ packets'.acked + packets'.naked = packets.acked + packets.naked + 1
      BY <2>2, <2>3, CountTypes
    <3> QED BY <1>0, <3>1, <3>2, CountTypes DEF RepliesAdd
  <2> HIDE DEF K
  <2>8. KindsAdd'
    <3>1. /\ submitted["coa"].acked + submitted["disconnect"].acked = packets.acked
          /\ submitted["coa"].naked + submitted["disconnect"].naked = packets.naked
      BY DEF KindsAdd
    <3>2. /\ submitted'["coa"].acked + submitted'["disconnect"].acked = packets'.acked
          /\ submitted'["coa"].naked + submitted'["disconnect"].naked = packets'.naked
      BY <1>0, <2>3, <2>4, <2>5, <3>1, CountTypes
    <3> QED BY <3>2 DEF KindsAdd
  <2>9. EventsAdd'
    <3> SUFFICES ASSUME NEW k \in Kinds
                 PROVE  submitted'[k].received =
                          submitted'[k].acked + submitted'[k].naked + submitted'[k].error
                            + Cardinality(BusyWith(k)')
      BY DEF EventsAdd
    <3> QED BY <1>0, <2>2, <2>5, CountTypes DEF EventsAdd
  <2> QED BY <2>6, <2>7, <2>8, <2>9
<1> QED BY <1>1, <1>2, <1>3, <1>4, <1>5, <1>6, <1>7, <1>8
  DEF LNext, readLoop, OwnerStep, SessionStep

-----------------------------------------------------------------------------

\* A step of the listener starts no handler, and takes nothing back from a
\* request whose handler may run.
LEMMA ListenerKeeps ==
  ASSUME LTypeOK, ReaderInv, ReplyInv, NEW r \in Readers, readLoop(r),
         NEW p \in Datagrams, p \in taken, replies[p] = "ack", targets[p] = Self
  PROVE  p \in taken' /\ replies'[p] = "ack" /\ targets'[p] = Self
<1>0. Self # NoSubscriber /\ None # "ack"
  BY SelfAssumption, NamesDomain, NoReplyAssumption DEF TheNames, NoSubscriber
<1>1. taken \subseteq taken'
  BY DEF readLoop, Check, ReadError, EmptyDatagram, Refuse, Accept, writeReply, WriteError,
         ReportNak, ReportAck
<1>2. replies'[p] = "ack"
  <2>1. CASE writeReply(r)
    <3>1. replies[rpkt[r]] = None
      BY <2>1, BusyFacts DEF writeReply, GoTo
    <3> QED BY <1>0, <2>1, <3>1 DEF writeReply, LTypeOK
  <2>2. CASE UNCHANGED replies
    BY <2>2
  <2> QED BY <2>1, <2>2
    DEF readLoop, Check, ReadError, EmptyDatagram, Refuse, Accept, WriteError, ReportNak,
        ReportAck
<1>3. targets'[p] = Self
  <2>1. CASE ReportAck(r)
    <3>1. targets[rpkt[r]] = NoSubscriber
      BY <2>1, BusyFacts DEF ReportAck, NextPacket, GoTo
    <3> QED BY <1>0, <2>1, <3>1 DEF ReportAck, LTypeOK
  <2>2. CASE UNCHANGED targets
    BY <2>2
  <2> QED BY <2>1, <2>2
    DEF readLoop, Check, ReadError, EmptyDatagram, Refuse, Accept, writeReply, WriteError,
        ReportNak
<1> QED BY <1>1, <1>2, <1>3

LEMMA OnlyNext ==
  ASSUME TypeOK, LTypeOK, ReaderInv, ReplyInv, OnlyAckedHandled, [LNext]_allvars
  PROVE  OnlyAckedHandled'
<1> SUFFICES ASSUME NEW p \in Datagrams, HandlerStarted(p)'
             PROVE  p \in taken' /\ replies'[p] = "ack" /\ targets'[p] = Self
  BY DEF OnlyAckedHandled
<1>0. HandlerStarted(p) => p \in taken /\ replies[p] = "ack" /\ targets[p] = Self
  BY DEF OnlyAckedHandled
<1>1. CASE Start \/ OwnerStep
  <2>1. UNCHANGED vars /\ Apart
    BY <1>1, OwnerApart DEF Start, Apart
  <2> QED BY <1>0, <2>1 DEF HandlerStarted, vars, Apart
<1>2. ASSUME NEW r \in Readers, readLoop(r)
      PROVE  p \in taken' /\ replies'[p] = "ack" /\ targets'[p] = Self
  <2>1. UNCHANGED vars
    BY <1>2
    DEF readLoop, Check, ReadError, EmptyDatagram, Refuse, Accept, writeReply, WriteError,
        ReportNak, ReportAck
  <2>2. HandlerStarted(p)
    BY <2>1 DEF HandlerStarted, vars
  <2> QED BY <1>0, <1>2, <2>2, ListenerKeeps
<1>3. CASE Session(RunRefused \/ StashDeps) \/ Session(Run) \/ UNCHANGED allvars
  <2>1. UNCHANGED <<dpc, cpc, taken, replies, targets>>
    BY <1>3
    DEF Session, RunRefused, StashDeps, Run, Activate, EmitActivated, SendAuth, AuthAccepted,
        AuthEnds, SendAcct, AcctEnds, terminate, EmitTerminal, BuildRow, SubmitRow, transition,
        Leave, lvars, allvars, vars
  <2> QED BY <1>0, <2>1 DEF HandlerStarted
<1>4. ASSUME NEW q \in Datagrams, Handler(q)
      PROVE  p \in taken' /\ replies'[p] = "ack" /\ targets'[p] = Self
  <2>1. UNCHANGED <<taken, replies, targets>> /\ targets[q] = Self
    BY <1>4 DEF Handler, Session, lvars
  <2>2. Self # NoSubscriber /\ None # "ack"
    BY SelfAssumption, NamesDomain, NoReplyAssumption DEF TheNames, NoSubscriber
  <2>3. q \in taken /\ replies[q] = "ack"
    BY <2>1, <2>2 DEF ReplyInv
  <2>4. CASE p = q
    BY <2>1, <2>3, <2>4
  <2>5. CASE p # q
    <3>1. CASE q \in Disconnects /\ (LoadDeps(q) \/ OnDisconnect(q))
      <4>1. cpc' = cpc /\ (p \in Disconnects => dpc'[p] = dpc[p])
        BY <2>5, <3>1
        DEF LoadDeps, OnDisconnect, AlreadyTerminated, Disconnect, EmitReceived,
            BuildDisconnectRow, SubmitDisconnectRow, TypeOK
      <4> QED BY <1>0, <2>1, <4>1 DEF HandlerStarted, Datagrams
    <3>2. CASE q \in CoAs /\ (CountCoA(q) \/ EmitCoA(q))
      <4>1. dpc' = dpc /\ (p \in CoAs => cpc'[p] = cpc[p])
        BY <2>5, <3>2 DEF CountCoA, EmitCoA, TypeOK
      <4> QED BY <1>0, <2>1, <4>1 DEF HandlerStarted
    <3> QED BY <1>4, <3>1, <3>2 DEF Handler, Session
  <2> QED BY <2>4, <2>5
<1> QED BY <1>1, <1>2, <1>3, <1>4
  DEF LNext, OwnerStep

\* The inductive invariant.
LInv ==
  /\ LTypeOK /\ ReaderInv /\ ReplyInv /\ FiniteInv
  /\ PacketsAdd /\ RepliesAdd /\ KindsAdd /\ EventsAdd /\ OnlyAckedHandled

LEMMA LInitLInv == LInit => LInv
<1> SUFFICES ASSUME LInit PROVE LInv
  OBVIOUS
<1>1. LTypeOK
  BY DEF LInit, LTypeOK, PacketCounts, EventCounts
<1>2. Busy = {} /\ AtReport = {} /\ Replied = {} /\ \A k : BusyWith(k) = {}
  BY DEF LInit, Busy, AtReport, Replied, BusyWith
<1>3. ReaderInv /\ ReplyInv
  BY <1>2 DEF LInit, ReaderInv, ReplyInv
<1>4. FiniteInv /\ PacketsAdd /\ RepliesAdd /\ KindsAdd /\ EventsAdd
  <2>1. Cardinality({}) = 0 /\ IsFiniteSet({})
    BY FS_EmptySet
  <2>2. FiniteInv /\ PacketsAdd /\ RepliesAdd
    BY <1>2, <2>1 DEF LInit, FiniteInv, PacketsAdd, RepliesAdd
  <2>3. KindsAdd
    BY DEF LInit, KindsAdd, Kinds
  <2>4. EventsAdd
    BY <1>2, <2>1 DEF LInit, EventsAdd
  <2> QED BY <2>2, <2>3, <2>4
<1>5. OnlyAckedHandled
  BY DEF LInit, Init, OnlyAckedHandled, HandlerStarted, Datagrams
<1> QED BY <1>1, <1>3, <1>4, <1>5 DEF LInv

LEMMA LInvariance == LSpec => []LInv
<1>1. TypeOK /\ LInv /\ [LNext]_allvars => LInv'
  BY LTypeNext, ReaderNext, ReplyNext, FiniteNext, AccountNext, OnlyNext DEF LInv
<1>2. LSpec => []TypeOK
  BY DrivesSubscriber, TypeCorrect, PTL
<1> QED BY <1>1, <1>2, LInitLInv, PTL DEF LSpec

\* Every variable of the listener keeps its type: a reader never holds anything
\* but a decision on a datagram, an ACK always has a subscriber of the pool.
THEOREM LTypeCorrect == LSpec => []LTypeOK
<1>1. LInv => LTypeOK
  BY DEF LInv
<1> QED BY LInvariance, <1>1, PTL

\* For any number of readers on the socket, closed under them or not, the packet
\* counters account for every datagram and every reply, and the events handed to
\* the collector for every request, of each kind.
THEOREM PacketsAccount == LSpec => []PacketAccounting
<1>1. LInv => PacketAccounting
  BY AccountParts DEF LInv
<1> QED BY LInvariance, <1>1, PTL

\* No session is touched but for an authenticated request, taken off the socket
\* once, whose ACK was written before the handler began.
THEOREM AckPrecedesHandler == LSpec => []OnlyAckedHandled
<1>1. LInv => OnlyAckedHandled
  BY DEF LInv
<1> QED BY LInvariance, <1>1, PTL

-----------------------------------------------------------------------------
(* HandlerContract.  First the codec: a packet sealed with one secret      *)
(* validates with that secret, as it was sent, and in no other way.        *)

\* Attributes with at most one Message-Authenticator, still a placeholder.
OneMA(A) ==
  /\ \E S : A \in Seq(S)
  /\ \A i \in DOMAIN A : A[i].type = MA => A[i] = Attr(MA, Zero16)
  /\ \A i, j \in DOMAIN A : A[i].type = MA /\ A[j].type = MA => i = j

Frame(code, id, auth, A) ==
  [framed |-> TRUE, pad |-> FALSE, code |-> code, id |-> id, auth |-> auth, attrs |-> A]
Seal(code, id, auth, A, secret) == [hmac |-> Frame(code, id, auth, A), key |-> secret]
Sealed(code, id, auth, A, secret) ==
  Frame(code, id, auth, WithMA(A, Seal(code, id, auth, A, secret)))

LEMMA FirstOfOnly ==
  ASSUME NEW S, NEW A \in Seq(S), NEW type, NEW i \in DOMAIN A, A[i].type = type,
         \A j \in DOMAIN A : A[j].type = type => j = i
  PROVE  FirstOf(A, type) = i /\ i # 0 /\ Get(A, type) = A[i].value
<1>1. i \in Nat /\ i # 0 /\ i <= i
  OBVIOUS
<1>2. FirstOf(A, type) = i
  BY <1>1 DEF FirstOf
<1> QED BY <1>1, <1>2 DEF Get

LEMMA FirstOfNone ==
  ASSUME NEW A, NEW type, \A j \in DOMAIN A : A[j].type # type
  PROVE  FirstOf(A, type) = 0 /\ Get(A, type) = Absent
BY DEF FirstOf, Get

\* Replacing the Message-Authenticator changes that attribute's value only, and
\* putting the zeros back undoes it.
LEMMA Replaced ==
  ASSUME NEW A, OneMA(A), NEW v
  PROVE  /\ DOMAIN WithMA(A, v) = DOMAIN A
         /\ \A i \in DOMAIN A :
              WithMA(A, v)[i] = IF A[i].type = MA THEN Attr(MA, v) ELSE A[i]
         /\ \A i \in DOMAIN A : WithMA(A, v)[i].type = A[i].type
         /\ maAttrIndex(WithMA(A, v)) = maAttrIndex(A) /\ (\E S : WithMA(A, v) \in Seq(S))
         /\ WithMA(A, Zero16) = A
         /\ WithMA(WithMA(A, v), Zero16) = A
         /\ maAttrIndex(A) # 0 => Get(WithMA(A, v), MA) = v
         /\ (\E i \in DOMAIN A : A[i].type = MA) <=> maAttrIndex(A) # 0
<1>0. PICK S : A \in Seq(S)
  BY DEF OneMA
<1> DEFINE B == WithMA(A, v)
<1>1. CASE \E i \in DOMAIN A : A[i].type = MA
  <2>1. PICK m \in DOMAIN A : A[m].type = MA
    BY <1>1
  <2>2. maAttrIndex(A) = m /\ m # 0
    BY <1>0, <2>1, FirstOfOnly DEF maAttrIndex, OneMA
  <2>3. B = [A EXCEPT ![m] = Attr(MA, v)] /\ WithMA(A, Zero16) = [A EXCEPT ![m] = Attr(MA, Zero16)]
    BY <2>2 DEF WithMA
  <2>4. A = [i \in DOMAIN A |-> A[i]]
    BY <1>0
  <2>5. WithMA(A, Zero16) = A
    BY <2>1, <2>3, <2>4 DEF OneMA
  <2>6. DOMAIN B = DOMAIN A /\ \A i \in DOMAIN A : B[i] = IF i = m THEN Attr(MA, v) ELSE A[i]
    BY <2>3
  <2>7. \A i \in DOMAIN A : i = m <=> A[i].type = MA
    BY <2>1 DEF OneMA
  <2>8. \A i \in DOMAIN A : B[i].type = A[i].type
    BY <2>1, <2>6, <2>7 DEF Attr
  <2>9. B \in Seq(S \cup {Attr(MA, v)})
    BY <1>0, <2>3
  <2>10. maAttrIndex(B) = m /\ Get(B, MA) = v
    <3> HIDE DEF B
    <3>1. FirstOf(B, MA) = m /\ Get(B, MA) = B[m].value
      BY <2>1, <2>6, <2>7, <2>8, <2>9, FirstOfOnly
    <3> QED BY <2>1, <2>6, <3>1 DEF maAttrIndex, Attr
  <2>11. WithMA(B, Zero16) = A
    <3>1. WithMA(B, Zero16) = [B EXCEPT ![m] = Attr(MA, Zero16)]
      BY <2>2, <2>10 DEF WithMA
    <3>2. [B EXCEPT ![m] = Attr(MA, Zero16)] = [A EXCEPT ![m] = Attr(MA, Zero16)]
      BY <2>1, <2>3
    <3> QED BY <2>3, <2>5, <3>1, <3>2
  <2>12. \E T : B \in Seq(T)
    BY <2>9
  <2> QED BY <1>1, <2>2, <2>5, <2>6, <2>7, <2>8, <2>10, <2>11, <2>12
<1>2. CASE \A i \in DOMAIN A : A[i].type # MA
  <2>1. maAttrIndex(A) = 0
    BY <1>2, FirstOfNone DEF maAttrIndex
  <2>2. \A x : WithMA(A, x) = A
    BY <2>1 DEF WithMA
  <2>3. \E T : B \in Seq(T)
    BY <1>0, <2>2
  <2> QED BY <1>2, <2>1, <2>2, <2>3
<1> QED BY <1>1, <1>2

LEMMA FrameAttrs ==
  ASSUME NEW code, NEW id, NEW auth, NEW A, NEW B
  PROVE  /\ Frame(code, id, auth, A).attrs = A
         /\ [Frame(code, id, auth, A) EXCEPT !.attrs = B] = Frame(code, id, auth, B)
<1>1. ASSUME NEW t, NEW f
      PROVE  [[framed |-> t, pad |-> f, code |-> code, id |-> id, auth |-> auth, attrs |-> A]
                EXCEPT !.attrs = B]
             = [framed |-> t, pad |-> f, code |-> code, id |-> id, auth |-> auth, attrs |-> B]
  OBVIOUS
<1> QED BY <1>1 DEF Frame

\* Encode's order: the authenticator over the placeholder, then the seal.
LEMMA EncodeSeals ==
  ASSUME NEW code, NEW id, NEW auth, NEW requestAuth, NEW A, OneMA(A), NEW secret,
         code # "Access-Request"
  PROVE  Encode([code |-> code, id |-> id, auth |-> auth, requestAuth |-> requestAuth,
                 attrs |-> A, secret |-> secret])
         = Sealed(code, id,
                  IF IsResponse(code)
                  THEN ComputeResponseAuthenticator(code, id, requestAuth, A, secret)
                  ELSE ComputeRequestAuthenticator(code, id, A, secret), A, secret)
<1>1. WithMA(A, Zero16) = A
  BY Replaced
<1> DEFINE q == [code |-> code, id |-> id, auth |-> auth, requestAuth |-> requestAuth,
                 attrs |-> A, secret |-> secret]
           a == IF IsResponse(code)
                THEN ComputeResponseAuthenticator(code, id, requestAuth, A, secret)
                ELSE ComputeRequestAuthenticator(code, id, A, secret)
           out == Frame(code, id, a, A)
<1>2. /\ q.code = code /\ q.id = id /\ q.auth = auth /\ q.requestAuth = requestAuth
      /\ q.attrs = A /\ q.secret = secret
  OBVIOUS
<1> HIDE DEF q
<1>3. Encode(q) = [out EXCEPT !.attrs = WithMA(@, ComputeMessageAuthenticator(out, secret))]
  BY <1>1, <1>2 DEF Encode, Frame
<1> HIDE DEF a
<1>4. Encode(q) = Frame(code, id, a, WithMA(A, ComputeMessageAuthenticator(out, secret)))
  BY <1>3, FrameAttrs
<1> QED BY <1>4 DEF Sealed, Seal, ComputeMessageAuthenticator, q, a

\* The seal validates exactly with the secret it was made with.
LEMMA SealChecks ==
  ASSUME NEW code, NEW id, NEW auth, NEW A, OneMA(A), NEW secret, NEW key
  PROVE  LET w == Sealed(code, id, auth, A, secret) IN
         ValidateMessageAuthenticator(Decode(w, key), w, key)
           <=> maAttrIndex(A) # 0 /\ secret = key
<1> DEFINE v == Seal(code, id, auth, A, secret)
           B == WithMA(A, v)
           w == Frame(code, id, auth, B)
<1>1. w = Sealed(code, id, auth, A, secret)
  BY DEF Sealed
<1>2. /\ maAttrIndex(B) = maAttrIndex(A) /\ WithMA(B, Zero16) = A
      /\ maAttrIndex(A) # 0 => Get(B, MA) = v
  <2> HIDE DEF v
  <2> QED BY Replaced
<1> HIDE DEF B
<1>3. Decode(w, key).attrs = B /\ [w EXCEPT !.attrs = WithMA(@, Zero16)] = Frame(code, id, auth, A)
  <2>1. Decode(w, key).attrs = w.attrs /\ w.attrs = B
    BY FrameAttrs DEF Decode
  <2> QED BY <1>2, <2>1, FrameAttrs
<1>4. ComputeMessageAuthenticator([w EXCEPT !.attrs = WithMA(@, Zero16)], key)
        = Seal(code, id, auth, A, key)
  BY <1>3 DEF ComputeMessageAuthenticator, Seal
<1>5. Seal(code, id, auth, A, secret) = Seal(code, id, auth, A, key) <=> secret = key
  BY DEF Seal
<1> QED BY <1>1, <1>2, <1>3, <1>4, <1>5 DEF ValidateMessageAuthenticator

\* Bytes after the end break the seal: it is computed over the datagram.
LEMMA PaddingBreaksSeal ==
  ASSUME NEW code, NEW id, NEW auth, NEW A, OneMA(A), NEW secret, NEW key
  PROVE  LET w == [Sealed(code, id, auth, A, secret) EXCEPT !.pad = TRUE] IN
         ~ValidateMessageAuthenticator(Decode(w, key), w, key)
<1> DEFINE v == Seal(code, id, auth, A, secret)
           B == WithMA(A, v)
           w == [Frame(code, id, auth, B) EXCEPT !.pad = TRUE]
           z == [w EXCEPT !.attrs = WithMA(@, Zero16)]
<1>1. w = [Sealed(code, id, auth, A, secret) EXCEPT !.pad = TRUE]
  BY DEF Sealed
<1>2. maAttrIndex(B) = maAttrIndex(A) /\ (maAttrIndex(A) # 0 => Get(B, MA) = v)
  <2> HIDE DEF v
  <2> QED BY Replaced
<1> HIDE DEF B
<1>3. Decode(w, key).attrs = B /\ z.pad = TRUE /\ Frame(code, id, auth, A).pad = FALSE
  BY DEF Decode, Frame
<1>4. ComputeMessageAuthenticator(z, key) # v
  <2>1. z # Frame(code, id, auth, A)
    BY <1>3
  <2> HIDE DEF z
  <2> QED BY <2>1 DEF ComputeMessageAuthenticator, Seal
<1> QED BY <1>1, <1>2, <1>3, <1>4 DEF ValidateMessageAuthenticator

-----------------------------------------------------------------------------
(* Then the lookup: whom a request names, by what it carries.              *)

\* The attributes of a request, each identifying one at most once.
IdTypes == {"Acct-Session-Id", "User-Name", "Framed-IP-Address"}
UserNames == {TheNames[i] : i \in DOMAIN TheNames} \cup {Stranger}
AllAttrs ==
  {Attr("Acct-Session-Id", SessionID(i)) : i \in Int}
    \cup {Attr("User-Name", u) : u \in UserNames}
    \cup {Attr("Framed-IP-Address", FramedIP(i)) : i \in Int}
    \cup {VSA(TRUE), VSA(FALSE), Attr(MA, Zero16)}
WellFormed(A) ==
  /\ A \in Seq(AllAttrs)
  /\ \A i, j \in DOMAIN A :
       A[i].type = A[j].type /\ A[i].type # "Vendor-Specific" => i = j

\* What a sealed request's attributes tell by their values.
Telling(B) ==
  /\ \E S : B \in Seq(S)
  /\ \A i \in DOMAIN B :
       /\ \A x : B[i].value = SessionID(x) => B[i].type = "Acct-Session-Id"
       /\ \A x : B[i].value = Text(x) => B[i].type = "User-Name"
       /\ \A x : B[i].value = FramedIP(x) => B[i].type = "Framed-IP-Address"
       /\ B[i].value = [vsa |-> FALSE] <=> B[i] = VSA(FALSE)
  /\ \A i, j \in DOMAIN B : B[i].type = B[j].type /\ B[i].type \in IdTypes => i = j

LEMMA AttrKinds ==
  ASSUME NEW a \in AllAttrs
  PROVE  /\ \A x : a.value = SessionID(x) => a.type = "Acct-Session-Id"
         /\ \A x : a.value = Text(x) => a.type = "User-Name"
         /\ \A x : a.value = FramedIP(x) => a.type = "Framed-IP-Address"
         /\ a.value = [vsa |-> FALSE] <=> a = VSA(FALSE)
         /\ a.type = MA => a = Attr(MA, Zero16)
<1> USE DEF Attr, SessionID, Text, FramedIP, VSA, MA, Zero16
<1>1. CASE \E i \in Int : a = Attr("Acct-Session-Id", SessionID(i))
  BY <1>1
<1>2. CASE \E u \in UserNames : a = Attr("User-Name", u)
  <2>1. PICK u \in UserNames : a = Attr("User-Name", u)
    BY <1>2
  <2>2. PICK t : u = Text(t)
    BY NamesDomain DEF UserNames, Stranger
  <2> QED BY <2>1, <2>2
<1>3. CASE \E i \in Int : a = Attr("Framed-IP-Address", FramedIP(i))
  BY <1>3
<1>4. CASE a = VSA(TRUE)
  BY <1>4
<1>5. CASE a = VSA(FALSE)
  BY <1>5
<1>6. CASE a = Attr(MA, Zero16)
  BY <1>6
<1> QED BY <1>1, <1>2, <1>3, <1>4, <1>5, <1>6 DEF AllAttrs

LEMMA WellFormedHasOneMA ==
  ASSUME NEW A, WellFormed(A)
  PROVE  OneMA(A)
<1>1. \A i \in DOMAIN A : A[i] \in AllAttrs
  BY DEF WellFormed
<1>2. \A i \in DOMAIN A : A[i].type = MA => A[i] = Attr(MA, Zero16)
  BY <1>1, AttrKinds
<1>3. MA # "Vendor-Specific"
  BY DEF MA
<1> QED BY <1>2, <1>3 DEF WellFormed, OneMA

LEMMA SealedTells ==
  ASSUME NEW A, WellFormed(A), NEW code, NEW id, NEW auth, NEW C, NEW secret
  PROVE  Telling(WithMA(A, Seal(code, id, auth, C, secret)))
<1> DEFINE v == Seal(code, id, auth, C, secret)
           B == WithMA(A, v)
<1>0. OneMA(A)
  BY WellFormedHasOneMA
<1>1. /\ DOMAIN B = DOMAIN A
      /\ \A i \in DOMAIN A : B[i] = IF A[i].type = MA THEN Attr(MA, v) ELSE A[i]
      /\ \A i \in DOMAIN A : B[i].type = A[i].type
  <2> HIDE DEF v
  <2> QED BY <1>0, Replaced
<1>2. \A i \in DOMAIN A : A[i] \in AllAttrs
  BY DEF WellFormed
<1>3. \A x : v # SessionID(x) /\ v # Text(x) /\ v # FramedIP(x)
  BY DEF Seal, SessionID, Text, FramedIP
<1>4. v # [vsa |-> FALSE] /\ Attr(MA, v) # VSA(FALSE) /\ Attr(MA, v).value = v
  BY DEF Seal, VSA, Attr, MA
<1>5. \E S : B \in Seq(S)
  <2> HIDE DEF v
  <2> QED BY <1>0, Replaced
<1>6. MA \notin IdTypes /\ "Vendor-Specific" \notin IdTypes
  BY DEF MA, IdTypes
<1> HIDE DEF B, v
<1>7. ASSUME NEW i \in DOMAIN B
      PROVE  /\ \A x : B[i].value = SessionID(x) => B[i].type = "Acct-Session-Id"
             /\ \A x : B[i].value = Text(x) => B[i].type = "User-Name"
             /\ \A x : B[i].value = FramedIP(x) => B[i].type = "Framed-IP-Address"
             /\ B[i].value = [vsa |-> FALSE] <=> B[i] = VSA(FALSE)
  <2>1. CASE A[i].type = MA
    BY <1>1, <1>3, <1>4, <2>1
  <2>2. CASE A[i].type # MA
    BY <1>1, <1>2, <2>2, AttrKinds
  <2> QED BY <2>1, <2>2
<1>8. \A i, j \in DOMAIN B : B[i].type = B[j].type /\ B[i].type \in IdTypes => i = j
  BY <1>1, <1>6 DEF WellFormed
<1>9. Telling(B)
  BY <1>5, <1>7, <1>8 DEF Telling
<1> QED BY <1>9 DEF B, v

\* The subscriber Lookup finds is one the request names, by session if it names
\* a session of the pool; it finds none only if the request names none.
LEMMA LookupRight ==
  ASSUME NEW B, Telling(B)
  PROVE  LET Has(x)    == \E i \in DOMAIN B : B[i].value = x
             BySession == {s \in DOMAIN TheNames : Has(SessionID(s))}
             ByName    == {s \in DOMAIN TheNames : Has(TheNames[s])}
             ByAddress == {s \in DOMAIN TheNames : Has(FramedIP(s))}
             target    == Lookup(TheNames, B)
         IN  IF target # NoSubscriber
             THEN /\ target \in BySession \cup ByName \cup ByAddress
                  /\ BySession # {} => target \in BySession
                  /\ BySession = {} /\ ByName # {} => target \in ByName
             ELSE BySession \cup ByName \cup ByAddress = {}
<1> DEFINE Has(x)    == \E i \in DOMAIN B : B[i].value = x
           BySession == {s \in DOMAIN TheNames : Has(SessionID(s))}
           ByName    == {s \in DOMAIN TheNames : Has(TheNames[s])}
           ByAddress == {s \in DOMAIN TheNames : Has(FramedIP(s))}
           sid == LookupBySessionID(TheNames, Get(B, "Acct-Session-Id"))
           uid == LookupByUsername(TheNames, Get(B, "User-Name"))
           aid == LookupByFramedIP(TheNames, Get(B, "Framed-IP-Address"))
<1>0. \A s \in DOMAIN TheNames : s # NoSubscriber /\ \E t : TheNames[s] = Text(t)
  BY NamesDomain
<1>1. ASSUME NEW type \in IdTypes, NEW i \in DOMAIN B, B[i].type = type
      PROVE  Get(B, type) = B[i].value
  BY <1>1, FirstOfOnly DEF Telling
<1>2. ASSUME NEW type, Get(B, type) # Absent PROVE Has(Get(B, type))
  <2>1. FirstOf(B, type) # 0 /\ Get(B, type) = B[FirstOf(B, type)].value
    BY <1>2 DEF Get
  <2>2. \E i \in DOMAIN B : B[i].type = type
    BY <2>1 DEF FirstOf
  <2>3. PICK S : B \in Seq(S)
    BY DEF Telling
  <2>4. PICK n \in Nat : DOMAIN B = 1 .. n
    BY <2>3
  <2>5. FirstOf(B, type) \in DOMAIN B
    <3> DEFINE T == {i \in DOMAIN B : B[i].type = type}
    <3>1. T \in SUBSET Nat /\ T # {}
      BY <2>2, <2>4
    <3>2. \E m \in T : \A k \in T : m <= k
      <4> HIDE DEF T
      <4> QED BY <3>1, LeastNatural
    <3> QED BY <2>2, <3>2 DEF FirstOf
  <2> QED BY <2>1, <2>5
<1>3. ASSUME NEW s \in BySession PROVE sid = s
  <2>1. PICK i \in DOMAIN B : B[i].value = SessionID(s)
    OBVIOUS
  <2>2. Get(B, "Acct-Session-Id") = SessionID(s)
    BY <1>1, <2>1 DEF Telling, IdTypes
  <2> QED BY <2>2 DEF LookupBySessionID, SessionID
<1>4. ASSUME sid # NoSubscriber PROVE sid \in BySession
  <2>1. /\ sid \in DOMAIN TheNames
        /\ Get(B, "Acct-Session-Id") = SessionID(sid)
    BY <1>4 DEF LookupBySessionID
  <2>2. SessionID(sid) # Absent
    BY DEF SessionID, Absent
  <2> QED BY <1>2, <2>1, <2>2
<1>5. ASSUME NEW s \in ByName PROVE uid # NoSubscriber
  <2>1. PICK i \in DOMAIN B : B[i].value = TheNames[s]
    OBVIOUS
  <2>2. Get(B, "User-Name") = TheNames[s]
    <3>1. \E t : B[i].value = Text(t)
      BY <1>0, <2>1
    <3>2. B[i].type = "User-Name"
      BY <3>1 DEF Telling
    <3> QED BY <1>1, <2>1, <3>2 DEF IdTypes
  <2> QED BY <1>0, <2>2, LastNamed
<1>6. ASSUME uid # NoSubscriber PROVE uid \in ByName
  <2>1. uid \in DOMAIN TheNames /\ TheNames[uid] = Get(B, "User-Name")
    BY <1>6, LastNamed DEF LookupByUsername
  <2>2. TheNames[uid] # Absent
    BY <1>0, <2>1 DEF Text, Absent
  <2> QED BY <1>2, <2>1, <2>2
<1>7. ASSUME NEW s \in ByAddress PROVE aid # NoSubscriber
  <2>1. PICK i \in DOMAIN B : B[i].value = FramedIP(s)
    OBVIOUS
  <2>2. Get(B, "Framed-IP-Address") = FramedIP(s)
    BY <1>1, <2>1 DEF Telling, IdTypes
  <2>3. aid \in DOMAIN TheNames
    BY <2>2, LastAddressed
  <2> QED BY <1>0, <2>3
<1>8. ASSUME aid # NoSubscriber PROVE aid \in ByAddress
  <2>1. aid \in DOMAIN TheNames /\ Get(B, "Framed-IP-Address") = FramedIP(aid)
    BY <1>8, LastAddressed DEF LookupByFramedIP
  <2>2. FramedIP(aid) # Absent
    BY DEF FramedIP, Absent
  <2> QED BY <1>2, <2>1, <2>2
<1>9. \A s \in BySession \cup ByName \cup ByAddress : s # NoSubscriber
  BY <1>0
<1> HIDE DEF sid, uid, aid, BySession, ByName, ByAddress
<1>10. Lookup(TheNames, B) = IF sid # NoSubscriber THEN sid ELSE IF uid # NoSubscriber THEN uid ELSE aid
  BY DEF Lookup, sid, uid, aid
<1>11. LET target == Lookup(TheNames, B)
       IN  IF target # NoSubscriber
           THEN /\ target \in BySession \cup ByName \cup ByAddress
                /\ BySession # {} => target \in BySession
                /\ BySession = {} /\ ByName # {} => target \in ByName
           ELSE BySession \cup ByName \cup ByAddress = {}
  BY <1>3, <1>4, <1>5, <1>6, <1>7, <1>8, <1>9, <1>10
<1> QED BY <1>11 DEF BySession, ByName, ByAddress

-----------------------------------------------------------------------------
(* The reply.                                                              *)

LEMMA ReplyAttrs ==
  ASSUME NEW n, NEW attrs \in {<<>>, <<Attr("Error-Cause", Cause(n))>>}
  PROVE  LET R == Append(attrs, Attr(MA, Zero16)) IN
         /\ OneMA(R) /\ maAttrIndex(R) # 0
         /\ attrs # <<>> => R = <<Attr("Error-Cause", Cause(n)), Attr(MA, Zero16)>>
<1> DEFINE R == Append(attrs, Attr(MA, Zero16))
           S == {Attr("Error-Cause", Cause(n)), Attr(MA, Zero16)}
<1>0. Attr("Error-Cause", Cause(n)).type # MA /\ Attr(MA, Zero16).type = MA
  BY DEF Attr, MA
<1>1. CASE attrs = <<>>
  <2>1. R = <<Attr(MA, Zero16)>>
    BY <1>1
  <2>2. R \in Seq(S) /\ DOMAIN R = {1} /\ R[1] = Attr(MA, Zero16)
    BY <2>1
  <2>3. OneMA(R)
    BY <2>2 DEF OneMA
  <2> QED BY <1>0, <1>1, <2>2, <2>3, Replaced
<1>2. CASE attrs = <<Attr("Error-Cause", Cause(n))>>
  <2>1. R = <<Attr("Error-Cause", Cause(n)), Attr(MA, Zero16)>>
    <3>1. ASSUME NEW a, NEW b PROVE Append(<<a>>, b) = <<a, b>>
      <4>1. <<a>> \in Seq({a, b}) /\ <<a, b>> \in Seq({a, b}) /\ b \in {a, b}
        OBVIOUS
      <4>2. Append(<<a>>, b) \in Seq({a, b}) /\ Len(Append(<<a>>, b)) = 2
        BY <4>1, AppendProperties
      <4>3. \A i \in 1 .. 2 : Append(<<a>>, b)[i] = <<a, b>>[i]
        BY <4>1, AppendProperties
      <4> QED BY <4>1, <4>2, <4>3, SeqEqual
    <3> QED BY <1>2, <3>1
  <2>2. /\ R \in Seq(S) /\ DOMAIN R = {1, 2}
        /\ R[1] = Attr("Error-Cause", Cause(n)) /\ R[2] = Attr(MA, Zero16)
    BY <2>1
  <2>3. OneMA(R)
    BY <1>0, <2>2 DEF OneMA
  <2> QED BY <1>0, <2>1, <2>2, <2>3, Replaced
<1> QED BY <1>1, <1>2

Reply(code, w, attrs) == Encode(newDynAuthReply(code, Decode(w, Secret), attrs, Secret))
BoundTo(w, rep) ==
  /\ rep.id = w.id
  /\ ValidateMessageAuthenticator(Decode(rep, Secret), rep, Secret)
  /\ rep.auth.md5[3] = w.auth /\ rep.auth.md5[5] = Secret

\* A reply is bound to its request, and its Message-Authenticator validates.
LEMMA ReplyBound ==
  ASSUME NEW w, NEW code, IsResponse(code), NEW n,
         NEW attrs, attrs = <<>> \/ attrs = <<Attr("Error-Cause", Cause(n))>>
  PROVE  /\ BoundTo(w, Reply(code, w, attrs)) /\ Reply(code, w, attrs).code = code
         /\ attrs # <<>> => Get(Reply(code, w, attrs).attrs, "Error-Cause") = Cause(n)
<1> DEFINE R == Append(attrs, Attr(MA, Zero16))
           a == ComputeResponseAuthenticator(code, w.id, w.auth, R, Secret)
           v == Seal(code, w.id, a, R, Secret)
           B == WithMA(R, v)
           rep == Encode(newDynAuthReply(code, Decode(w, Secret), attrs, Secret))
<1>1. /\ OneMA(R) /\ maAttrIndex(R) # 0
      /\ attrs # <<>> => R = <<Attr("Error-Cause", Cause(n)), Attr(MA, Zero16)>>
  BY ReplyAttrs
<1>2. newDynAuthReply(code, Decode(w, Secret), attrs, Secret) =
        [code |-> code, id |-> w.id, auth |-> Zero16, requestAuth |-> w.auth,
         attrs |-> R, secret |-> Secret]
  BY DEF newDynAuthReply, Decode
<1>3. code # "Access-Request"
  BY DEF IsResponse
<1> HIDE DEF R
<1>4. rep = Sealed(code, w.id, a, R, Secret)
  BY <1>1, <1>2, <1>3, EncodeSeals
<1>5. rep = Frame(code, w.id, a, B)
  BY <1>4 DEF Sealed
<1>6. ValidateMessageAuthenticator(Decode(rep, Secret), rep, Secret)
  <2> HIDE DEF a, rep
  <2> QED BY <1>1, <1>4, SealChecks
<1>7. /\ WithMA(B, Zero16) = R /\ DOMAIN B = DOMAIN R /\ (\E S : B \in Seq(S))
      /\ \A i \in DOMAIN R : B[i] = IF R[i].type = MA THEN Attr(MA, v) ELSE R[i]
      /\ \A i \in DOMAIN R : B[i].type = R[i].type
  <2> HIDE DEF v
  <2> QED BY <1>1, Replaced
<1> HIDE DEF a, B, v, rep
<1>8. /\ rep.code = code /\ rep.id = w.id /\ rep.auth = a /\ rep.attrs = B
  BY <1>5 DEF Frame
<1>9. a.md5 = <<code, w.id, w.auth, R, Secret>>
  BY DEF a, ComputeResponseAuthenticator
<1>10. rep.auth.md5[3] = w.auth /\ rep.auth.md5[5] = Secret
  BY <1>8, <1>9
<1>11. ASSUME attrs # <<>> PROVE Get(rep.attrs, "Error-Cause") = Cause(n)
  <2>1. /\ DOMAIN R = {1, 2} /\ R[1].type = "Error-Cause" /\ R[1].value = Cause(n)
        /\ R[2].type = MA /\ R[1].type # MA
    BY <1>1, <1>11 DEF Attr, MA
  <2>2. B[1] = R[1] /\ B[2].type = MA /\ MA # "Error-Cause"
    BY <1>7, <2>1 DEF MA
  <2>3. PICK S : B \in Seq(S)
    BY <1>7
  <2>4. Get(B, "Error-Cause") = B[1].value
    BY <1>7, <2>1, <2>2, <2>3, FirstOfOnly
  <2> QED BY <1>8, <2>1, <2>2, <2>4
<1>12. BoundTo(w, rep)
  BY <1>6, <1>8, <1>10 DEF BoundTo
<1> QED BY <1>8, <1>11, <1>12 DEF rep, Reply

-----------------------------------------------------------------------------
(* The requests.                                                           *)

Types(A) == {A[i].type : i \in DOMAIN A}

LEMMA ConcatWellFormed ==
  ASSUME NEW A, WellFormed(A), NEW B, WellFormed(B),
         Types(A) \cap Types(B) \subseteq {"Vendor-Specific"}
  PROVE  WellFormed(A \o B) /\ Types(A \o B) \subseteq Types(A) \cup Types(B)
<1> DEFINE C == A \o B
<1>1. A \in Seq(AllAttrs) /\ B \in Seq(AllAttrs)
  BY DEF WellFormed
<1>2. PICK m \in Nat : m = Len(A) /\ DOMAIN A = 1 .. m
  BY <1>1
<1>3. PICK n \in Nat : n = Len(B) /\ DOMAIN B = 1 .. n
  BY <1>1
<1>4. /\ C \in Seq(AllAttrs) /\ DOMAIN C = 1 .. m + n
      /\ \A i \in 1 .. m + n : C[i] = IF i <= m THEN A[i] ELSE B[i - m]
  BY <1>1, <1>2, <1>3, ConcatProperties
<1> HIDE DEF C
<1>5. ASSUME NEW i \in DOMAIN C
      PROVE  \/ i \in DOMAIN A /\ C[i] = A[i]
             \/ i - m \in DOMAIN B /\ C[i] = B[i - m] /\ i > m
  BY <1>2, <1>3, <1>4
<1>6. \A i \in DOMAIN C : i \in Nat
  BY <1>4
<1>7. ASSUME NEW i \in DOMAIN C, NEW j \in DOMAIN C, C[i].type = C[j].type,
             C[i].type # "Vendor-Specific"
      PROVE  i = j
  <2>1. CASE i \in DOMAIN A /\ C[i] = A[i] /\ j \in DOMAIN A /\ C[j] = A[j]
    BY <1>7, <2>1 DEF WellFormed
  <2>2. CASE i - m \in DOMAIN B /\ C[i] = B[i - m] /\ j - m \in DOMAIN B /\ C[j] = B[j - m]
    <3>1. i - m = j - m
      BY <1>7, <2>2 DEF WellFormed
    <3> QED BY <1>6, <3>1
  <2>3. CASE i \in DOMAIN A /\ C[i] = A[i] /\ j - m \in DOMAIN B /\ C[j] = B[j - m]
    BY <1>7, <2>3 DEF Types
  <2>4. CASE i - m \in DOMAIN B /\ C[i] = B[i - m] /\ j \in DOMAIN A /\ C[j] = A[j]
    BY <1>7, <2>4 DEF Types
  <2> QED BY <1>5, <2>1, <2>2, <2>3, <2>4
<1>8. WellFormed(C)
  BY <1>4, <1>7 DEF WellFormed
<1>9. Types(C) \subseteq Types(A) \cup Types(B)
  BY <1>5 DEF Types
<1> QED BY <1>8, <1>9 DEF C

\* Sequences of none, one and two attributes.
LEMMA ShortWellFormed ==
  ASSUME NEW a \in AllAttrs, NEW b \in AllAttrs,
         a.type # b.type \/ a.type = "Vendor-Specific"
  PROVE  /\ WellFormed(<<>>) /\ Types(<<>>) = {}
         /\ WellFormed(<<a>>) /\ Types(<<a>>) = {a.type}
         /\ WellFormed(<<a, b>>) /\ Types(<<a, b>>) = {a.type, b.type}
<1>1. WellFormed(<<>>) /\ Types(<<>>) = {}
  BY DEF WellFormed, Types
<1>2. WellFormed(<<a>>) /\ Types(<<a>>) = {a.type}
  <2>1. <<a>> \in Seq(AllAttrs) /\ DOMAIN <<a>> = {1} /\ <<a>>[1] = a
    OBVIOUS
  <2> DEFINE s == <<a>>
  <2> HIDE DEF s
  <2>2. s \in Seq(AllAttrs) /\ DOMAIN s = {1} /\ s[1] = a
    BY <2>1 DEF s
  <2>3. WellFormed(s) /\ Types(s) = {a.type}
    BY <2>2 DEF WellFormed, Types
  <2> QED BY <2>3 DEF s
<1>3. WellFormed(<<a, b>>) /\ Types(<<a, b>>) = {a.type, b.type}
  <2> DEFINE s == <<a, b>>
  <2>1. s \in Seq(AllAttrs) /\ DOMAIN s = {1, 2} /\ s[1] = a /\ s[2] = b
    OBVIOUS
  <2> HIDE DEF s
  <2>2. WellFormed(s)
    BY <2>1 DEF WellFormed
  <2>3. Types(s) = {a.type, b.type}
    BY <2>1 DEF Types
  <2> QED BY <2>2, <2>3 DEF s
<1> QED BY <1>1, <1>2, <1>3

\* Whatever a peer puts together is well formed.
LEMMA InputsWellFormed ==
  ASSUME NEW who \in Identities, NEW vendor \in Vendor,
         NEW ma \in {<<>>, <<Attr(MA, Zero16)>>}
  PROVE  WellFormed(who \o vendor \o ma)
<1>0. /\ Self \in Int /\ Count \in Int /\ Count - 1 \in Int
      /\ TheNames[Self] \in UserNames /\ TheNames[Count - 1] \in UserNames
  BY SelfAssumption, NamesDomain DEF TheNames, UserNames
<1>1. /\ \A i \in Int : Attr("Acct-Session-Id", SessionID(i)) \in AllAttrs
      /\ \A u \in UserNames : Attr("User-Name", u) \in AllAttrs
      /\ \A i \in Int : Attr("Framed-IP-Address", FramedIP(i)) \in AllAttrs
      /\ VSA(TRUE) \in AllAttrs /\ VSA(FALSE) \in AllAttrs /\ Attr(MA, Zero16) \in AllAttrs
  BY DEF AllAttrs
<1>2. \A type, x : Attr(type, x).type = type
  BY DEF Attr
<1>3. WellFormed(who) /\ Types(who) \subseteq IdTypes
  <2>1. ASSUME NEW a \in AllAttrs, a.type \in IdTypes
        PROVE  WellFormed(<<a>>) /\ Types(<<a>>) \subseteq IdTypes
    <3>1. Attr(MA, Zero16).type = MA /\ MA \notin IdTypes
      BY <1>2 DEF MA, IdTypes
    <3> QED BY <1>1, <2>1, <3>1, ShortWellFormed
  <2>2. ASSUME NEW a \in AllAttrs, a.type \in IdTypes, NEW b \in AllAttrs, b.type \in IdTypes,
               a.type # b.type
        PROVE  WellFormed(<<a, b>>) /\ Types(<<a, b>>) \subseteq IdTypes
    <3>1. WellFormed(<<a, b>>) /\ Types(<<a, b>>) = {a.type, b.type}
      BY <2>2, ShortWellFormed
    <3> QED BY <2>2, <3>1
  <2>3. WellFormed(<<>>) /\ Types(<<>>) = {}
    BY DEF WellFormed, Types
  <2>4. \E a \in AllAttrs, b \in AllAttrs :
          /\ a.type \in IdTypes /\ b.type \in IdTypes /\ a.type # b.type
          /\ who \in {<<>>, <<a>>, <<a, b>>}
    <3> DEFINE S(i) == Attr("Acct-Session-Id", SessionID(i))
               U(s) == Attr("User-Name", s)
               F(i) == Attr("Framed-IP-Address", FramedIP(i))
    <3>1. /\ \A i \in Int : S(i) \in AllAttrs /\ F(i) \in AllAttrs
          /\ \A s \in UserNames : U(s) \in AllAttrs
      BY <1>1
    <3>2. \A x : /\ S(x).type = "Acct-Session-Id" /\ F(x).type = "Framed-IP-Address"
                 /\ U(x).type = "User-Name"
      BY <1>2
    <3>3. \A x, y : /\ S(x).type \in IdTypes /\ F(x).type \in IdTypes /\ U(y).type \in IdTypes
                    /\ S(x).type # U(y).type /\ F(x).type # U(y).type
      <4> HIDE DEF S, F, U
      <4> QED BY <3>2 DEF IdTypes
    <3>4. Stranger \in UserNames
      BY DEF UserNames
    <3>5. \/ \E i \in Int : who = <<S(i)>>
          \/ \E s \in UserNames : who = <<U(s)>>
          \/ \E i \in Int, s \in UserNames : who = <<F(i), U(s)>>
          \/ \E i \in Int, s \in UserNames : who = <<S(i), U(s)>>
          \/ who = <<>>
      BY <1>0, <3>4 DEF Identities
    <3>6. Stranger \in UserNames /\ 0 \in Int
      BY <3>4
    <3> HIDE DEF S, F, U
    <3> QED BY <3>1, <3>3, <3>5, <3>6
  <2> QED BY <2>1, <2>2, <2>3, <2>4
<1>4. WellFormed(vendor) /\ Types(vendor) \subseteq {"Vendor-Specific"}
  <2>1. VSA(TRUE).type = "Vendor-Specific" /\ VSA(FALSE).type = "Vendor-Specific"
    BY <1>2 DEF VSA
  <2>2. ASSUME NEW a \in AllAttrs, NEW b \in AllAttrs, a.type = "Vendor-Specific",
               b.type = "Vendor-Specific", vendor \in {<<>>, <<a>>, <<a, b>>}
        PROVE  WellFormed(vendor) /\ Types(vendor) \subseteq {"Vendor-Specific"}
    <3>1. /\ WellFormed(<<>>) /\ Types(<<>>) = {}
          /\ WellFormed(<<a>>) /\ Types(<<a>>) = {a.type}
          /\ WellFormed(<<a, b>>) /\ Types(<<a, b>>) = {a.type, b.type}
      BY <2>2, ShortWellFormed
    <3> QED BY <2>2, <3>1
  <2>3. vendor \in {<<>>, <<VSA(TRUE)>>, <<VSA(TRUE), VSA(FALSE)>>}
    BY DEF Vendor
  <2> QED BY <1>1, <2>1, <2>2, <2>3
<1>5. WellFormed(ma) /\ Types(ma) \subseteq {MA}
  <2>1. Attr(MA, Zero16).type # VSA(TRUE).type
    BY <1>2 DEF VSA, MA
  <2> QED BY <1>1, <1>2, <2>1, ShortWellFormed
<1>6. MA \notin IdTypes /\ "Vendor-Specific" \notin IdTypes /\ MA # "Vendor-Specific"
  BY DEF MA, IdTypes
<1>7. WellFormed(who \o vendor) /\ Types(who \o vendor) \subseteq IdTypes \cup {"Vendor-Specific"}
  BY <1>3, <1>4, <1>6, ConcatWellFormed
<1>8. Types(who \o vendor) \cap Types(ma) \subseteq {"Vendor-Specific"}
  BY <1>5, <1>6, <1>7
<1> QED BY <1>5, <1>7, <1>8, ConcatWellFormed

RequestCodes == {"CoA-Request", "Disconnect-Request"}

LEMMA RequestSealed ==
  ASSUME NEW p, NEW code \in RequestCodes, NEW A, OneMA(A), NEW secret
  PROVE  Request(p, code, A, secret)
         = Sealed(code, p, ComputeRequestAuthenticator(code, p, A, secret), A, secret)
<1>1. code # "Access-Request" /\ ~IsResponse(code)
  BY DEF IsResponse, RequestCodes
<1> QED BY <1>1, EncodeSeals DEF Request

\* An authenticated request, whatever handler its code selects: Refused for the
\* NAK, Granted for the ACK.
Outcome(w, ackCode, nakCode) ==
  LET target == Lookup(TheNames, w.attrs)
      Nak(n) == [verdict |-> "nak", target |-> NoSubscriber,
                 reply |-> Reply(nakCode, w, <<Attr("Error-Cause", Cause(n))>>)]
  IN  IF vsaErr(w.attrs) THEN Nak(401)
      ELSE IF target = NoSubscriber THEN Nak(503)
      ELSE [verdict |-> "ack", target |-> target, reply |-> Reply(ackCode, w, <<>>)]

LEMMA Outcomes ==
  ASSUME NEW w, w.framed
  PROVE  LET ok == ValidateMessageAuthenticator(Decode(w, Secret), w, Secret) IN
         /\ w.code = "CoA-Request" =>
              handlePacket(w) = IF ok THEN Outcome(w, "CoA-ACK", "CoA-NAK") ELSE dropPacket
         /\ w.code = "Disconnect-Request" =>
              handlePacket(w) =
                IF ok THEN Outcome(w, "Disconnect-ACK", "Disconnect-NAK") ELSE dropPacket
         /\ w.code \notin RequestCodes => handlePacket(w) = dropPacket
<1>1. Decode(w, Secret).code = w.code /\ Decode(w, Secret).attrs = w.attrs
  BY DEF Decode
<1>2. "CoA-Request" # "Disconnect-Request"
  OBVIOUS
<1>3. ASSUME w.code = "CoA-Request"
      PROVE  handlePacket(w) = handleCoA(Decode(w, Secret), w)
  BY <1>1, <1>3 DEF handlePacket
<1>4. ASSUME w.code = "Disconnect-Request"
      PROVE  handlePacket(w) = handleDisconnect(Decode(w, Secret), w)
  BY <1>1, <1>2, <1>4 DEF handlePacket
<1>5. ASSUME w.code \notin RequestCodes PROVE handlePacket(w) = dropPacket
  BY <1>1, <1>5 DEF handlePacket, RequestCodes
<1> DEFINE ok == ValidateMessageAuthenticator(Decode(w, Secret), w, Secret)
<1> HIDE DEF ok
<1>6. handleCoA(Decode(w, Secret), w)
        = IF ok THEN Outcome(w, "CoA-ACK", "CoA-NAK") ELSE dropPacket
  BY <1>1 DEF handleCoA, Outcome, respondCoANak, Ack, newDynAuthAck, newDynAuthNak, Reply, ok
<1>7. handleDisconnect(Decode(w, Secret), w)
        = IF ok THEN Outcome(w, "Disconnect-ACK", "Disconnect-NAK") ELSE dropPacket
  BY <1>1 DEF handleDisconnect, Outcome, respondDisconnectNak, Ack, newDynAuthAck,
              newDynAuthNak, Reply, ok
<1> QED BY <1>3, <1>4, <1>5, <1>6, <1>7 DEF ok

\* What the handler of an authenticated request comes to answers the request.
LEMMA OutcomeAnswers ==
  ASSUME NEW w, Telling(w.attrs), NEW ackCode, NEW nakCode,
         \/ w.code = "CoA-Request" /\ ackCode = "CoA-ACK" /\ nakCode = "CoA-NAK"
         \/ w.code = "Disconnect-Request" /\ ackCode = "Disconnect-ACK"
              /\ nakCode = "Disconnect-NAK"
  PROVE  Answered(w, Outcome(w, ackCode, nakCode))
<1> DEFINE h == Outcome(w, ackCode, nakCode)
           target == Lookup(TheNames, w.attrs)
           BySession == {s \in DOMAIN TheNames : Carries(w, SessionID(s))}
           ByName == {s \in DOMAIN TheNames : Carries(w, TheNames[s])}
           ByAddress == {s \in DOMAIN TheNames : Carries(w, FramedIP(s))}
           Known == BySession \cup ByName \cup ByAddress
           Granted == /\ <<w.code, h.reply.code>> \in {<<"CoA-Request", "CoA-ACK">>,
                                          <<"Disconnect-Request", "Disconnect-ACK">>}
                      /\ ~Carries(w, [vsa |-> FALSE])
                      /\ h.target \in Known
                      /\ BySession # {} => h.target \in BySession
                      /\ BySession = {} /\ ByName # {} => h.target \in ByName
           Refused == /\ <<w.code, h.reply.code>> \in {<<"CoA-Request", "CoA-NAK">>,
                                          <<"Disconnect-Request", "Disconnect-NAK">>}
                      /\ IF Carries(w, [vsa |-> FALSE])
                         THEN Get(h.reply.attrs, "Error-Cause") = Cause(401)
                         ELSE Known = {} /\ Get(h.reply.attrs, "Error-Cause") = Cause(503)
<1>1. vsaErr(w.attrs) <=> Carries(w, [vsa |-> FALSE])
  BY DEF Telling, vsaErr, Carries
<1>2. IF target # NoSubscriber
      THEN /\ target \in Known /\ (BySession # {} => target \in BySession)
           /\ BySession = {} /\ ByName # {} => target \in ByName
      ELSE Known = {}
  BY LookupRight DEF Carries
<1>3. IsResponse(ackCode) /\ IsResponse(nakCode)
  BY DEF IsResponse
<1>4. /\ BoundTo(w, Reply(ackCode, w, <<>>)) /\ Reply(ackCode, w, <<>>).code = ackCode
      /\ \A n : LET rep == Reply(nakCode, w, <<Attr("Error-Cause", Cause(n))>>) IN
                /\ BoundTo(w, rep) /\ rep.code = nakCode
                /\ Get(rep.attrs, "Error-Cause") = Cause(n)
  <2>1. BoundTo(w, Reply(ackCode, w, <<>>)) /\ Reply(ackCode, w, <<>>).code = ackCode
    BY <1>3, ReplyBound
  <2>2. ASSUME NEW n
        PROVE  LET rep == Reply(nakCode, w, <<Attr("Error-Cause", Cause(n))>>) IN
               /\ BoundTo(w, rep) /\ rep.code = nakCode
               /\ Get(rep.attrs, "Error-Cause") = Cause(n)
    <3>1. PICK attrs : attrs = <<Attr("Error-Cause", Cause(n))>>
      OBVIOUS
    <3>2. attrs # <<>>
      BY <3>1
    <3>3. /\ BoundTo(w, Reply(nakCode, w, attrs)) /\ Reply(nakCode, w, attrs).code = nakCode
          /\ attrs # <<>> => Get(Reply(nakCode, w, attrs).attrs, "Error-Cause") = Cause(n)
      BY <1>3, <3>1, ReplyBound
    <3> QED BY <3>1, <3>2, <3>3
  <2> QED BY <2>1, <2>2
<1> DEFINE nak(n) == Reply(nakCode, w, <<Attr("Error-Cause", Cause(n))>>)
<1>5. \/ /\ vsaErr(w.attrs) /\ h.verdict = "nak" /\ h.reply = nak(401)
      \/ /\ ~vsaErr(w.attrs) /\ target = NoSubscriber /\ h.verdict = "nak" /\ h.reply = nak(503)
      \/ /\ ~vsaErr(w.attrs) /\ target # NoSubscriber /\ h.verdict = "ack"
         /\ h.target = target /\ h.reply = Reply(ackCode, w, <<>>)
  <2> HIDE DEF target, nak
  <2> QED BY DEF Outcome, target, nak
<1> HIDE DEF h, target, nak, BySession, ByName, Known
<1>6. BoundTo(w, h.reply)
  BY <1>4, <1>5 DEF nak
<1>7. IF h.verdict = "ack" THEN Granted ELSE Refused
  <2>1. CASE vsaErr(w.attrs)
    BY <1>1, <1>4, <1>5, <2>1 DEF nak
  <2>2. CASE ~vsaErr(w.attrs) /\ target = NoSubscriber
    BY <1>1, <1>2, <1>4, <1>5, <2>2 DEF nak
  <2>3. CASE ~vsaErr(w.attrs) /\ target # NoSubscriber
    BY <1>1, <1>2, <1>4, <1>5, <2>3
  <2> QED BY <2>1, <2>2, <2>3
<1>8. Answered(w, h)
  BY <1>6, <1>7 DEF Answered, BoundTo, BySession, ByName, Known
<1> QED BY <1>8 DEF h

\* A request as Encode made it, and what a peer or the network makes of it.
LEMMA VariantsHandled ==
  ASSUME NEW p \in Datagrams, NEW A, WellFormed(A), NEW secret
  PROVE  LET w == Request(p, RequestCode(p), A, secret) IN
         /\ HandledRight(p, w)
         /\ HandledRight(p, [w EXCEPT !.pad = TRUE])
         /\ HandledRight(p, [w EXCEPT !.framed = FALSE])
         /\ HandledRight(p, [w EXCEPT !.code = "Access-Request"])
<1> DEFINE code == RequestCode(p)
           a == ComputeRequestAuthenticator(code, p, A, secret)
           v == Seal(code, p, a, A, secret)
           B == WithMA(A, v)
           w == Request(p, code, A, secret)
<1>1. code \in RequestCodes /\ OneMA(A)
  BY WellFormedHasOneMA DEF RequestCode, RequestCodes
<1>2. w = Sealed(code, p, a, A, secret)
  BY <1>1, RequestSealed
<1>3. w = Frame(code, p, a, B)
  BY <1>2 DEF Sealed
<1>4. Telling(B)
  BY SealedTells
<1>5. /\ DOMAIN B = DOMAIN A
      /\ \A i \in DOMAIN A : B[i] = IF A[i].type = MA THEN Attr(MA, v) ELSE A[i]
      /\ (\E i \in DOMAIN A : A[i].type = MA) <=> maAttrIndex(A) # 0
      /\ \A i \in DOMAIN A : B[i].type = A[i].type
  <2> HIDE DEF v
  <2> QED BY <1>1, Replaced
<1>6. v.key = secret /\ \A x : Attr(MA, x).value = x /\ Attr(MA, x).type = MA
  BY DEF Seal, Attr
<1> HIDE DEF code, a, v, B, w
<1>7. (\E i \in DOMAIN B : B[i].type = MA /\ B[i].value.key = Secret)
        <=> maAttrIndex(A) # 0 /\ secret = Secret
  BY <1>5, <1>6
<1>8. ValidateMessageAuthenticator(Decode(w, Secret), w, Secret)
        <=> maAttrIndex(A) # 0 /\ secret = Secret
  BY <1>1, <1>2, SealChecks
<1>9. w.framed /\ ~w.pad /\ w.code = code /\ w.attrs = B
  BY <1>3 DEF Frame
<1>10. HandledRight(p, w)
  <2>1. CASE maAttrIndex(A) # 0 /\ secret = Secret
    <3>1. Answered(w, handlePacket(w))
      <4>1. CASE code = "CoA-Request"
        <5>1. handlePacket(w) = Outcome(w, "CoA-ACK", "CoA-NAK")
          BY <1>8, <1>9, <2>1, <4>1, Outcomes
        <5> QED BY <1>4, <1>9, <4>1, <5>1, OutcomeAnswers
      <4>2. CASE code = "Disconnect-Request"
        <5>1. handlePacket(w) = Outcome(w, "Disconnect-ACK", "Disconnect-NAK")
          BY <1>8, <1>9, <2>1, <4>2, Outcomes
        <5> QED BY <1>4, <1>9, <4>2, <5>1, OutcomeAnswers
      <4> QED BY <1>1, <4>1, <4>2 DEF RequestCodes
    <3> QED BY <1>7, <1>9, <2>1, <3>1 DEF HandledRight, code
  <2>2. CASE ~(maAttrIndex(A) # 0 /\ secret = Secret)
    <3>1. handlePacket(w) = dropPacket
      BY <1>1, <1>8, <1>9, <2>2, Outcomes DEF RequestCodes
    <3> QED BY <1>7, <1>9, <2>2, <3>1 DEF HandledRight
  <2> QED BY <2>1, <2>2
<1>11. ASSUME NEW x, x = [w EXCEPT !.pad = TRUE] PROVE HandledRight(p, x)
  <2>1. x.framed /\ x.pad /\ x.code = code
    BY <1>3, <1>11 DEF Frame
  <2>2. ~ValidateMessageAuthenticator(Decode(x, Secret), x, Secret)
    BY <1>1, <1>2, <1>11, PaddingBreaksSeal
  <2>3. handlePacket(x) = dropPacket
    BY <1>1, <2>1, <2>2, Outcomes DEF RequestCodes
  <2> QED BY <2>1, <2>3 DEF HandledRight
<1>12. ASSUME NEW x, x = [w EXCEPT !.framed = FALSE] PROVE HandledRight(p, x)
  <2>1. ~x.framed
    BY <1>3, <1>12 DEF Frame
  <2>2. handlePacket(x) = dropPacket
    BY <2>1 DEF handlePacket
  <2> QED BY <2>1, <2>2 DEF HandledRight
<1>13. ASSUME NEW x, x = [w EXCEPT !.code = "Access-Request"] PROVE HandledRight(p, x)
  <2>1. x.framed /\ x.code = "Access-Request"
    BY <1>3, <1>13 DEF Frame
  <2>2. "Access-Request" \notin RequestCodes
    BY DEF RequestCodes
  <2>3. handlePacket(x) = dropPacket
    BY <2>1, <2>2, Outcomes
  <2>4. x.code # RequestCode(p)
    BY <2>1, <2>2, <1>1 DEF code
  <2> QED BY <2>3, <2>4 DEF HandledRight
<1> QED BY <1>10, <1>11, <1>12, <1>13 DEF code, w

LEMMA AllInputsHandled ==
  ASSUME NEW p \in Datagrams
  PROVE  Verdicts[p] = {TRUE}
<1> DEFINE Proper == {Request(p, RequestCode(p), who \o vendor \o ma, secret) :
                        who \in Identities, vendor \in Vendor,
                        ma \in {<<>>, <<Attr(MA, Zero16)>>},
                        secret \in {Secret, Intruder}}
<1>1. ASSUME NEW w \in Proper
      PROVE  /\ HandledRight(p, w)
             /\ HandledRight(p, [w EXCEPT !.pad = TRUE])
             /\ HandledRight(p, [w EXCEPT !.framed = FALSE])
             /\ HandledRight(p, [w EXCEPT !.code = "Access-Request"])
  <2>0. \A who \in Identities, vendor \in Vendor, ma \in {<<>>, <<Attr(MA, Zero16)>>} :
          WellFormed(who \o vendor \o ma)
    <3> HIDE DEF Proper
    <3> QED BY InputsWellFormed, Zenon
  <2>1. PICK who \in Identities, vendor \in Vendor, ma \in {<<>>, <<Attr(MA, Zero16)>>},
             secret \in {Secret, Intruder} :
          w = Request(p, RequestCode(p), who \o vendor \o ma, secret)
    OBVIOUS
  <2> DEFINE A == who \o vendor \o ma
  <2>3. WellFormed(A)
    <3> HIDE DEF Proper
    <3> QED BY <2>0, <2>1, Zenon
  <2>4. w = Request(p, RequestCode(p), A, secret)
    BY <2>1
  <2> HIDE DEF A
  <2> QED BY <2>3, <2>4, VariantsHandled
<1>2. Inputs(p) = Proper \cup {[w EXCEPT !.pad = TRUE] : w \in Proper}
                         \cup {[w EXCEPT !.framed = FALSE] : w \in Proper}
                         \cup {[w EXCEPT !.code = "Access-Request"] : w \in Proper}
  BY DEF Inputs
<1>3. Proper # {}
  <2>1. <<>> \in Identities /\ <<>> \in Vendor
    BY DEF Identities, Vendor
  <2> QED BY <2>1
<1> HIDE DEF Proper
<1>4. \A w \in Inputs(p) : HandledRight(p, w)
  BY <1>1, <1>2
<1>5. Inputs(p) # {}
  BY <1>2, <1>3
<1>6. \A w \in Inputs(p) : HandledRight(p, w) = TRUE
  BY <1>4
<1>7. Verdicts[p] = {HandledRight(p, w) : w \in Inputs(p)}
  BY DEF Verdicts
<1> HIDE DEF Proper
<1> QED BY <1>5, <1>6, <1>7

\* For every pool, subscriber and pair of secrets: a datagram is answered exactly if
\* it is a request sealed with the shared secret, by the reply that is bound to it,
\* and an ACK is for the subscriber the request names.
THEOREM RequestsAnsweredRight == LSpec => []HandlerContract
<1>1. LInv => HandlerContract
  BY AllInputsHandled DEF LInv, LTypeOK, HandlerContract
<1> QED BY LInvariance, <1>1, PTL
=============================================================================
