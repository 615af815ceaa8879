-------------------------------- MODULE Pool --------------------------------
(***************************************************************************)
(* pkg/subscriber.Pool: the subscribers of a run and the maps by which the *)
(* listener finds the one a request is for.  A pool is immutable once      *)
(* built, a function from subscriber IDs (0 ...) to user names.  Session   *)
(* IDs are made from the ID, so they are the ID here.  A user name is its  *)
(* base and the "+number" suffixes that follow it.                         *)
(***************************************************************************)
EXTENDS Radius

CONSTANT AddressSpace  \* addresses New has for the subscribers: 2^24

ASSUME AddressAssumption == AddressSpace \in Nat \ {0}

NoSubscriber  == -1
SessionID(i)  == [session |-> i]
FramedIP(i)   == [ip |-> i % AddressSpace]

Name(base, plus) == [base |-> base, plus |-> plus]
UserNameType     == [base : STRING, plus : Seq(Nat)]

\* formatRecycledUsername: base+idx, which a name of the file may equal.
Recycled(name, i) == Text([name EXCEPT !.plus = Append(@, i)])

\* NewPool: credentials are reused, with a new name, when they run out.
NewPool(creds, count) ==
  [i \in 0 .. (IF Len(creds) = 0 THEN 0 ELSE count) - 1 |->
     IF i < Len(creds) THEN Text(creds[i + 1])
     ELSE Recycled(creds[(i % Len(creds)) + 1], i)]

LookupBySessionID(pool, s) ==
  IF \E i \in DOMAIN pool : s = SessionID(i)
  THEN CHOOSE i \in DOMAIN pool : s = SessionID(i)
  ELSE NoSubscriber

\* Of two subscribers with one name, the map kept the one added last.
LookupByUsername(pool, u) ==
  IF \E i \in DOMAIN pool : pool[i] = u
  THEN CHOOSE i \in DOMAIN pool :
         pool[i] = u /\ \A j \in DOMAIN pool : pool[j] = u => j <= i
  ELSE NoSubscriber

\* The same for an address.
LookupByFramedIP(pool, ip) ==
  IF \E i \in DOMAIN pool : FramedIP(i) = ip
  THEN CHOOSE i \in DOMAIN pool :
         FramedIP(i) = ip /\ \A j \in DOMAIN pool : FramedIP(j) = ip => j <= i
  ELSE NoSubscriber

\* Lookup: the most specific identifier that matches a subscriber decides.
Lookup(pool, attrs) ==
  LET s == LookupBySessionID(pool, Get(attrs, "Acct-Session-Id"))
      u == LookupByUsername(pool, Get(attrs, "User-Name"))
      a == LookupByFramedIP(pool, Get(attrs, "Framed-IP-Address"))
  IN  IF s # NoSubscriber THEN s ELSE IF u # NoSubscriber THEN u ELSE a
=============================================================================
