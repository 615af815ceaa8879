------------------------------- MODULE Radius -------------------------------
(***************************************************************************)
(* pkg/radius: the part of the codec the CoA listener lives on, with       *)
(* symbolic cryptography.  A hash is the term of what was hashed, so two   *)
(* hashes are equal exactly if their inputs are: MD5 and HMAC-MD5 without  *)
(* collisions.  Records with different fields keep the kinds of bytes      *)
(* apart.  Lengths are left out but for framed (the length and attribute   *)
(* checks of Decode) and pad (bytes after the declared length).            *)
(***************************************************************************)
EXTENDS Integers, Sequences

Zero16   == [zero |-> TRUE]          \* sixteen zero bytes
Text(s)  == [text |-> s]             \* a string-valued attribute
Cause(n) == [cause |-> n]            \* a four-byte integer
Absent   == [absent |-> TRUE]

Attr(type, value) == [type |-> type, value |-> value]
MA == "Message-Authenticator"

IsResponse(code) ==
  code \in {"Access-Accept", "Access-Reject", "Access-Challenge",
            "Accounting-Response", "CoA-ACK", "CoA-NAK", "Disconnect-ACK",
            "Disconnect-NAK"}

\* The first attribute of a type; 0 if there is none.
FirstOf(attrs, type) ==
  IF \E i \in DOMAIN attrs : attrs[i].type = type
  THEN CHOOSE i \in DOMAIN attrs :
         /\ attrs[i].type = type
         /\ \A j \in DOMAIN attrs : attrs[j].type = type => i <= j
  ELSE 0

Get(attrs, type) ==
  IF FirstOf(attrs, type) = 0 THEN Absent ELSE attrs[FirstOf(attrs, type)].value

maAttrIndex(attrs) == FirstOf(attrs, MA)

\* The attributes with the value of the first Message-Authenticator replaced.
WithMA(attrs, value) ==
  IF maAttrIndex(attrs) = 0 THEN attrs
  ELSE [attrs EXCEPT ![maAttrIndex(attrs)] = Attr(MA, value)]

ComputeRequestAuthenticator(code, id, attrs, secret) ==
  [md5 |-> <<code, id, Zero16, attrs, secret>>]

ComputeResponseAuthenticator(code, id, requestAuth, attrs, secret) ==
  [md5 |-> <<code, id, requestAuth, attrs, secret>>]

ComputeMessageAuthenticator(wire, secret) == [hmac |-> wire, key |-> secret]

\* Encode: the authenticator first, over the attributes as the caller left
\* them, then the Message-Authenticator over the whole packet.
Encode(p) ==
  LET auth == IF p.code = "Access-Request" THEN p.auth
              ELSE IF IsResponse(p.code)
              THEN ComputeResponseAuthenticator(p.code, p.id, p.requestAuth,
                                                p.attrs, p.secret)
              ELSE ComputeRequestAuthenticator(p.code, p.id, p.attrs, p.secret)
      out  == [framed |-> TRUE, pad |-> FALSE, code |-> p.code, id |-> p.id,
               auth |-> auth, attrs |-> WithMA(p.attrs, Zero16)]
  IN  [out EXCEPT !.attrs =
         WithMA(@, ComputeMessageAuthenticator(out, p.secret))]

\* Decode of a well-framed datagram: structure only, nothing is verified.
Decode(wire, secret) ==
  [code |-> wire.code, id |-> wire.id, auth |-> wire.auth,
   requestAuth |-> Zero16, attrs |-> wire.attrs, secret |-> secret]

\* The HMAC is recomputed over the datagram as received, padding included.
ValidateMessageAuthenticator(p, wire, secret) ==
  /\ maAttrIndex(p.attrs) # 0
  /\ Get(p.attrs, MA) =
       ComputeMessageAuthenticator(
         [wire EXCEPT !.attrs = WithMA(@, Zero16)], secret)

ValidateResponseAuthenticator(p, req, secret, wire) ==
  /\ IsResponse(p.code)
  /\ p.auth = ComputeResponseAuthenticator(p.code, p.id, req.auth, wire.attrs,
                                           secret)

\* DecodeVSAs fails on the payload of some Vendor-Specific attribute.
VSA(framed) == Attr("Vendor-Specific", [vsa |-> framed])
vsaErr(attrs) == \E i \in DOMAIN attrs : attrs[i] = VSA(FALSE)

-----------------------------------------------------------------------------
(* Replies to dynamic-authorization requests: a placeholder for the        *)
(* Message-Authenticator comes last.                                       *)

\* Fault: the request's authenticator is not carried over.
newDynAuthReplyUnbound(code, req, attrs, secret) ==
  [code |-> code, id |-> req.id, auth |-> Zero16, requestAuth |-> Zero16,
   attrs |-> Append(attrs, Attr(MA, Zero16)), secret |-> secret]

newDynAuthReply(code, req, attrs, secret) ==
  [code |-> code, id |-> req.id, auth |-> Zero16, requestAuth |-> req.auth,
   attrs |-> Append(attrs, Attr(MA, Zero16)), secret |-> secret]

newDynAuthAck(code, req, secret) == newDynAuthReply(code, req, <<>>, secret)

newDynAuthNak(code, req, secret, errorCause) ==
  newDynAuthReply(code, req, <<Attr("Error-Cause", Cause(errorCause))>>, secret)
=============================================================================
