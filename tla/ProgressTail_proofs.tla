------------------------ MODULE ProgressTail_proofs ------------------------
(***************************************************************************)
(* Proofs about ProgressTail, for any number of lines and connections and  *)
(* any capacity of the tailer's channel.                                   *)
(***************************************************************************)
EXTENDS ProgressTail, FiniteSetTheorems, SequenceTheorems, TLAPS

\* The browser uses its connections in order, and one it has not used yet has
\* no handler, no tailer and nothing to carry.
Used(k) == \A c \in Conns : conn[c] # "none" <=> c <= k
ConnInv ==
  /\ \E k \in 0 .. MaxConns : Used(k)
  /\ es # 0 => conn[es] # "none"
  /\ \A c \in Conns : conn[c] = "none" =>
       /\ hpc[c] = "none" /\ tpc[c] = "none"
       /\ pos[c] = 0 /\ lineBuf[c] = <<>> /\ out[c] = <<>> /\ sent[c] = <<>>

\* No tailer reads past the end of the file.
PosInv == \A c \in Conns : pos[c] <= size

\* A tailer that has handed over k lines holds nothing, the unfinished next
\* line, or that line complete.
Tailing == {"open", "drain", "wait", "send"}
Holding(c, k) ==
  IF tpc[c] = "send"
  THEN pos[c] = 2 * k + 2 /\ lineBuf[c] = <<2 * k + 1, 2 * k + 2>>
  ELSE \/ pos[c] = 2 * k /\ lineBuf[c] = <<>>
       \/ pos[c] = 2 * k + 1 /\ lineBuf[c] = <<2 * k + 1>>
HoldInv ==
  \A c \in Conns : tpc[c] \in Tailing => \E k \in Nat : Holding(c, k)

\* The way of the lines to a connection that is up: those sent, those in the
\* channel and what the tailer holds follow each other without a gap.
OnlyLines(c) == \A i \in DOMAIN sent[c] : sent[c][i] = Progress(<<Json(i)>>)
Queued(c) ==
  \A i \in DOMAIN out[c] : out[c][i] = <<Json(Len(sent[c]) + i)>>
LineInv ==
  \A c \in Conns :
    conn[c] = "up" /\ hpc[c] = "select" =>
      /\ OnlyLines(c) /\ Queued(c)
      /\ tpc[c] \in Tailing => Holding(c, Len(sent[c]) + Len(out[c]))

-----------------------------------------------------------------------------

LEMMA Parity ==
  ASSUME NEW k \in Nat
  PROVE  /\ (2 * k) \div 2 = k /\ (2 * k + 1) \div 2 = k
         /\ IsNewline(2 * k + 2) /\ ~IsNewline(2 * k + 1) /\ IsNewline(2 * k)
BY DEF IsNewline

\* The bytes up to the next newline, or up to the end of the file.
LEMMA Chunk ==
  ASSUME NEW k \in Nat, size \in Nat
  PROVE  /\ 2 * k <= size => ChunkEnd(2 * k) = IF 2 * k + 2 <= size THEN 2 * k + 2 ELSE size
         /\ 2 * k + 1 <= size =>
              ChunkEnd(2 * k + 1) = IF 2 * k + 2 <= size THEN 2 * k + 2 ELSE size
BY Parity DEF ChunkEnd

\* What is left of a complete line is its text.
LEMMA Trimmed ==
  ASSUME NEW k \in Nat
  PROVE  TrimRight(<<2 * k + 1, 2 * k + 2>>) = <<2 * k + 1>>
<1> DEFINE line == <<2 * k + 1, 2 * k + 2>>
           Text == {0} \cup {i \in DOMAIN line : ~IsNewline(line[i])}
<1>1. Text = {0, 1}
  BY Parity
<1>2. Max(Text) = 1
  <2>1. Max({0, 1}) = 1
    BY DEF Max
  <2> QED BY <1>1, <2>1
<1>3. TrimRight(line) = SubSeq(line, 1, 1)
  BY <1>2 DEF TrimRight
<1> QED BY <1>3

LEMMA Pieces ==
  ASSUME NEW a \in Nat, NEW b \in Nat
  PROVE  <<a>> \o <<b>> = <<a, b>> /\ <<a>> \o <<>> = <<a>>
<1>1. <<a>> \in Seq(Nat) /\ <<b>> \in Seq(Nat) /\ <<a, b>> \in Seq(Nat)
  OBVIOUS
<1> DEFINE ab == <<a>> \o <<b>>
<1>2. ab \in Seq(Nat) /\ Len(ab) = 2 /\ ab[1] = a /\ ab[2] = b
  BY <1>1, ConcatProperties
<1>3. ab = <<a, b>>
  <2> HIDE DEF ab
  <2> QED BY <1>1, <1>2, SeqEqual
<1> QED BY <1>1, <1>3, ConcatEmptySeq

\* A read keeps what the tailer holds.
LEMMA ReadKeeps ==
  ASSUME TypeOK, NEW c \in Conns, NEW k \in Nat, ReadSlice(c), Holding(c, k), pos[c] <= size
  PROVE  Holding(c, k)' /\ pos'[c] <= size
<1> DEFINE p == pos[c]
           n == ChunkEnd(p)
           chunk == [i \in 1 .. n - p |-> p + i]
<1>1. /\ tpc[c] = "drain" /\ pos'[c] = n /\ lineBuf'[c] = lineBuf[c] \o chunk
      /\ tpc'[c] = IF n > p /\ IsNewline(n) THEN "send" ELSE "wait"
  BY DEF ReadSlice, TypeOK
<1>2. CASE p = 2 * k /\ lineBuf[c] = <<>>
  <2>1. n = IF 2 * k + 2 <= size THEN 2 * k + 2 ELSE size
    BY <1>2, Chunk DEF TypeOK
  <2>2. CASE 2 * k + 2 <= size
    <3>1. n = 2 * k + 2 /\ chunk = <<2 * k + 1, 2 * k + 2>>
      BY <1>2, <2>1, <2>2
    <3>2. lineBuf'[c] = <<2 * k + 1, 2 * k + 2>>
      BY <1>1, <1>2, <3>1
    <3>3. tpc'[c] = "send"
      BY <1>1, <1>2, <3>1, Parity
    <3> QED BY <1>1, <1>2, <2>2, <3>1, <3>2, <3>3 DEF Holding
  <2>3. CASE size = 2 * k + 1
    <3>1. n = 2 * k + 1 /\ chunk = <<2 * k + 1>>
      BY <1>2, <2>1, <2>3
    <3>2. lineBuf'[c] = <<2 * k + 1>>
      BY <1>1, <1>2, <3>1
    <3>3. tpc'[c] = "wait"
      BY <1>1, <1>2, <3>1, Parity
    <3> QED BY <1>1, <1>2, <2>3, <3>1, <3>2, <3>3 DEF Holding
  <2>4. CASE size = 2 * k
    <3>1. n = 2 * k /\ chunk = <<>>
      BY <1>2, <2>1, <2>4
    <3>2. lineBuf'[c] = <<>>
      BY <1>1, <1>2, <3>1
    <3>3. tpc'[c] = "wait"
      BY <1>1, <1>2, <3>1, Parity
    <3> QED BY <1>1, <1>2, <2>4, <3>1, <3>2, <3>3 DEF Holding
  <2> QED BY <1>2, <2>2, <2>3, <2>4 DEF TypeOK
<1>3. CASE p = 2 * k + 1 /\ lineBuf[c] = <<2 * k + 1>>
  <2>1. n = IF 2 * k + 2 <= size THEN 2 * k + 2 ELSE size
    BY <1>3, Chunk DEF TypeOK
  <2>2. CASE 2 * k + 2 <= size
    <3>1. n = 2 * k + 2 /\ chunk = <<2 * k + 2>>
      BY <1>3, <2>1, <2>2
    <3> HIDE DEF p, n, chunk
    <3>2. lineBuf'[c] = <<2 * k + 1, 2 * k + 2>>
      BY <1>1, <1>3, <3>1, Pieces
    <3>3. tpc'[c] = "send"
      <4>1. IsNewline(n)
        BY <3>1, Parity
      <4>2. n > p
        BY <1>3, <3>1
      <4> QED BY <1>1, <4>1, <4>2
    <3> QED BY <1>1, <1>3, <2>2, <3>1, <3>2, <3>3 DEF Holding
  <2>3. CASE size = 2 * k + 1
    <3>1. n = 2 * k + 1 /\ chunk = <<>>
      BY <1>3, <2>1, <2>3
    <3> HIDE DEF p, n, chunk
    <3>2. lineBuf'[c] = <<2 * k + 1>>
      BY <1>1, <1>3, <3>1, Pieces
    <3>3. tpc'[c] = "wait"
      BY <1>1, <1>3, <3>1, Parity
    <3> QED BY <1>1, <1>3, <2>3, <3>1, <3>2, <3>3 DEF Holding
  <2> QED BY <1>3, <2>2, <2>3 DEF TypeOK
<1> QED BY <1>1, <1>2, <1>3 DEF Holding

\* What Send hands over is the line it holds, and the next one is to come.
LEMMA SendHands ==
  ASSUME TypeOK, NEW c \in Conns, NEW k \in Nat, Send(c), Holding(c, k)
  PROVE  /\ out' = [out EXCEPT ![c] = Append(@, <<Json(k + 1)>>)]
         /\ Holding(c, k + 1)' /\ tpc'[c] = "drain"
<1>1. lineBuf[c] = <<2 * k + 1, 2 * k + 2>> /\ pos[c] = 2 * k + 2
  BY DEF Send, Holding
<1>2. TrimRight(lineBuf[c]) = <<Json(k + 1)>> /\ <<Json(k + 1)>> # <<>>
  BY <1>1, Trimmed DEF Json
<1>3. /\ out' = [out EXCEPT ![c] = Append(@, <<Json(k + 1)>>)]
      /\ lineBuf'[c] = <<>> /\ tpc'[c] = "drain" /\ pos' = pos
  BY <1>2 DEF Send, TypeOK
<1> QED BY <1>1, <1>3 DEF Holding

-----------------------------------------------------------------------------

LEMMA EventTypes ==
  /\ \A line \in Seq(Nat) : Progress(line) \in EventType
  /\ \A body \in {"whole", "null"} : Complete(body) \in EventType
BY DEF Progress, Complete, EventType

LEMMA WriteType ==
  ASSUME TypeOK, NEW c \in Conns, NEW e \in EventType, write(c, e)
  PROVE  sent' \in [Conns -> Seq(EventType)]
BY DEF write, TypeOK

\* Every step keeps the types.
LEMMA TypeNext ==
  ASSUME TypeOK, ConnInv, PosInv, HoldInv, [Next]_vars
  PROVE  TypeOK'
<1> USE DEF vars, fileVars, rowVars, tailVars, clientVars
<1>1. CASE newProgressWriter
  <2>1. exists' \in BOOLEAN
    BY <1>1, Zenon DEF newProgressWriter
  <2> QED BY <1>1, <2>1 DEF newProgressWriter, TypeOK
<1>0. CASE writeOne \/ Die
  BY <1>0 DEF writeOne, Die, TypeOK
<1>2. CASE WriteSummary
  BY <1>2 DEF WriteSummary, TypeOK
<1>3. CASE watch
  BY <1>3, ZenonT(60) DEF watch, TypeOK
<1>18. CASE Cancel
  BY <1>18, ZenonT(60) DEF Cancel, TypeOK
<1>4. CASE Restart
  BY <1>4 DEF Restart, TypeOK
<1>5. CASE open
  <2>1. CASE done
    BY <1>5, <2>1, ZenonT(60) DEF open, TypeOK
  <2>2. CASE Connect
    BY <1>5, <2>2, ZenonT(60) DEF open, Connect, TypeOK
  <2>3. CASE Refused
    BY <1>5, <2>3, ZenonT(60) DEF open, Refused, TypeOK
  <2> QED BY <1>5, <2>1, <2>2, <2>3 DEF open, TypeOK
<1>6. CASE Unmount
  <2>1. done' \in BOOLEAN
    BY <1>6, Zenon DEF Unmount
  <2>2. /\ es' \in {0} \cup Conns /\ conn' \in [Conns -> {"none", "up", "lost"}]
        /\ sent' \in [Conns -> Seq(EventType)]
    <3>1. CASE es = 0
      BY <1>6, <3>1 DEF Unmount, TypeOK
    <3>2. CASE es # 0
      <4>1. es \in Conns /\ close(es)
        BY <1>6, <3>2 DEF Unmount, TypeOK
      <4> QED BY <4>1 DEF close, TypeOK
    <3> QED BY <3>1, <3>2
  <2> QED BY <1>6, <2>1, <2>2 DEF Unmount, TypeOK
<1>7. ASSUME NEW c \in Conns, Open(c) PROVE TypeOK'
  BY <1>7 DEF Open, TypeOK
<1>8. ASSUME NEW c \in Conns, ReadSlice(c) PROVE TypeOK'
  <2>1. PICK k \in Nat : Holding(c, k)
    BY <1>8 DEF ReadSlice, HoldInv, Tailing
  <2>2. Holding(c, k)'
    BY <1>8, <2>1, ReadKeeps DEF PosInv
  <2>3. pos'[c] \in Nat /\ lineBuf'[c] \in Seq(Nat)
    <3>1. 2 * k + 2 \in Nat /\ 2 * k + 1 \in Nat /\ 2 * k \in Nat
      OBVIOUS
    <3>2. /\ <<2 * k + 1, 2 * k + 2>> \in Seq(Nat) /\ <<2 * k + 1>> \in Seq(Nat)
          /\ <<>> \in Seq(Nat)
      BY <3>1
    <3> QED BY <2>2, <3>1, <3>2 DEF Holding
  <2>4. /\ pos' = [pos EXCEPT ![c] = pos'[c]]
        /\ lineBuf' = [lineBuf EXCEPT ![c] = lineBuf'[c]]
    BY <1>8 DEF ReadSlice, TypeOK
  <2>5. pos' \in [Conns -> Nat] /\ lineBuf' \in [Conns -> Seq(Nat)]
    BY <2>3, <2>4 DEF TypeOK
  <2> QED BY <1>8, <2>5 DEF ReadSlice, TypeOK
<1>9. ASSUME NEW c \in Conns, ReadFails(c) \/ TailStops(c) PROVE TypeOK'
  <2>1. TailEnds(c) /\ UNCHANGED <<fileVars, rowVars, conn, hpc, sent, clientVars>>
    BY <1>9 DEF ReadFails, TailStops
  <2>2. out' \in [Conns -> Seq(Seq(Nat))]
    BY <2>1 DEF TailEnds, TypeOK
  <2>3. lineBuf' \in [Conns -> Seq(Nat)] /\ pos' \in [Conns -> Nat]
    BY <2>1 DEF TailEnds, TypeOK
  <2> QED BY <2>1, <2>2, <2>3 DEF TailEnds, TypeOK
<1>10. ASSUME NEW c \in Conns, Send(c) PROVE TypeOK'
  <2>1. PICK k \in Nat : Holding(c, k)
    BY <1>10 DEF Send, HoldInv, Tailing
  <2>2. out' = [out EXCEPT ![c] = Append(@, <<Json(k + 1)>>)]
    BY <1>10, <2>1, SendHands
  <2>3. <<Json(k + 1)>> \in Seq(Nat)
    BY DEF Json
  <2>4. out' \in [Conns -> Seq(Seq(Nat))]
    BY <2>2, <2>3 DEF TypeOK
  <2>5. /\ lineBuf' = [lineBuf EXCEPT ![c] = <<>>]
        /\ tpc' = [tpc EXCEPT ![c] = "drain"]
        /\ UNCHANGED <<fileVars, rowVars, conn, hpc, pos, sent, clientVars>>
    BY <1>10 DEF Send
  <2> QED BY <2>4, <2>5 DEF TypeOK
<1>11. ASSUME NEW c \in Conns, CtxDone(c) \/ PollFails(c) PROVE TypeOK'
  <2>0. Return(c)
    BY <1>11 DEF CtxDone, PollFails
  <2>1. /\ hpc' \in [Conns -> {"none", "select", "returned"}]
        /\ out' \in [Conns -> Seq(Seq(Nat))]
    BY <2>0 DEF Return, TypeOK
  <2>2. UNCHANGED <<fileVars, rowVars, conn, tpc, pos, lineBuf, sent, clientVars>>
    BY <1>11 DEF CtxDone, PollFails, Return
  <2> QED BY <2>1, <2>2, ZenonT(60) DEF TypeOK, fileVars, rowVars, clientVars
<1>12. ASSUME NEW c \in Conns, Forward(c) PROVE TypeOK'
  <2>1. out[c] \in Seq(Seq(Nat)) /\ out[c] # <<>>
    BY <1>12 DEF Forward, TypeOK
  <2>2. Head(out[c]) \in Seq(Nat) /\ Tail(out[c]) \in Seq(Seq(Nat))
    BY <2>1
  <2>3. sent' \in [Conns -> Seq(EventType)]
    BY <1>12, <2>2, EventTypes, WriteType DEF Forward
  <2>4. out' \in [Conns -> Seq(Seq(Nat))]
    BY <1>12, <2>2 DEF Forward, TypeOK
  <2> QED BY <1>12, <2>3, <2>4, ZenonT(60) DEF Forward, TypeOK
<1>13. ASSUME NEW c \in Conns, Poll(c) PROVE TypeOK'
  <2>1. sent' \in [Conns -> Seq(EventType)]
    BY <1>13, EventTypes, WriteType DEF Poll
  <2>2. /\ hpc' \in [Conns -> {"none", "select", "returned"}]
        /\ out' \in [Conns -> Seq(Seq(Nat))]
    BY <1>13 DEF Poll, Return, TypeOK
  <2> QED BY <1>13, <2>1, <2>2, ZenonT(60) DEF Poll, TypeOK
<1>14. ASSUME NEW c \in Conns, Receive(c) PROVE TypeOK'
  BY <1>14 DEF Receive, close, TypeOK
<1>15. ASSUME NEW c \in Conns, onerror(c) PROVE TypeOK'
  BY <1>15 DEF onerror, close, TypeOK
<1>16. ASSUME NEW c \in Conns, Lose(c) PROVE TypeOK'
  BY <1>16 DEF Lose, TypeOK
<1>17. CASE UNCHANGED vars
  BY <1>17 DEF TypeOK
<1> QED BY <1>0, <1>1, <1>2, <1>3, <1>4, <1>5, <1>6, <1>7, <1>8, <1>9, <1>10, <1>11, <1>12,
           <1>13, <1>14, <1>15, <1>16, <1>17, <1>18
  DEF Next, TailLines, Stream

\* The connection the browser opens next is one it has not used.
LEMMA NextIsFresh ==
  ASSUME NEW k \in 0 .. MaxConns, Used(k)
  PROVE  NextConn = k + 1
<1>1. {c \in Conns : conn[c] # "none"} = 1 .. k
  BY TailAssumption DEF Used, Conns
<1>2. Cardinality(1 .. k) = k
  BY TailAssumption, FS_Interval
<1> QED BY <1>1, <1>2 DEF NextConn

\* What a tailer and a handler do concerns their own connection only.
LEMMA OthersUntouched ==
  ASSUME TypeOK, NEW c \in Conns, TailLines(c) \/ Stream(c) \/ PollFails(c)
  PROVE  /\ UNCHANGED <<conn, size>>
         /\ \A d \in Conns \ {c} :
              /\ hpc'[d] = hpc[d] /\ tpc'[d] = tpc[d] /\ pos'[d] = pos[d]
              /\ lineBuf'[d] = lineBuf[d] /\ out'[d] = out[d] /\ sent'[d] = sent[d]
<1>1. CASE TailLines(c)
  BY <1>1
  DEF TailLines, Open, ReadSlice, ReadFails, Send, TailStops, TailEnds, fileVars, TypeOK
<1>2. CASE Stream(c) \/ PollFails(c)
  BY <1>2
  DEF Stream, CtxDone, Forward, Poll, PollFails, Return, write, fileVars, tailVars, TypeOK
<1> QED BY <1>1, <1>2

\* Connections are used in order and are clean when they are opened.
LEMMA ConnNext ==
  ASSUME TypeOK, ConnInv, [Next]_vars
  PROVE  ConnInv'
<1> USE DEF vars, fileVars, rowVars, tailVars, clientVars
<1>1. CASE newProgressWriter \/ writeOne \/ WriteSummary \/ Die \/ watch \/ Cancel
           \/ UNCHANGED vars
  <2>1. UNCHANGED <<conn, hpc, tpc, pos, lineBuf, out, sent, es>>
    BY <1>1 DEF newProgressWriter, writeOne, WriteSummary, Die, watch, Cancel
  <2> QED BY <2>1 DEF ConnInv, Used
<1>2. CASE Restart
  <2>1. \A c \in Conns : conn'[c] = "none" <=> conn[c] = "none"
    BY <1>2 DEF Restart
  <2>2. \A c \in Conns : conn[c] = "none" =>
          /\ hpc'[c] = "none" /\ tpc'[c] = "none"
          /\ pos'[c] = 0 /\ lineBuf'[c] = <<>> /\ out'[c] = <<>> /\ sent'[c] = <<>>
    BY <1>2 DEF Restart, ConnInv
  <2> QED BY <1>2, <2>1, <2>2 DEF Restart, ConnInv, Used, TypeOK
<1>3. CASE open
  <2>1. CASE UNCHANGED <<es, conn, hpc, tpc>>
    BY <1>3, <2>1 DEF open, ConnInv, Used
  <2>2. CASE Connect \/ Refused
    <3>1. PICK k \in 0 .. MaxConns : Used(k)
      BY DEF ConnInv
    <3>2. /\ k + 1 \in Conns /\ es' = k + 1
          /\ conn' \in {[conn EXCEPT ![k + 1] = "up"], [conn EXCEPT ![k + 1] = "lost"]}
          /\ \A c \in Conns \ {k + 1} : hpc'[c] = hpc[c] /\ tpc'[c] = tpc[c]
          /\ UNCHANGED <<pos, lineBuf, out, sent>>
      BY <1>3, <2>2, <3>1, NextIsFresh DEF open, Connect, Refused, TypeOK
    <3>3. conn'[k + 1] # "none" /\ \A c \in Conns \ {k + 1} : conn'[c] = conn[c]
      BY <3>2 DEF TypeOK
    <3>4. k + 1 \in 0 .. MaxConns /\ Used(k + 1)'
      BY <3>1, <3>2, <3>3 DEF Used, Conns
    <3>5. \A c \in Conns : conn'[c] = "none" =>
            conn[c] = "none" /\ hpc'[c] = hpc[c] /\ tpc'[c] = tpc[c]
      BY <3>2, <3>3
    <3> QED BY <3>2, <3>3, <3>4, <3>5 DEF ConnInv
  <2> QED BY <1>3, <2>1, <2>2 DEF open
<1>4. ASSUME NEW c \in Conns, close(c), conn[c] # "none",
             UNCHANGED <<hpc, tpc, pos, lineBuf, out>>
      PROVE  ConnInv'
  <2>1. es' = 0 /\ conn'[c] = "lost"
        /\ \A d \in Conns \ {c} : conn'[d] = conn[d] /\ sent'[d] = sent[d]
    BY <1>4 DEF close, TypeOK
  <2>2. \A k \in 0 .. MaxConns : Used(k) => Used(k)'
    BY <1>4, <2>1 DEF Used
  <2> QED BY <1>4, <2>1, <2>2 DEF ConnInv
<1>5. CASE Unmount
  <2>1. CASE es = 0
    BY <1>5, <2>1 DEF Unmount, ConnInv, Used
  <2>2. CASE es # 0
    <3>1. es \in Conns /\ close(es) /\ conn[es] # "none"
      BY <1>5, <2>2 DEF Unmount, TypeOK, ConnInv
    <3> QED BY <1>4, <1>5, <3>1 DEF Unmount
  <2> QED BY <2>1, <2>2
<1>6. ASSUME NEW c \in Conns, Receive(c) PROVE ConnInv'
  BY <1>4, <1>6 DEF Receive, Completed, ConnInv
<1>7. ASSUME NEW c \in Conns, onerror(c) PROVE ConnInv'
  BY <1>4, <1>7 DEF onerror, ConnInv
<1>8. ASSUME NEW c \in Conns, Lose(c) PROVE ConnInv'
  <2>1. \A d \in Conns : conn'[d] = "none" <=> conn[d] = "none"
    BY <1>8 DEF Lose, TypeOK
  <2>2. \A k \in 0 .. MaxConns : Used(k) => Used(k)'
    BY <2>1 DEF Used
  <2> QED BY <1>8, <2>1, <2>2 DEF Lose, ConnInv, TypeOK
<1>9. ASSUME NEW c \in Conns, TailLines(c) \/ Stream(c) \/ PollFails(c)
      PROVE  ConnInv'
  <2>1. conn[c] # "none"
    BY <1>9
    DEF TailLines, Open, ReadSlice, ReadFails, Send, TailStops, Stream, CtxDone,
        Forward, Poll, PollFails, ConnInv
  <2>2. conn' = conn /\ es' = es
    BY <1>9
    DEF TailLines, Open, ReadSlice, ReadFails, Send, TailStops, Stream, CtxDone,
        Forward, Poll, PollFails
  <2> QED BY <1>9, <2>1, <2>2, OthersUntouched DEF ConnInv, Used
<1> QED BY <1>1, <1>2, <1>3, <1>5, <1>6, <1>7, <1>8, <1>9 DEF Next

\* The steps of the CLI, the watcher, the browser and the network.
Elsewhere ==
  \/ newProgressWriter \/ writeOne \/ WriteSummary \/ Die \/ watch \/ Cancel
  \/ open \/ Unmount \/ UNCHANGED vars
  \/ \E c \in Conns : Receive(c) \/ onerror(c) \/ Lose(c)

\* They leave a connection's handler and tailer alone, or open it.
Kept(c) ==
  /\ tpc'[c] = tpc[c] /\ hpc'[c] = hpc[c]
  /\ conn'[c] = "up" => conn[c] = "up" /\ sent'[c] = sent[c]
Fresh(c) ==
  /\ conn[c] = "none" /\ sent'[c] = sent[c]
  /\ tpc'[c] = "open" /\ hpc'[c] = "select"

LEMMA ElsewhereKeeps ==
  ASSUME TypeOK, Elsewhere
  PROVE  size' \in Nat /\ size <= size' /\ UNCHANGED <<pos, lineBuf, out>>
<1> USE DEF vars, fileVars, rowVars, tailVars, clientVars
<1>1. CASE newProgressWriter \/ writeOne \/ WriteSummary \/ Die \/ watch \/ Cancel \/ UNCHANGED vars
  BY <1>1 DEF newProgressWriter, writeOne, WriteSummary, Die, watch, Cancel, TypeOK
<1>2. CASE open \/ Unmount \/ \E c \in Conns : Receive(c) \/ onerror(c) \/ Lose(c)
  <2>1. UNCHANGED <<size, pos, lineBuf, out>>
    BY <1>2 DEF open, Unmount, Receive, onerror, Lose
  <2> QED BY <2>1 DEF TypeOK
<1> QED BY <1>1, <1>2 DEF Elsewhere

LEMMA ClosedIsKept ==
  ASSUME TypeOK, NEW d \in Conns, close(d), UNCHANGED <<hpc, tpc>>, NEW c \in Conns
  PROVE  Kept(c)
BY DEF close, Kept, TypeOK

LEMMA ElsewhereOpens ==
  ASSUME TypeOK, ConnInv, Elsewhere, NEW c \in Conns
  PROVE  Kept(c) \/ Fresh(c)
<1> USE DEF vars, fileVars, rowVars, tailVars, clientVars
<1>1. CASE newProgressWriter \/ writeOne \/ WriteSummary \/ Die \/ watch \/ Cancel \/ UNCHANGED vars
  <2>1. UNCHANGED <<conn, hpc, tpc, sent>>
    BY <1>1 DEF newProgressWriter, writeOne, WriteSummary, Die, watch, Cancel
  <2> QED BY <2>1 DEF Kept
<1>2. CASE open
  <2>0. sent' = sent
    BY <1>2 DEF open
  <2>1. CASE UNCHANGED <<es, conn, hpc, tpc>>
    BY <2>0, <2>1 DEF Kept
  <2>2. PICK k \in 0 .. MaxConns : Used(k)
    BY DEF ConnInv
  <2>3. CASE Connect
    <3>1. k + 1 \in Conns /\ conn[k + 1] = "none"
      BY <2>2, <2>3, NextIsFresh DEF Connect, Used, Conns
    <3>2. /\ conn' = [conn EXCEPT ![k + 1] = "up"] /\ hpc' = [hpc EXCEPT ![k + 1] = "select"]
          /\ tpc' = [tpc EXCEPT ![k + 1] = "open"]
      BY <2>2, <2>3, NextIsFresh DEF Connect
    <3>3. CASE c = k + 1
      BY <2>0, <3>1, <3>2, <3>3 DEF Fresh, TypeOK
    <3>4. CASE c # k + 1
      BY <2>0, <3>1, <3>2, <3>4 DEF Kept, TypeOK
    <3> QED BY <3>3, <3>4
  <2>4. CASE Refused
    BY <2>0, <2>4 DEF Refused, Kept, TypeOK
  <2> QED BY <1>2, <2>1, <2>3, <2>4 DEF open
<1>3. CASE Unmount
  <2>1. CASE es = 0
    BY <1>3, <2>1 DEF Unmount, Kept
  <2>2. CASE es # 0
    <3>1. es \in Conns /\ close(es) /\ UNCHANGED <<hpc, tpc>>
      BY <1>3, <2>2 DEF Unmount, TypeOK
    <3> QED BY <3>1, ClosedIsKept
  <2> QED BY <2>1, <2>2
<1>4. ASSUME NEW d \in Conns, Receive(d) \/ onerror(d) PROVE Kept(c)
  <2>1. close(d) /\ UNCHANGED <<hpc, tpc>>
    BY <1>4 DEF Receive, onerror
  <2> QED BY <2>1, ClosedIsKept
<1>5. ASSUME NEW d \in Conns, Lose(d) PROVE Kept(c)
  BY <1>5 DEF Lose, Kept, TypeOK
<1> QED BY <1>1, <1>2, <1>3, <1>4, <1>5 DEF Elsewhere

\* No tailer runs ahead of the file or loses hold of a line.
LEMMA HoldNext ==
  ASSUME TypeOK, ConnInv, PosInv, HoldInv, [Next]_vars
  PROVE  PosInv' /\ HoldInv'
<1>1. CASE Restart
  BY <1>1 DEF Restart, PosInv, HoldInv, Tailing, fileVars, TypeOK
<1>2. ASSUME NEW c \in Conns, TailLines(c) PROVE PosInv' /\ HoldInv'
  <2>0. size' = size /\ \A d \in Conns \ {c} : pos'[d] = pos[d]
    BY <1>2, OthersUntouched
  <2>1. CASE Open(c)
    BY <2>1 DEF Open, PosInv, HoldInv, Holding, Tailing, fileVars, TypeOK
  <2>2. CASE ReadSlice(c)
    <3>1. PICK k \in Nat : Holding(c, k)
      BY <2>2 DEF ReadSlice, HoldInv, Tailing
    <3>2. Holding(c, k)' /\ pos'[c] <= size
      BY <2>2, <3>1, ReadKeeps DEF PosInv
    <3> QED BY <1>2, <3>2, OthersUntouched DEF PosInv, HoldInv, Holding
  <2>3. CASE ReadFails(c) \/ TailStops(c)
    <3>1. pos'[c] = 0 /\ tpc'[c] = "ended"
      BY <2>3 DEF ReadFails, TailStops, TailEnds, TypeOK
    <3>2. size \in Nat /\ 0 <= size
      BY DEF TypeOK
    <3>4. PosInv'
      BY <2>0, <3>1, <3>2 DEF PosInv
    <3>3. HoldInv'
      BY <1>2, <3>1, OthersUntouched DEF HoldInv, Holding, Tailing
    <3> QED BY <3>3, <3>4
  <2>4. CASE Send(c)
    <3>1. PICK k \in Nat : Holding(c, k)
      BY <2>4 DEF Send, HoldInv, Tailing
    <3>2. Holding(c, k + 1)' /\ pos' = pos
      BY <2>4, <3>1, SendHands DEF Send
    <3>3. PosInv'
      BY <2>0, <3>2 DEF PosInv
    <3>4. \E j \in Nat : Holding(c, j)'
      <4>1. k + 1 \in Nat
        OBVIOUS
      <4> QED BY <3>2, <4>1
    <3>5. HoldInv'
      BY <1>2, <3>4, OthersUntouched DEF HoldInv, Holding
    <3> QED BY <3>3, <3>5
  <2> QED BY <1>2, <2>1, <2>2, <2>3, <2>4 DEF TailLines
<1>3. ASSUME NEW c \in Conns, Stream(c) \/ PollFails(c) PROVE PosInv' /\ HoldInv'
  <2>1. UNCHANGED <<size, tpc, pos, lineBuf>>
    BY <1>3 DEF Stream, CtxDone, Forward, Poll, PollFails, fileVars, tailVars
  <2> QED BY <2>1 DEF PosInv, HoldInv, Holding
<1>4. CASE Elsewhere
  <2>1. PosInv'
    BY <1>4, ElsewhereKeeps DEF PosInv, TypeOK
  <2>2. ASSUME NEW c \in Conns, tpc'[c] \in Tailing PROVE \E k \in Nat : Holding(c, k)'
    <3>1. CASE Kept(c)
      BY <1>4, <2>2, <3>1, ElsewhereKeeps DEF HoldInv, Holding, Kept
    <3>2. CASE Fresh(c)
      <4>1. Holding(c, 0)'
        BY <1>4, <3>2, ElsewhereKeeps DEF Holding, Fresh, ConnInv
      <4> QED BY <4>1
    <3> QED BY <1>4, <3>1, <3>2, ElsewhereOpens
  <2> QED BY <2>1, <2>2 DEF HoldInv
<1> QED BY <1>1, <1>2, <1>3, <1>4 DEF Next, Elsewhere

-----------------------------------------------------------------------------

\* LineInv for one connection.
LineOf(c) ==
  conn[c] = "up" /\ hpc[c] = "select" =>
    /\ OnlyLines(c) /\ Queued(c)
    /\ tpc[c] \in Tailing => Holding(c, Len(sent[c]) + Len(out[c]))

\* A tailer's step adds at most the line that follows those in the channel.
LEMMA TailKeepsLine ==
  ASSUME TypeOK, PosInv, HoldInv, NEW c \in Conns, LineOf(c), TailLines(c)
  PROVE  LineOf(c)'
<1> SUFFICES ASSUME conn'[c] = "up", hpc'[c] = "select"
             PROVE  /\ OnlyLines(c)' /\ Queued(c)'
                    /\ tpc'[c] \in Tailing => Holding(c, Len(sent[c]) + Len(out[c]))'
  BY DEF LineOf
<1>1. UNCHANGED <<conn, hpc, sent>>
  BY DEF TailLines, Open, ReadSlice, ReadFails, Send, TailStops, fileVars
<1>2. /\ OnlyLines(c) /\ OnlyLines(c)' /\ Queued(c)
      /\ tpc[c] \in Tailing => Holding(c, Len(sent[c]) + Len(out[c]))
  BY <1>1 DEF LineOf, OnlyLines
<1>3. Len(sent[c]) \in Nat /\ Len(out[c]) \in Nat
  BY DEF TypeOK
<1>8. PICK n \in Nat, m \in Nat : n = Len(sent[c]) /\ m = Len(out[c])
  BY <1>3
<1>9. PICK k \in Nat : k = n + m
  OBVIOUS
<1>10. k + 1 = n + (m + 1)
  BY <1>9
<1>4. CASE Open(c)
  <2>1. UNCHANGED <<pos, lineBuf, out>> /\ tpc[c] \in Tailing \ {"send"} /\ tpc'[c] # "send"
    BY <1>4 DEF Open, Tailing, TypeOK
  <2> QED BY <1>1, <1>2, <2>1 DEF Queued, Holding
<1>5. CASE ReadSlice(c)
  <2>1. Holding(c, k) /\ out' = out
    BY <1>2, <1>5, <1>8, <1>9 DEF ReadSlice, Tailing
  <2>2. Holding(c, k)'
    BY <1>5, <2>1, ReadKeeps DEF PosInv
  <2> QED BY <1>1, <1>2, <1>8, <1>9, <2>1, <2>2 DEF Queued
<1>6. CASE ReadFails(c) \/ TailStops(c)
  <2>1. TailEnds(c)
    BY <1>6 DEF ReadFails, TailStops
  <2>2. out' = out /\ tpc'[c] = "ended"
    BY <1>1, <2>1 DEF TailEnds, TypeOK
  <2> QED BY <1>1, <1>2, <2>2 DEF Queued, Tailing
<1>7. CASE Send(c)
  <2>1. Holding(c, k)
    BY <1>2, <1>7, <1>8, <1>9 DEF Send, Tailing
  <2>2. /\ out' = [out EXCEPT ![c] = Append(@, <<Json(k + 1)>>)]
        /\ Holding(c, k + 1)'
    BY <1>7, <2>1, SendHands
  <2>3. /\ out'[c] = Append(out[c], <<Json(k + 1)>>) /\ out[c] \in Seq(Seq(Nat))
        /\ <<Json(k + 1)>> \in Seq(Nat)
    BY <2>2 DEF TypeOK, Json
  <2>4. Len(out'[c]) = Len(out[c]) + 1 /\ Queued(c)'
    <3>1. /\ Len(out'[c]) = Len(out[c]) + 1 /\ DOMAIN out'[c] = 1 .. Len(out[c]) + 1
          /\ DOMAIN out[c] = 1 .. Len(out[c])
          /\ out'[c][Len(out[c]) + 1] = <<Json(k + 1)>>
          /\ \A i \in 1 .. Len(out[c]) : out'[c][i] = out[c][i]
      BY <2>3
    <3>2. ASSUME NEW i \in DOMAIN out'[c]
          PROVE  out'[c][i] = <<Json(Len(sent[c]) + i)>>
      <4>1. CASE i = Len(out[c]) + 1
        <5>1. i = m + 1 /\ k + 1 = n + i
          BY <1>8, <1>10, <4>1
        <5> QED BY <1>8, <3>1, <4>1, <5>1
      <4>2. CASE i # Len(out[c]) + 1
        <5>1. i \in 1 .. Len(out[c])
          BY <1>3, <3>1, <4>2
        <5> QED BY <1>2, <3>1, <5>1 DEF Queued
      <4> QED BY <4>1, <4>2
    <3> QED BY <1>1, <3>1, <3>2 DEF Queued
  <2>5. Len(sent'[c]) = n /\ Len(out'[c]) = m + 1 /\ n + (m + 1) = k + 1
    BY <1>1, <1>8, <1>10, <2>4
  <2> QED BY <1>2, <2>2, <2>4, <2>5
<1> QED BY <1>4, <1>5, <1>6, <1>7 DEF TailLines

\* Forward moves the first line in the channel to the end of those sent.
LEMMA StreamKeepsLine ==
  ASSUME TypeOK, NEW c \in Conns, LineOf(c), Stream(c) \/ PollFails(c)
  PROVE  LineOf(c)'
<1>1. CASE Forward(c)
  <2> SUFFICES ASSUME conn'[c] = "up", hpc'[c] = "select"
               PROVE  /\ OnlyLines(c)' /\ Queued(c)'
                      /\ tpc'[c] \in Tailing => Holding(c, Len(sent[c]) + Len(out[c]))'
    BY DEF LineOf
  <2>0. Len(sent[c]) \in Nat /\ Len(out[c]) \in Nat
    BY DEF TypeOK
  <2>10. PICK n \in Nat, m \in Nat : n = Len(sent[c]) /\ m = Len(out[c])
    BY <2>0
  <2>1. UNCHANGED <<conn, hpc, tpc, pos, lineBuf>>
    BY <1>1 DEF Forward, tailVars
  <2>2. /\ OnlyLines(c) /\ Queued(c)
        /\ tpc[c] \in Tailing => Holding(c, n + m)
    BY <2>1, <2>10 DEF LineOf
  <2>3. /\ out[c] \in Seq(Seq(Nat)) /\ out[c] # <<>> /\ sent[c] \in Seq(EventType)
        /\ out'[c] = Tail(out[c]) /\ sent'[c] = Append(sent[c], Progress(Head(out[c])))
    BY <1>1, <2>1 DEF Forward, write, TypeOK
  <2>4. /\ m > 0 /\ DOMAIN out[c] = 1 .. m
        /\ DOMAIN sent[c] = 1 .. n /\ Head(out[c]) = out[c][1]
    BY <2>3, <2>10
  <2>5. /\ Len(out'[c]) = m - 1 /\ DOMAIN out'[c] = 1 .. m - 1
        /\ \A i \in 1 .. m - 1 : out'[c][i] = out[c][i + 1]
    BY <2>3, <2>10
  <2>6. /\ Len(sent'[c]) = n + 1 /\ DOMAIN sent'[c] = 1 .. n + 1
        /\ \A i \in 1 .. n : sent'[c][i] = sent[c][i]
        /\ sent'[c][n + 1] = Progress(Head(out[c]))
    BY <2>3, <2>10
  <2>7. OnlyLines(c)'
    <3>1. Head(out[c]) = <<Json(n + 1)>>
      BY <2>2, <2>4, <2>10 DEF Queued
    <3>2. ASSUME NEW i \in 1 .. n + 1 PROVE sent'[c][i] = Progress(<<Json(i)>>)
      <4>1. CASE i = n + 1
        BY <2>6, <3>1, <4>1
      <4>2. CASE i # n + 1
        <5>1. i \in 1 .. n
          BY <2>4, <4>2
        <5> QED BY <2>2, <2>4, <2>6, <5>1 DEF OnlyLines
      <4> QED BY <4>1, <4>2
    <3> QED BY <2>6, <3>2 DEF OnlyLines
  <2>8. Queued(c)'
    <3>1. ASSUME NEW i \in 1 .. m - 1 PROVE out'[c][i] = <<Json(n + 1 + i)>>
      <4>1. i + 1 \in 1 .. m /\ n + (i + 1) = n + 1 + i
        BY <2>4
      <4> QED BY <2>2, <2>4, <2>5, <2>10, <4>1 DEF Queued
    <3> QED BY <2>5, <2>6, <3>1 DEF Queued
  <2>9. Len(sent'[c]) + Len(out'[c]) = n + m
    BY <2>4, <2>5, <2>6
  <2> QED BY <2>1, <2>2, <2>7, <2>8, <2>9 DEF Holding
<1>2. CASE CtxDone(c) \/ Poll(c) \/ PollFails(c)
  <2>1. hpc'[c] = "returned"
    BY <1>2 DEF CtxDone, Poll, PollFails, Return, TypeOK
  <2> QED BY <2>1 DEF LineOf
<1> QED BY <1>1, <1>2 DEF Stream

\* No step opens a gap between the lines sent, queued and held.
LEMMA LineNext ==
  ASSUME TypeOK, ConnInv, PosInv, HoldInv, LineInv, [Next]_vars
  PROVE  LineInv'
<1> SUFFICES ASSUME NEW c \in Conns PROVE LineOf(c)'
  BY DEF LineInv, LineOf
<1>0. LineOf(c)
  BY DEF LineInv, LineOf
<1>1. CASE Restart
  BY <1>1 DEF Restart, LineOf
<1>2. CASE TailLines(c)
  BY <1>0, <1>2, TailKeepsLine
<1>3. CASE Stream(c) \/ PollFails(c)
  BY <1>0, <1>3, StreamKeepsLine
<1>4. ASSUME NEW d \in Conns \ {c}, TailLines(d) \/ Stream(d) \/ PollFails(d)
      PROVE  LineOf(c)'
  <2>1. /\ conn'[c] = conn[c] /\ hpc'[c] = hpc[c] /\ tpc'[c] = tpc[c] /\ pos'[c] = pos[c]
        /\ lineBuf'[c] = lineBuf[c] /\ out'[c] = out[c] /\ sent'[c] = sent[c]
    BY <1>4, OthersUntouched
  <2> QED BY <1>0, <2>1 DEF LineOf, OnlyLines, Queued, Holding
<1>5. CASE Elsewhere
  <2>1. UNCHANGED <<pos, lineBuf, out>>
    BY <1>5, ElsewhereKeeps
  <2>2. CASE Kept(c)
    BY <1>0, <2>1, <2>2 DEF Kept, LineOf, OnlyLines, Queued, Holding
  <2>3. CASE Fresh(c)
    <3>1. /\ sent'[c] = <<>> /\ out'[c] = <<>> /\ pos'[c] = 0 /\ lineBuf'[c] = <<>>
          /\ tpc'[c] = "open"
      BY <2>1, <2>3 DEF Fresh, ConnInv
    <3>2. Holding(c, 0)' /\ Len(sent'[c]) + Len(out'[c]) = 0
      BY <3>1 DEF Holding
    <3> QED BY <3>1, <3>2 DEF LineOf, OnlyLines, Queued
  <2> QED BY <1>5, <2>2, <2>3, ElsewhereOpens
<1> QED BY <1>1, <1>2, <1>3, <1>4, <1>5 DEF Next, Elsewhere

-----------------------------------------------------------------------------

\* What a step may do to the events of a connection: nothing, forget them, or
\* write a progress or the complete event to a connection that is up.
Written(c) ==
  \/ sent'[c] = sent[c] \/ sent'[c] = <<>>
  \/ Forward(c) /\ conn[c] = "up"
     /\ \E line \in Seq(Nat) : sent'[c] = Append(sent[c], Progress(line))
  \/ Poll(c) /\ conn[c] = "up"
     /\ sent'[c] = Append(sent[c],
                          Complete(IF loadSummary = "whole" THEN "whole" ELSE "null"))

LEMMA SentSteps ==
  ASSUME TypeOK, [Next]_vars, NEW c \in Conns
  PROVE  Written(c)
<1>1. ASSUME NEW d \in Conns, close(d) PROVE Written(c)
  <2>1. sent'[c] \in {sent[c], <<>>}
    BY <1>1 DEF close, TypeOK
  <2> QED BY <2>1 DEF Written
<1>2. CASE sent' = sent
  BY <1>2 DEF Written
<1>3. CASE Unmount
  <2>1. CASE es # 0
    BY <1>1, <1>3, <2>1 DEF Unmount, TypeOK
  <2>2. CASE es = 0
    BY <1>2, <1>3, <2>2 DEF Unmount
  <2> QED BY <2>1, <2>2
<1>4. ASSUME NEW d \in Conns, Receive(d) \/ onerror(d) PROVE Written(c)
  BY <1>1, <1>4 DEF Receive, onerror
<1>5. ASSUME NEW d \in Conns, Forward(d) PROVE Written(c)
  <2>1. CASE d # c \/ conn[d] # "up"
    <3>1. sent'[c] = sent[c]
      BY <1>5, <2>1 DEF Forward, write, TypeOK
    <3> QED BY <3>1 DEF Written
  <2>2. CASE d = c /\ conn[c] = "up"
    <3>1. out[c] \in Seq(Seq(Nat)) /\ out[c] # <<>>
      BY <1>5, <2>2 DEF Forward, TypeOK
    <3>2. Head(out[c]) \in Seq(Nat)
      BY <3>1
    <3>3. sent'[c] = Append(sent[c], Progress(Head(out[c])))
      BY <1>5, <2>2 DEF Forward, write, TypeOK
    <3> QED BY <1>5, <2>2, <3>2, <3>3 DEF Written
  <2> QED BY <2>1, <2>2
<1>6. ASSUME NEW d \in Conns, Poll(d) PROVE Written(c)
  <2> DEFINE e == Complete(IF loadSummary = "whole" THEN "whole" ELSE "null")
  <2>0. write(d, e)
    BY <1>6 DEF Poll
  <2> HIDE DEF e
  <2>1. CASE d # c \/ conn[d] # "up"
    <3>1. sent'[c] = sent[c]
      BY <2>0, <2>1 DEF write, TypeOK
    <3> QED BY <3>1 DEF Written
  <2>2. CASE d = c /\ conn[c] = "up"
    <3>1. sent'[c] = Append(sent[c], e)
      BY <2>0, <2>2 DEF write, TypeOK
    <3> QED BY <1>6, <2>2, <3>1 DEF Written, e
  <2> QED BY <2>1, <2>2
<1>7. CASE newProgressWriter \/ writeOne \/ WriteSummary \/ Die \/ watch \/ Cancel \/ Restart \/ open
  BY <1>2, <1>7 DEF newProgressWriter, writeOne, WriteSummary, Die, watch, Cancel, Restart, open
<1>8. ASSUME NEW d \in Conns, TailLines(d) \/ CtxDone(d) \/ PollFails(d) \/ Lose(d)
      PROVE  Written(c)
  BY <1>2, <1>8
  DEF TailLines, Open, ReadSlice, ReadFails, Send, TailStops, CtxDone, PollFails, Lose
<1>9. CASE UNCHANGED vars
  BY <1>2, <1>9 DEF vars
<1> QED BY <1>3, <1>4, <1>5, <1>6, <1>7, <1>8, <1>9 DEF Next, Stream

\* StreamFaithful for one connection.
FaithfulOf(c) ==
  \A i \in DOMAIN sent[c] :
    IF sent[c][i].type = "complete" THEN i = Len(sent[c])
    ELSE sent[c][i] = Progress(<<Json(i)>>)

\* Whatever is written to a connection continues the file's lines.
LEMMA FaithfulNext ==
  ASSUME TypeOK, LineInv, StreamFaithful, [Next]_vars
  PROVE  StreamFaithful'
<1> SUFFICES ASSUME NEW c \in Conns PROVE FaithfulOf(c)'
  BY DEF StreamFaithful, FaithfulOf
<1>0. LineOf(c) /\ FaithfulOf(c)
  BY DEF LineInv, LineOf, StreamFaithful, FaithfulOf
<1>1. CASE sent'[c] = sent[c]
  BY <1>0, <1>1 DEF FaithfulOf
<1>2. CASE sent'[c] = <<>>
  BY <1>2 DEF FaithfulOf
<1>3. CASE Forward(c) /\ conn[c] = "up"
  <2>1. LineOf(c)'
    BY <1>0, <1>3, StreamKeepsLine DEF Stream
  <2>2. conn'[c] = "up" /\ hpc'[c] = "select"
    BY <1>3 DEF Forward
  <2> QED BY <2>1, <2>2 DEF LineOf, OnlyLines, FaithfulOf, Progress
<1>4. ASSUME Poll(c), conn[c] = "up", NEW body, sent'[c] = Append(sent[c], Complete(body)),
             Complete(body) \in EventType
      PROVE  FaithfulOf(c)'
  <2>1. sent[c] \in Seq(EventType) /\ OnlyLines(c)
    BY <1>0, <1>4 DEF Poll, LineOf, TypeOK
  <2>2. PICK n \in Nat : n = Len(sent[c])
    BY <2>1
  <2>3. /\ DOMAIN sent'[c] = 1 .. n + 1 /\ Len(sent'[c]) = n + 1
        /\ sent'[c][n + 1] = Complete(body)
        /\ \A i \in 1 .. n : i \in DOMAIN sent[c] /\ sent'[c][i] = sent[c][i]
    BY <1>4, <2>1, <2>2
  <2>4. ASSUME NEW i \in 1 .. n PROVE sent'[c][i] = Progress(<<Json(i)>>)
    BY <2>1, <2>3 DEF OnlyLines
  <2>5. sent'[c][n + 1].type = "complete"
    BY <2>3 DEF Complete
  <2>6. \A i \in 1 .. n + 1 : i \in 1 .. n \/ i = n + 1
    OBVIOUS
  <2> QED BY <2>3, <2>4, <2>5, <2>6 DEF FaithfulOf, Progress
<1>5. Written(c)
  BY SentSteps
<1>6. Complete(IF loadSummary = "whole" THEN "whole" ELSE "null") \in EventType
  BY EventTypes
<1> QED BY <1>1, <1>2, <1>3, <1>4, <1>5, <1>6 DEF Written

\* The inductive invariant.
IInv == TypeOK /\ ConnInv /\ PosInv /\ HoldInv /\ LineInv /\ StreamFaithful

LEMMA InitIInv == Init => IInv
<1> SUFFICES ASSUME Init PROVE IInv
  OBVIOUS
<1>1. TypeOK
  <2>1. /\ conn \in [Conns -> {"none", "up", "lost"}]
        /\ hpc \in [Conns -> {"none", "select", "returned"}]
        /\ tpc \in [Conns -> {"none", "open", "drain", "send", "wait", "ended"}]
    BY DEF Init
  <2>2. /\ pos \in [Conns -> Nat] /\ lineBuf \in [Conns -> Seq(Nat)]
        /\ out \in [Conns -> Seq(Seq(Nat))] /\ sent \in [Conns -> Seq(EventType)]
    BY DEF Init
  <2>3. /\ exists \in BOOLEAN /\ stored \in BOOLEAN /\ crashed \in BOOLEAN
        /\ timer \in BOOLEAN /\ reconnected \in BOOLEAN /\ done \in BOOLEAN
    BY DEF Init
  <2> QED BY <2>1, <2>2, <2>3 DEF Init, TypeOK
<1>2. ConnInv
  <2>1. 0 \in 0 .. MaxConns /\ Used(0)
    BY TailAssumption DEF Init, Used, Conns
  <2> QED BY <2>1 DEF Init, ConnInv
<1>3. PosInv /\ HoldInv /\ LineInv /\ StreamFaithful
  BY DEF Init, PosInv, HoldInv, Tailing, LineInv, StreamFaithful
<1> QED BY <1>1, <1>2, <1>3 DEF IInv

LEMMA NextIInv == IInv /\ [Next]_vars => IInv'
BY TypeNext, ConnNext, HoldNext, LineNext, FaithfulNext DEF IInv

LEMMA Invariance == Spec => []IInv
BY InitIInv, NextIInv, PTL DEF Spec

\* Every variable keeps its type, the channel and the events of every
\* connection included.
THEOREM TypeCorrect == Spec => []TypeOK
<1>1. IInv => TypeOK
  BY DEF IInv
<1> QED BY Invariance, <1>1, PTL

\* However the tailer's reads fall between the CLI's writes, each browser
\* connection carries whole lines from the first one on, in order and without a
\* gap, and nothing after complete.
THEOREM LinesArriveWhole == Spec => []StreamFaithful
<1>1. IInv => StreamFaithful
  BY DEF IInv
<1> QED BY Invariance, <1>1, PTL

\* Complete, whenever it is sent, carries the summary if the run has one.
THEOREM SummaryIsCarried == Spec => CompleteHasSummary
<1> DEFINE Carried(c) ==
      Len(sent'[c]) > Len(sent[c]) /\ Last(sent'[c]).type = "complete"
         /\ (summaryFile = "whole" \/ stored)
       => Last(sent'[c]).body = "whole"
<1>1. ASSUME TypeOK, [Next]_vars, NEW c \in Conns PROVE Carried(c)
  <2>0. sent[c] \in Seq(EventType) /\ Len(sent[c]) \in Nat
    BY <1>1 DEF TypeOK
  <2>1. CASE sent'[c] = sent[c] \/ sent'[c] = <<>>
    BY <2>0, <2>1
  <2>2. ASSUME NEW line \in Seq(Nat), sent'[c] = Append(sent[c], Progress(line))
        PROVE  Carried(c)
    <3>1. Progress(line) \in EventType
      BY EventTypes
    <3>2. Last(sent'[c]) = Progress(line)
      BY <2>0, <2>2, <3>1 DEF Last
    <3> QED BY <3>2 DEF Progress
  <2>3. ASSUME NEW body \in {"whole", "null"}, sent'[c] = Append(sent[c], Complete(body)),
               summaryFile = "whole" \/ stored => body = "whole"
        PROVE  Carried(c)
    <3>1. Complete(body) \in EventType
      BY EventTypes
    <3>2. Last(sent'[c]) = Complete(body)
      BY <2>0, <2>3, <3>1 DEF Last
    <3> QED BY <2>3, <3>2 DEF Complete
  <2>4. summaryFile = "whole" \/ stored =>
          (IF loadSummary = "whole" THEN "whole" ELSE "null") = "whole"
    BY DEF loadSummary
  <2>5. Written(c)
    BY <1>1, SentSteps
  <2> QED BY <2>1, <2>2, <2>3, <2>4, <2>5 DEF Written
<1>2. ASSUME TypeOK, [Next]_vars PROVE [\A c \in Conns : Carried(c)]_vars
  BY <1>1, <1>2
<1> QED BY <1>2, TypeCorrect, PTL DEF Spec, CompleteHasSummary
=============================================================================
