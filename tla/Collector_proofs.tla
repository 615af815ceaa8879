------------------------- MODULE Collector_proofs -------------------------
(***************************************************************************)
(* Proofs about Collector, for every number of shards, of submissions, of  *)
(* channel slots and of rows in a batch.                                   *)
(***************************************************************************)
EXTENDS Collector, TLAPS

LEMMA LaneType == \A x \in Items : LaneOf(x) \in Lanes
BY CollectorAssumption DEF Items, LaneOf, Lanes, OutcomeLane, Shards

LEMMA AppendSet ==
  ASSUME NEW S, NEW s \in Seq(S), NEW e \in S
  PROVE  /\ Append(s, e) \in Seq(S) /\ Len(Append(s, e)) = Len(s) + 1
         /\ ToSet(Append(s, e)) = ToSet(s) \cup {e}
<1>1. /\ Append(s, e) \in Seq(S) /\ Len(Append(s, e)) = Len(s) + 1
      /\ Append(s, e)[Len(s) + 1] = e
      /\ \A i \in 1 .. Len(s) : Append(s, e)[i] = s[i]
  OBVIOUS
<1>2. /\ DOMAIN s = 1 .. Len(s) /\ Len(s) \in Nat
      /\ DOMAIN Append(s, e) = 1 .. Len(s) + 1
  OBVIOUS
<1>3. ToSet(Append(s, e)) \subseteq ToSet(s) \cup {e}
  BY <1>1, <1>2 DEF ToSet
<1>4. ToSet(s) \cup {e} \subseteq ToSet(Append(s, e))
  BY <1>1, <1>2 DEF ToSet
<1> QED BY <1>1, <1>3, <1>4

LEMMA HeadTail ==
  ASSUME NEW S, NEW s \in Seq(S), s # <<>>
  PROVE  /\ Head(s) \in S /\ Tail(s) \in Seq(S) /\ Len(Tail(s)) = Len(s) - 1
         /\ ToSet(s) = {Head(s)} \cup ToSet(Tail(s))
<1>1. /\ Head(s) \in S /\ Tail(s) \in Seq(S) /\ Len(Tail(s)) = Len(s) - 1
      /\ Head(s) = s[1] /\ \A i \in 1 .. Len(s) - 1 : Tail(s)[i] = s[i + 1]
      /\ Len(s) \in Nat \ {0} /\ DOMAIN s = 1 .. Len(s)
      /\ DOMAIN Tail(s) = 1 .. Len(s) - 1
  OBVIOUS
<1>2. ToSet(s) \subseteq {Head(s)} \cup ToSet(Tail(s))
  <2> SUFFICES ASSUME NEW i \in 1 .. Len(s), i # 1 PROVE s[i] \in ToSet(Tail(s))
    BY <1>1 DEF ToSet
  <2>1. i - 1 \in DOMAIN Tail(s) /\ Tail(s)[i - 1] = s[i]
    BY <1>1
  <2> QED BY <2>1 DEF ToSet
<1>3. {Head(s)} \cup ToSet(Tail(s)) \subseteq ToSet(s)
  BY <1>1 DEF ToSet
<1> QED BY <1>1, <1>2, <1>3

\* The stages of Stop, and what a lane that exited has left behind.
StopInv ==
  /\ stopped <=> stopPc # "idle"
  /\ stopPc = "idle" => closedLanes = 0
  /\ stopPc = "close" => closedLanes <= NumShards
  /\ stopPc \in {"wait", "writers", "returned"} => closedLanes = NumShards + 1
  /\ stopPc \in {"idle", "close", "wait"} => closedWriters = 0 /\ ~drained
  /\ stopPc = "writers" => closedWriters <= NumShards
  /\ stopPc = "returned" => closedWriters = NumShards + 1
  /\ stopPc # "returned" => merged = 0
  /\ summary.trust # "none" => merged = NumShards

LaneInv ==
  \A l \in Lanes :
    /\ lpc[l] = "recv" => Len(batch[l]) < BatchSize
    /\ lpc[l] = "exited" => l < closedLanes /\ queue[l] = <<>> /\ batch[l] = <<>>
    /\ drained => lpc[l] = "exited"

\* An accepted item is in its channel, in its lane's batch, or accounted for.
Kept(x) == x \in folded /\ x \in written \cup failed
PlaceInv ==
  (stopPc \in {"idle", "close", "wait"} \/ drained) =>
    \A x \in Accepted :
      x \in ToSet(queue[LaneOf(x)]) \/ x \in ToSet(batch[LaneOf(x)]) \/ Kept(x)

\* Aggregate has what the shards it has read had folded.
MergeInv ==
  drained => \A e \in Events :
               e \in Accepted /\ ShardOf[e] < merged => e \in summary.items

\* Who is in the middle of a send after Stop began was there before, and the
\* drops that were counted are those that happened.
RaceInv ==
  /\ \A x \in Items :
       /\ stopped /\ spc[x] \in {"send", "drop", "count"} => x \in racing
       /\ spc[x] = "full" => fullDrops + rowDrops > 0
  /\ summary.trust = "high" =>
       \A x \in Items : spc[x] \in {"drop", "full"} => x \in racing

-----------------------------------------------------------------------------

\* Every step keeps the types; no channel and no batch outgrows its bound.
LEMMA TypeNext ==
  ASSUME TypeOK, StopInv, LaneInv, [Next]_vars
  PROVE  TypeOK'
<1> USE DEF vars, stopVars, laneVars, counterVars, aggVars
<1>1. ASSUME NEW x \in Items, RejectLate(x) PROVE TypeOK'
  <2>1. lateDrops' \in Nat /\ spc' = [spc EXCEPT ![x] = "late"]
    BY <1>1 DEF RejectLate, TypeOK
  <2> QED BY <1>1, <2>1 DEF RejectLate, TypeOK
<1>2. ASSUME NEW x \in Items, PassCheck(x) PROVE TypeOK'
  BY <1>2 DEF PassCheck, TypeOK
<1>3. ASSUME NEW x \in Items, Enqueue(x) PROVE TypeOK'
  <2> DEFINE l == LaneOf(x)
  <2>1. l \in Lanes /\ queue[l] \in Seq(Items) /\ Len(queue[l]) < Buffer
    BY <1>3, LaneType DEF Enqueue, TypeOK
  <2>2. queue' = [queue EXCEPT ![l] = Append(queue[l], x)]
    BY <1>3 DEF Enqueue
  <2>3. Append(queue[l], x) \in Seq(Items) /\ Len(Append(queue[l], x)) <= Buffer
    BY <2>1, CollectorAssumption
  <2> HIDE DEF l
  <2>4. queue' \in [Lanes -> Seq(Items)] /\ \A k \in Lanes : Len(queue'[k]) <= Buffer
    BY <2>1, <2>2, <2>3 DEF TypeOK
  <2>5. spc' \in [Items -> {"idle", "send", "count", "accepted", "drop", "full", "late"}]
    BY <1>3 DEF Enqueue, TypeOK
  <2> QED BY <1>3, <2>4, <2>5 DEF Enqueue, TypeOK
<1>4. ASSUME NEW x \in Items, CountSubmitted(x) PROVE TypeOK'
  BY <1>4 DEF CountSubmitted, TypeOK
<1>5. ASSUME NEW x \in Items, DropFull(x) PROVE TypeOK'
  BY <1>5 DEF DropFull, TypeOK
<1>6. ASSUME NEW x \in Items, recordFullDrop(x) PROVE TypeOK'
  <2>1. fullDrops' \in Nat /\ rowDrops' \in Nat
    BY <1>6 DEF recordFullDrop, TypeOK
  <2>2. spc' \in [Items -> {"idle", "send", "count", "accepted", "drop", "full", "late"}]
    BY <1>6 DEF recordFullDrop, TypeOK
  <2> QED BY <1>6, <2>1, <2>2 DEF recordFullDrop, TypeOK
<1>7. ASSUME NEW x \in Items, SendOnClosed(x) PROVE TypeOK'
  BY <1>7 DEF SendOnClosed, TypeOK
<1>8. ASSUME NEW l \in Lanes, Receive(l) PROVE TypeOK'
  <2> DEFINE e == Head(queue[l])
  <2>1. /\ queue[l] \in Seq(Items) /\ queue[l] # <<>> /\ Len(queue[l]) <= Buffer
        /\ batch[l] \in Seq(Items) /\ Len(batch[l]) < BatchSize
    BY <1>8 DEF Receive, TypeOK, LaneInv
  <2>2. /\ e \in Items /\ Tail(queue[l]) \in Seq(Items)
        /\ Len(Tail(queue[l])) <= Buffer
    BY <2>1, HeadTail, CollectorAssumption
  <2>3. Append(batch[l], e) \in Seq(Items) /\ Len(Append(batch[l], e)) <= BatchSize
    BY <2>1, <2>2, CollectorAssumption
  <2>4. /\ queue' = [queue EXCEPT ![l] = Tail(queue[l])]
        /\ batch' = [batch EXCEPT ![l] = Append(batch[l], e)]
        /\ folded' \subseteq folded \cup {e}
        /\ lpc' \in [Lanes -> {"recv", "flush", "write", "exited"}]
    BY <1>8 DEF Receive, TypeOK
  <2> HIDE DEF e
  <2>5. queue' \in [Lanes -> Seq(Items)] /\ \A k \in Lanes : Len(queue'[k]) <= Buffer
    BY <2>2, <2>4 DEF TypeOK
  <2>6. batch' \in [Lanes -> Seq(Items)] /\ \A k \in Lanes : Len(batch'[k]) <= BatchSize
    BY <2>3, <2>4 DEF TypeOK
  <2>7. folded' \subseteq Items
    BY <2>2, <2>4 DEF TypeOK
  <2> QED BY <1>8, <2>4, <2>5, <2>6, <2>7 DEF Receive, TypeOK
<1>9. ASSUME NEW l \in Lanes, Tick(l) PROVE TypeOK'
  BY <1>9 DEF Tick, TypeOK
<1>10. ASSUME NEW l \in Lanes, Exit(l) PROVE TypeOK'
  BY <1>10 DEF Exit, TypeOK
<1>11. ASSUME NEW l \in Lanes, BeginWrite(l) PROVE TypeOK'
  BY <1>11 DEF BeginWrite, TypeOK
<1>12. ASSUME NEW l \in Lanes, WriteRows(l) PROVE TypeOK'
  <2>1. ToSet(batch[l]) \subseteq Items
    BY DEF TypeOK, ToSet
  <2>2. written' \subseteq Items /\ folded' \subseteq Items
    BY <1>12, <2>1 DEF WriteRows, EndFlush, TypeOK
  <2>3. batch' \in [Lanes -> Seq(Items)] /\ \A k \in Lanes : Len(batch'[k]) <= BatchSize
    BY <1>12, CollectorAssumption DEF WriteRows, EndFlush, TypeOK
  <2> QED BY <1>12, <2>2, <2>3 DEF WriteRows, EndFlush, TypeOK
<1>13. ASSUME NEW l \in Lanes, WriteFails(l) PROVE TypeOK'
  <2>1. ToSet(batch[l]) \subseteq Items
    BY DEF TypeOK, ToSet
  <2>2. failed' \subseteq Items /\ folded' \subseteq Items
    BY <1>13, <2>1 DEF WriteFails, EndFlush, TypeOK
  <2>3. batch' \in [Lanes -> Seq(Items)] /\ \A k \in Lanes : Len(batch'[k]) <= BatchSize
    BY <1>13, CollectorAssumption DEF WriteFails, EndFlush, TypeOK
  <2> QED BY <1>13, <2>2, <2>3 DEF WriteFails, EndFlush, TypeOK
<1>14. ASSUME NEW l \in Lanes, WriteReopens(l) PROVE TypeOK'
  <2>1. ToSet(batch[l]) \subseteq Items
    BY DEF TypeOK, ToSet
  <2>2. written' \subseteq Items /\ folded' \subseteq Items
    BY <1>14, <2>1 DEF WriteReopens, EndFlush, TypeOK
  <2>3. batch' \in [Lanes -> Seq(Items)] /\ \A k \in Lanes : Len(batch'[k]) <= BatchSize
    BY <1>14, CollectorAssumption DEF WriteReopens, EndFlush, TypeOK
  <2> QED BY <1>14, <2>2, <2>3 DEF WriteReopens, EndFlush, TypeOK
<1>15. ASSUME NEW l \in Lanes, WriteRaces(l) PROVE TypeOK'
  BY <1>15 DEF WriteRaces, TypeOK
<1>16. CASE SetStopped
  BY <1>16 DEF SetStopped, TypeOK
<1>17. CASE CloseLane
  BY <1>17, CollectorAssumption DEF CloseLane, TypeOK, StopInv
<1>18. CASE AllDrained
  BY <1>18 DEF AllDrained, TypeOK
<1>19. CASE StopCtxDone
  BY <1>19 DEF StopCtxDone, TypeOK
<1>20. CASE CloseWriter
  BY <1>20, CollectorAssumption DEF CloseWriter, TypeOK, StopInv
<1>21. CASE MergeShard
  <2>1. summary' \in [trust : {"none", "high", "medium", "low"}, items : SUBSET Events]
    BY <1>21 DEF MergeShard, TypeOK
  <2>2. merged' \in 0 .. NumShards
    BY <1>21, CollectorAssumption DEF MergeShard, TypeOK
  <2> QED BY <1>21, <2>1, <2>2 DEF MergeShard, TypeOK
<1>22. CASE WriteSummary
  BY <1>22 DEF WriteSummary, Trust, TypeOK
<1>23. CASE UNCHANGED vars
  BY <1>23 DEF TypeOK
<1> QED BY <1>1, <1>2, <1>3, <1>4, <1>5, <1>6, <1>7, <1>8, <1>9, <1>10, <1>11, <1>12,
           <1>13, <1>14, <1>15, <1>16, <1>17, <1>18, <1>19, <1>20, <1>21, <1>22, <1>23
  DEF Next, Submitter, Lane, Stopper

\* Stop goes through its stages in order.
LEMMA StopNext ==
  ASSUME TypeOK, StopInv, LaneInv, [Next]_vars
  PROVE  StopInv'
<1> USE DEF vars, stopVars, laneVars, counterVars, aggVars
<1>1. ASSUME NEW x \in Items, RejectLate(x) PROVE StopInv'
  BY <1>1 DEF RejectLate, StopInv
<1>2. ASSUME NEW x \in Items, PassCheck(x) PROVE StopInv'
  BY <1>2 DEF PassCheck, StopInv
<1>3. ASSUME NEW x \in Items, Enqueue(x) PROVE StopInv'
  BY <1>3 DEF Enqueue, StopInv
<1>4. ASSUME NEW x \in Items, CountSubmitted(x) PROVE StopInv'
  BY <1>4 DEF CountSubmitted, StopInv
<1>5. ASSUME NEW x \in Items, DropFull(x) PROVE StopInv'
  BY <1>5 DEF DropFull, StopInv
<1>6. ASSUME NEW x \in Items, recordFullDrop(x) PROVE StopInv'
  BY <1>6 DEF recordFullDrop, StopInv
<1>7. ASSUME NEW x \in Items, SendOnClosed(x) PROVE StopInv'
  BY <1>7 DEF SendOnClosed, StopInv
<1>8. ASSUME NEW l \in Lanes, Receive(l) PROVE StopInv'
  BY <1>8 DEF Receive, StopInv
<1>9. ASSUME NEW l \in Lanes, Tick(l) PROVE StopInv'
  BY <1>9 DEF Tick, StopInv
<1>10. ASSUME NEW l \in Lanes, Exit(l) PROVE StopInv'
  BY <1>10 DEF Exit, StopInv
<1>11. ASSUME NEW l \in Lanes, BeginWrite(l) PROVE StopInv'
  BY <1>11 DEF BeginWrite, StopInv
<1>12. ASSUME NEW l \in Lanes, WriteRows(l) PROVE StopInv'
  BY <1>12 DEF WriteRows, EndFlush, StopInv
<1>13. ASSUME NEW l \in Lanes, WriteFails(l) PROVE StopInv'
  BY <1>13 DEF WriteFails, EndFlush, StopInv
<1>14. ASSUME NEW l \in Lanes, WriteReopens(l) PROVE StopInv'
  BY <1>14 DEF WriteReopens, EndFlush, StopInv
<1>15. ASSUME NEW l \in Lanes, WriteRaces(l) PROVE StopInv'
  BY <1>15 DEF WriteRaces, StopInv
<1>16. CASE SetStopped
  BY <1>16 DEF SetStopped, TypeOK, StopInv
<1>17. CASE CloseLane
  BY <1>17, CollectorAssumption DEF CloseLane, TypeOK, OutcomeLane, StopInv
<1>18. CASE AllDrained
  BY <1>18 DEF AllDrained, TypeOK, StopInv
<1>19. CASE StopCtxDone
  BY <1>19 DEF StopCtxDone, TypeOK, StopInv
<1>20. CASE CloseWriter
  BY <1>20, CollectorAssumption DEF CloseWriter, TypeOK, OutcomeLane, StopInv
<1>21. CASE MergeShard
  BY <1>21 DEF MergeShard, TypeOK, StopInv
<1>22. CASE WriteSummary
  BY <1>22 DEF WriteSummary, Trust, StopInv
<1>23. CASE UNCHANGED vars
  BY <1>23 DEF StopInv
<1> QED BY <1>1, <1>2, <1>3, <1>4, <1>5, <1>6, <1>7, <1>8, <1>9, <1>10, <1>11, <1>12,
           <1>13, <1>14, <1>15, <1>16, <1>17, <1>18, <1>19, <1>20, <1>21, <1>22, <1>23
  DEF Next, Submitter, Lane, Stopper

\* A lane that exited stays empty: its channel is closed.
LEMMA LaneNext ==
  ASSUME TypeOK, StopInv, LaneInv, [Next]_vars
  PROVE  LaneInv'
<1> USE DEF vars, stopVars, laneVars, counterVars, aggVars
<1>1. ASSUME NEW x \in Items, RejectLate(x) PROVE LaneInv'
  BY <1>1 DEF RejectLate, LaneInv
<1>2. ASSUME NEW x \in Items, PassCheck(x) PROVE LaneInv'
  BY <1>2 DEF PassCheck, LaneInv
<1>3. ASSUME NEW x \in Items, Enqueue(x) PROVE LaneInv'
  <2> DEFINE l == LaneOf(x)
  <2>1. /\ l \in Lanes /\ l >= closedLanes
        /\ queue' = [queue EXCEPT ![l] = Append(queue[l], x)]
        /\ UNCHANGED <<closedLanes, lpc, batch, drained>>
    BY <1>3, LaneType DEF Enqueue
  <2> HIDE DEF l
  <2>2. lpc[l] # "exited"
    BY <2>1 DEF TypeOK, LaneInv, Lanes
  <2> QED BY <2>1, <2>2 DEF LaneInv
<1>4. ASSUME NEW x \in Items, CountSubmitted(x) PROVE LaneInv'
  BY <1>4 DEF CountSubmitted, LaneInv
<1>5. ASSUME NEW x \in Items, DropFull(x) PROVE LaneInv'
  BY <1>5 DEF DropFull, LaneInv
<1>6. ASSUME NEW x \in Items, recordFullDrop(x) PROVE LaneInv'
  BY <1>6 DEF recordFullDrop, LaneInv
<1>7. ASSUME NEW x \in Items, SendOnClosed(x) PROVE LaneInv'
  BY <1>7 DEF SendOnClosed, LaneInv
<1>8. ASSUME NEW l \in Lanes, Receive(l) PROVE LaneInv'
  <2>1. /\ lpc[l] = "recv" /\ ~drained
        /\ UNCHANGED <<closedLanes, drained>>
        /\ \A k \in Lanes \ {l} :
             lpc'[k] = lpc[k] /\ queue'[k] = queue[k] /\ batch'[k] = batch[k]
    BY <1>8 DEF Receive, LaneInv
  <2>2. lpc'[l] = "recv" => Len(batch'[l]) < BatchSize
    <3>1. batch'[l] = Append(batch[l], Head(queue[l])) /\ batch[l] \in Seq(Items)
      BY <1>8 DEF Receive, TypeOK
    <3>2. Len(batch'[l]) = Len(batch[l]) + 1
      BY <3>1
    <3>3. lpc'[l] = IF Len(batch[l]) + 1 >= BatchSize THEN "flush" ELSE "recv"
      BY <1>8 DEF Receive, TypeOK
    <3>4. Len(batch[l]) \in Nat
      BY <3>1
    <3> QED BY <3>2, <3>3, <3>4, CollectorAssumption
  <2>3. lpc'[l] # "exited"
    BY <1>8 DEF Receive
  <2> QED BY <2>1, <2>2, <2>3 DEF LaneInv
<1>9. ASSUME NEW l \in Lanes, Tick(l) PROVE LaneInv'
  BY <1>9 DEF Tick, LaneInv
<1>10. ASSUME NEW l \in Lanes, Exit(l) PROVE LaneInv'
  BY <1>10 DEF Exit, LaneInv
<1>11. ASSUME NEW l \in Lanes, BeginWrite(l) PROVE LaneInv'
  BY <1>11 DEF BeginWrite, LaneInv
<1>12. ASSUME NEW l \in Lanes, WriteRows(l) PROVE LaneInv'
  BY <1>12, CollectorAssumption DEF WriteRows, EndFlush, TypeOK, LaneInv
<1>13. ASSUME NEW l \in Lanes, WriteFails(l) PROVE LaneInv'
  BY <1>13, CollectorAssumption DEF WriteFails, EndFlush, TypeOK, LaneInv
<1>14. ASSUME NEW l \in Lanes, WriteReopens(l) PROVE LaneInv'
  <2>1. lpc' = [lpc EXCEPT ![l] = "recv"] /\ batch' = [batch EXCEPT ![l] = <<>>]
    BY <1>14 DEF WriteReopens, EndFlush
  <2>2. UNCHANGED <<queue, closedLanes, drained>> /\ lpc[l] = "write"
    BY <1>14 DEF WriteReopens
  <2> QED BY <2>1, <2>2, CollectorAssumption DEF TypeOK, LaneInv
<1>15. ASSUME NEW l \in Lanes, WriteRaces(l) PROVE LaneInv'
  BY <1>15 DEF WriteRaces, LaneInv
<1>16. CASE SetStopped
  BY <1>16 DEF SetStopped, LaneInv
<1>17. CASE CloseLane
  BY <1>17 DEF CloseLane, TypeOK, Lanes, LaneInv
<1>18. CASE AllDrained
  BY <1>18 DEF AllDrained, LaneInv
<1>19. CASE StopCtxDone
  BY <1>19 DEF StopCtxDone, LaneInv
<1>20. CASE CloseWriter
  BY <1>20 DEF CloseWriter, LaneInv
<1>21. CASE MergeShard
  BY <1>21 DEF MergeShard, LaneInv
<1>22. CASE WriteSummary
  BY <1>22 DEF WriteSummary, Trust, LaneInv
<1>23. CASE UNCHANGED vars
  BY <1>23 DEF LaneInv
<1> QED BY <1>1, <1>2, <1>3, <1>4, <1>5, <1>6, <1>7, <1>8, <1>9, <1>10, <1>11, <1>12,
           <1>13, <1>14, <1>15, <1>16, <1>17, <1>18, <1>19, <1>20, <1>21, <1>22, <1>23
  DEF Next, Submitter, Lane, Stopper

\* Items move from channel to batch to file and never vanish before Stop gives up.
LEMMA PlaceNext ==
  ASSUME TypeOK, StopInv, LaneInv, PlaceInv, [Next]_vars
  PROVE  PlaceInv'
<1> USE DEF vars, stopVars, laneVars, counterVars, aggVars
<1>1. ASSUME NEW x \in Items, RejectLate(x) PROVE PlaceInv'
  BY <1>1 DEF RejectLate, PlaceInv, Accepted, Kept
<1>2. ASSUME NEW x \in Items, PassCheck(x) PROVE PlaceInv'
  BY <1>2 DEF PassCheck, PlaceInv, Accepted, Kept
<1>3. ASSUME NEW x \in Items, Enqueue(x) PROVE PlaceInv'
  <2> DEFINE l == LaneOf(x)
  <2>1. /\ l \in Lanes /\ queue[l] \in Seq(Items)
        /\ queue' = [queue EXCEPT ![l] = Append(queue[l], x)]
        /\ Accepted' \subseteq Accepted \cup {x}
        /\ UNCHANGED <<stopPc, drained, batch, folded, written, failed>>
    BY <1>3, LaneType DEF Enqueue, TypeOK, Accepted
  <2>2. ToSet(Append(queue[l], x)) = ToSet(queue[l]) \cup {x}
    BY <2>1, AppendSet
  <2>3. \A y \in Items : ToSet(queue[LaneOf(y)]) \subseteq ToSet(queue'[LaneOf(y)])
    BY <2>1, <2>2
  <2>4. x \in ToSet(queue'[LaneOf(x)])
    BY <2>1, <2>2 DEF TypeOK
  <2> QED BY <2>1, <2>3, <2>4 DEF PlaceInv, Accepted, Kept
<1>4. ASSUME NEW x \in Items, CountSubmitted(x) PROVE PlaceInv'
  BY <1>4 DEF CountSubmitted, PlaceInv, Accepted, Kept
<1>5. ASSUME NEW x \in Items, DropFull(x) PROVE PlaceInv'
  BY <1>5 DEF DropFull, PlaceInv, Accepted, Kept
<1>6. ASSUME NEW x \in Items, recordFullDrop(x) PROVE PlaceInv'
  BY <1>6 DEF recordFullDrop, PlaceInv, Accepted, Kept
<1>7. ASSUME NEW x \in Items, SendOnClosed(x) PROVE PlaceInv'
  BY <1>7 DEF SendOnClosed, PlaceInv, Accepted, Kept
<1>8. ASSUME NEW l \in Lanes, Receive(l) PROVE PlaceInv'
  <2> DEFINE e == Head(queue[l])
  <2>1. /\ queue[l] \in Seq(Items) /\ queue[l] # <<>> /\ batch[l] \in Seq(Items)
        /\ queue' = [queue EXCEPT ![l] = Tail(queue[l])]
        /\ batch' = [batch EXCEPT ![l] = Append(batch[l], e)]
        /\ folded \subseteq folded'
        /\ UNCHANGED <<stopPc, drained, spc, written, failed>>
    BY <1>8 DEF Receive, TypeOK
  <2>2. e \in Items /\ ToSet(queue[l]) = {e} \cup ToSet(Tail(queue[l]))
    BY <2>1, HeadTail
  <2>3. ToSet(Append(batch[l], e)) = ToSet(batch[l]) \cup {e}
    BY <2>1, <2>2, AppendSet
  <2> HIDE DEF e
  <2>4. \A k \in Lanes : ToSet(queue[k]) \cup ToSet(batch[k])
                            = ToSet(queue'[k]) \cup ToSet(batch'[k])
    BY <2>1, <2>2, <2>3 DEF TypeOK
  <2> QED BY <2>1, <2>4, LaneType, ZenonT(60) DEF PlaceInv, Accepted, Kept
<1>9. ASSUME NEW l \in Lanes, Tick(l) PROVE PlaceInv'
  BY <1>9 DEF Tick, PlaceInv, Accepted, Kept
<1>10. ASSUME NEW l \in Lanes, Exit(l) PROVE PlaceInv'
  BY <1>10 DEF Exit, PlaceInv, Accepted, Kept
<1>11. ASSUME NEW l \in Lanes, BeginWrite(l) PROVE PlaceInv'
  BY <1>11 DEF BeginWrite, PlaceInv, Accepted, Kept
<1>12. ASSUME NEW l \in Lanes, WriteRows(l) PROVE PlaceInv'
  <2>1. /\ batch' = [batch EXCEPT ![l] = <<>>]
        /\ folded' = folded \cup ToSet(batch[l])
        /\ written' = written \cup ToSet(batch[l])
        /\ UNCHANGED <<stopPc, drained, spc, queue, failed>>
    BY <1>12 DEF WriteRows, EndFlush
  <2>2. \A k \in Lanes \ {l} : batch'[k] = batch[k]
    BY <2>1
  <2> QED BY <2>1, <2>2 DEF PlaceInv, Accepted, Kept
<1>13. ASSUME NEW l \in Lanes, WriteFails(l) PROVE PlaceInv'
  <2>1. /\ batch' = [batch EXCEPT ![l] = <<>>]
        /\ folded' = folded \cup ToSet(batch[l])
        /\ failed' = failed \cup ToSet(batch[l])
        /\ UNCHANGED <<stopPc, drained, spc, queue, written>>
    BY <1>13 DEF WriteFails, EndFlush
  <2>2. \A k \in Lanes \ {l} : batch'[k] = batch[k]
    BY <2>1
  <2> QED BY <2>1, <2>2 DEF PlaceInv, Accepted, Kept
<1>14. ASSUME NEW l \in Lanes, WriteReopens(l) PROVE PlaceInv'
  BY <1>14 DEF WriteReopens, EndFlush, Lanes, StopInv, LaneInv, PlaceInv, Accepted
<1>15. ASSUME NEW l \in Lanes, WriteRaces(l) PROVE PlaceInv'
  BY <1>15 DEF WriteRaces, PlaceInv, Accepted, Kept
<1>16. CASE SetStopped
  BY <1>16 DEF SetStopped, PlaceInv, Accepted, Kept
<1>17. CASE CloseLane
  BY <1>17 DEF CloseLane, PlaceInv, Accepted, Kept
<1>18. CASE AllDrained
  BY <1>18 DEF AllDrained, PlaceInv, Accepted, Kept
<1>19. CASE StopCtxDone
  BY <1>19 DEF StopCtxDone, PlaceInv, Accepted, Kept
<1>20. CASE CloseWriter
  BY <1>20 DEF CloseWriter, PlaceInv, Accepted, Kept
<1>21. CASE MergeShard
  BY <1>21 DEF MergeShard, PlaceInv, Accepted, Kept
<1>22. CASE WriteSummary
  BY <1>22 DEF WriteSummary, Trust, PlaceInv, Accepted, Kept
<1>23. CASE UNCHANGED vars
  BY <1>23 DEF PlaceInv, Accepted, Kept
<1> QED BY <1>1, <1>2, <1>3, <1>4, <1>5, <1>6, <1>7, <1>8, <1>9, <1>10, <1>11, <1>12,
           <1>13, <1>14, <1>15, <1>16, <1>17, <1>18, <1>19, <1>20, <1>21, <1>22, <1>23
  DEF Next, Submitter, Lane, Stopper

\* After the drain no event is accepted, and every one is folded.
LEMMA MergeNext ==
  ASSUME TypeOK, StopInv, LaneInv, PlaceInv, MergeInv, [Next]_vars
  PROVE  MergeInv'
<1> USE DEF vars, stopVars, laneVars, counterVars, aggVars
<1>1. ASSUME NEW x \in Items, RejectLate(x) PROVE MergeInv'
  BY <1>1 DEF RejectLate, MergeInv, Accepted
<1>2. ASSUME NEW x \in Items, PassCheck(x) PROVE MergeInv'
  BY <1>2 DEF PassCheck, MergeInv, Accepted
<1>3. ASSUME NEW x \in Items, Enqueue(x) PROVE MergeInv'
  BY <1>3, LaneType DEF Enqueue, TypeOK, Lanes, LaneInv, MergeInv, Accepted
<1>4. ASSUME NEW x \in Items, CountSubmitted(x) PROVE MergeInv'
  BY <1>4 DEF CountSubmitted, MergeInv, Accepted
<1>5. ASSUME NEW x \in Items, DropFull(x) PROVE MergeInv'
  BY <1>5 DEF DropFull, MergeInv, Accepted
<1>6. ASSUME NEW x \in Items, recordFullDrop(x) PROVE MergeInv'
  BY <1>6 DEF recordFullDrop, MergeInv, Accepted
<1>7. ASSUME NEW x \in Items, SendOnClosed(x) PROVE MergeInv'
  BY <1>7 DEF SendOnClosed, MergeInv, Accepted
<1>8. ASSUME NEW l \in Lanes, Receive(l) PROVE MergeInv'
  BY <1>8 DEF Receive, MergeInv, Accepted
<1>9. ASSUME NEW l \in Lanes, Tick(l) PROVE MergeInv'
  BY <1>9 DEF Tick, MergeInv, Accepted
<1>10. ASSUME NEW l \in Lanes, Exit(l) PROVE MergeInv'
  BY <1>10 DEF Exit, MergeInv, Accepted
<1>11. ASSUME NEW l \in Lanes, BeginWrite(l) PROVE MergeInv'
  BY <1>11 DEF BeginWrite, MergeInv, Accepted
<1>12. ASSUME NEW l \in Lanes, WriteRows(l) PROVE MergeInv'
  BY <1>12 DEF WriteRows, EndFlush, MergeInv, Accepted
<1>13. ASSUME NEW l \in Lanes, WriteFails(l) PROVE MergeInv'
  BY <1>13 DEF WriteFails, EndFlush, MergeInv, Accepted
<1>14. ASSUME NEW l \in Lanes, WriteReopens(l) PROVE MergeInv'
  BY <1>14 DEF WriteReopens, EndFlush, MergeInv, Accepted
<1>15. ASSUME NEW l \in Lanes, WriteRaces(l) PROVE MergeInv'
  BY <1>15 DEF WriteRaces, MergeInv, Accepted
<1>16. CASE SetStopped
  BY <1>16 DEF SetStopped, MergeInv, Accepted
<1>17. CASE CloseLane
  BY <1>17 DEF CloseLane, MergeInv, Accepted
<1>18. CASE AllDrained
  BY <1>18, CollectorAssumption DEF AllDrained, Shards, StopInv, MergeInv, Accepted
<1>19. CASE StopCtxDone
  BY <1>19 DEF StopCtxDone, MergeInv, Accepted
<1>20. CASE CloseWriter
  BY <1>20 DEF CloseWriter, MergeInv, Accepted
<1>21. CASE MergeShard
  <2> SUFFICES ASSUME drained, NEW e \in Events, e \in Accepted,
                      ShardOf[e] < merged + 1
               PROVE  e \in summary'.items
    BY <1>21 DEF MergeShard, MergeInv, Accepted
  <2>1. /\ ShardOf[e] \in Nat /\ LaneOf(e) \in Lanes
        /\ merged \in Nat
    BY CollectorAssumption, LaneType DEF TypeOK, Shards, Accepted
  <2>2. e \in folded
    BY <2>1 DEF LaneInv, PlaceInv, Kept, ToSet
  <2>3. summary'.items = summary.items \cup {d \in folded \cap Events : ShardOf[d] = merged}
    BY <1>21 DEF MergeShard
  <2>4. CASE ShardOf[e] < merged
    BY <2>3, <2>4 DEF MergeInv
  <2>5. CASE ShardOf[e] = merged
    BY <2>2, <2>3, <2>5
  <2> QED BY <2>1, <2>4, <2>5
<1>22. CASE WriteSummary
  BY <1>22 DEF WriteSummary, Trust, MergeInv, Accepted
<1>23. CASE UNCHANGED vars
  BY <1>23 DEF MergeInv, Accepted
<1> QED BY <1>1, <1>2, <1>3, <1>4, <1>5, <1>6, <1>7, <1>8, <1>9, <1>10, <1>11, <1>12,
           <1>13, <1>14, <1>15, <1>16, <1>17, <1>18, <1>19, <1>20, <1>21, <1>22, <1>23
  DEF Next, Submitter, Lane, Stopper

\* A full channel is counted before its Submit returns.
LEMMA RaceNext ==
  ASSUME TypeOK, StopInv, LaneInv, RaceInv, [Next]_vars
  PROVE  RaceInv'
<1> USE DEF vars, stopVars, laneVars, counterVars, aggVars
<1>1. ASSUME NEW x \in Items, RejectLate(x) PROVE RaceInv'
  BY <1>1 DEF RejectLate, RaceInv
<1>2. ASSUME NEW x \in Items, PassCheck(x) PROVE RaceInv'
  BY <1>2 DEF PassCheck, RaceInv
<1>3. ASSUME NEW x \in Items, Enqueue(x) PROVE RaceInv'
  BY <1>3 DEF Enqueue, RaceInv
<1>4. ASSUME NEW x \in Items, CountSubmitted(x) PROVE RaceInv'
  BY <1>4 DEF CountSubmitted, RaceInv
<1>5. ASSUME NEW x \in Items, DropFull(x) PROVE RaceInv'
  <2>1. summary.trust # "none" => stopped
    BY CollectorAssumption DEF StopInv
  <2> QED BY <1>5, <2>1 DEF DropFull, RaceInv
<1>6. ASSUME NEW x \in Items, recordFullDrop(x) PROVE RaceInv'
  <2>1. fullDrops' + rowDrops' > 0
    BY <1>6 DEF recordFullDrop, TypeOK, Items
  <2>2. /\ spc' = [spc EXCEPT ![x] = "full"] /\ spc[x] = "drop"
        /\ UNCHANGED <<stopped, racing, summary>>
    BY <1>6 DEF recordFullDrop
  <2> QED BY <2>1, <2>2 DEF RaceInv
<1>7. ASSUME NEW x \in Items, SendOnClosed(x) PROVE RaceInv'
  BY <1>7 DEF SendOnClosed, RaceInv
<1>8. ASSUME NEW l \in Lanes, Receive(l) PROVE RaceInv'
  BY <1>8 DEF Receive, RaceInv
<1>9. ASSUME NEW l \in Lanes, Tick(l) PROVE RaceInv'
  BY <1>9 DEF Tick, RaceInv
<1>10. ASSUME NEW l \in Lanes, Exit(l) PROVE RaceInv'
  BY <1>10 DEF Exit, RaceInv
<1>11. ASSUME NEW l \in Lanes, BeginWrite(l) PROVE RaceInv'
  BY <1>11 DEF BeginWrite, RaceInv
<1>12. ASSUME NEW l \in Lanes, WriteRows(l) PROVE RaceInv'
  BY <1>12 DEF WriteRows, EndFlush, RaceInv
<1>13. ASSUME NEW l \in Lanes, WriteFails(l) PROVE RaceInv'
  BY <1>13 DEF WriteFails, EndFlush, RaceInv
<1>14. ASSUME NEW l \in Lanes, WriteReopens(l) PROVE RaceInv'
  BY <1>14 DEF WriteReopens, EndFlush, RaceInv
<1>15. ASSUME NEW l \in Lanes, WriteRaces(l) PROVE RaceInv'
  BY <1>15 DEF WriteRaces, RaceInv
<1>16. CASE SetStopped
  <2>1. summary.trust = "none"
    BY <1>16, CollectorAssumption DEF SetStopped, StopInv
  <2> QED BY <1>16, <2>1 DEF SetStopped, RaceInv
<1>17. CASE CloseLane
  BY <1>17 DEF CloseLane, RaceInv
<1>18. CASE AllDrained
  BY <1>18 DEF AllDrained, RaceInv
<1>19. CASE StopCtxDone
  BY <1>19 DEF StopCtxDone, RaceInv
<1>20. CASE CloseWriter
  BY <1>20 DEF CloseWriter, RaceInv
<1>21. CASE MergeShard
  BY <1>21 DEF MergeShard, RaceInv
<1>22. CASE WriteSummary
  BY <1>22 DEF WriteSummary, Trust, StopInv, RaceInv
<1>23. CASE UNCHANGED vars
  BY <1>23 DEF RaceInv
<1> QED BY <1>1, <1>2, <1>3, <1>4, <1>5, <1>6, <1>7, <1>8, <1>9, <1>10, <1>11, <1>12,
           <1>13, <1>14, <1>15, <1>16, <1>17, <1>18, <1>19, <1>20, <1>21, <1>22, <1>23
  DEF Next, Submitter, Lane, Stopper

-----------------------------------------------------------------------------

IInv == /\ TypeOK /\ StopInv /\ LaneInv /\ PlaceInv /\ MergeInv /\ RaceInv

\* The invariant holds of a new collector and is kept by every step.
LEMMA Invariance == Spec => []IInv
<1>1. Init => IInv
  <2> SUFFICES ASSUME Init PROVE IInv
    OBVIOUS
  <2> USE CollectorAssumption DEF Init, NoSummary
  <2>1. TypeOK
    <3>1. /\ panicked \in BOOLEAN /\ stopped \in BOOLEAN /\ drained \in BOOLEAN
      BY Zenon
    <3>2. /\ closedLanes \in 0 .. NumShards + 1 /\ closedWriters \in 0 .. NumShards + 1
          /\ merged \in 0 .. NumShards
      OBVIOUS
    <3>3. /\ queue \in [Lanes -> Seq(Items)] /\ batch \in [Lanes -> Seq(Items)]
          /\ \A l \in Lanes : Len(queue[l]) <= Buffer /\ Len(batch[l]) <= BatchSize
      OBVIOUS
    <3>4. summary \in [trust : {"none", "high", "medium", "low"}, items : SUBSET Events]
      OBVIOUS
    <3> QED BY <3>1, <3>2, <3>3, <3>4 DEF TypeOK
  <2>2. StopInv /\ LaneInv
    BY DEF StopInv, LaneInv
  <2>3. PlaceInv /\ MergeInv /\ RaceInv
    BY DEF PlaceInv, MergeInv, RaceInv, Accepted
  <2> QED BY <2>1, <2>2, <2>3 DEF IInv
<1>2. IInv /\ [Next]_vars => IInv'
  BY TypeNext, StopNext, LaneNext, PlaceNext, MergeNext, RaceNext DEF IInv
<1> QED BY <1>1, <1>2, PTL DEF Spec

\* The variables keep their types and every channel and batch its bound.
THEOREM TypeCorrect == Spec => []TypeOK
<1>1. IInv => TypeOK
  BY DEF IInv
<1> QED BY <1>1, Invariance, PTL

\* Closing the channels and then waiting for runShard and runOutcome loses
\* nothing that a channel took, whatever was under way when Stop was called.
THEOREM Completeness == Spec => []DrainedComplete
<1>1. IInv => DrainedComplete
  <2> SUFFICES ASSUME IInv, drained, NEW x \in Accepted
               PROVE  /\ Kept(x)
                      /\ summary.trust # "none" /\ x \in Events => x \in summary.items
    BY DEF DrainedComplete, Kept
  <2>1. LaneOf(x) \in Lanes
    BY LaneType DEF Accepted
  <2>2. queue[LaneOf(x)] = <<>> /\ batch[LaneOf(x)] = <<>>
    BY <2>1 DEF IInv, LaneInv
  <2>3. Kept(x)
    BY <2>2 DEF IInv, PlaceInv, ToSet
  <2>4. ASSUME summary.trust # "none", x \in Events PROVE x \in summary.items
    BY <2>4, CollectorAssumption DEF IInv, StopInv, MergeInv, Shards
  <2> QED BY <2>3, <2>4
<1> QED BY <1>1, Invariance, PTL

\* measurementIntegrity reads its counters without stopping the submitters, and
\* high still means that nothing was dropped unless it raced with Stop.
THEOREM HighIsHigh == Spec => []HighMeansNoFullDrop
<1>1. IInv => HighMeansNoFullDrop
  BY DEF IInv, RaceInv, HighMeansNoFullDrop
<1> QED BY <1>1, Invariance, PTL

\* Once Stop has returned every writer is closed, so that a lane which is
\* still flushing cannot add to a file.
THEOREM NothingAfterStop == Spec => NothingPersistedAfterStop
<1>1. ASSUME IInv, [Next]_vars, stopPc = "returned"
      PROVE  written' \subseteq written
  <2>1. closedWriters = NumShards + 1
    BY <1>1 DEF IInv, StopInv
  <2>2. ASSUME NEW l \in Lanes, Lane(l) PROVE written' \subseteq written
    BY <2>1, <2>2, CollectorAssumption
    DEF Lane, Receive, Tick, Exit, BeginWrite, WriteRows, WriteFails,
        WriteReopens, WriteRaces, laneVars, Lanes
  <2>3. ASSUME NEW x \in Items, Submitter(x) PROVE written' \subseteq written
    BY <2>3 DEF Submitter, RejectLate, PassCheck, Enqueue, CountSubmitted,
                DropFull, recordFullDrop, SendOnClosed, laneVars
  <2>4. CASE SetStopped \/ Stopper \/ UNCHANGED vars
    BY <2>4 DEF SetStopped, Stopper, CloseLane, AllDrained, StopCtxDone,
                CloseWriter, MergeShard, WriteSummary, vars, laneVars
  <2> QED BY <1>1, <2>2, <2>3, <2>4 DEF Next
<1> QED BY <1>1, Invariance, PTL DEF Spec, NothingPersistedAfterStop

=============================================================================
