----------------------------- MODULE Collector -----------------------------
(***************************************************************************)
(* pkg/collector: Submit and SubmitOutcome are called from any goroutine   *)
(* and never block; one goroutine per shard (runShard) and one for the     *)
(* outcome rows (runOutcome) batch, fold into the aggregation and write    *)
(* Parquet; Stop closes the channels and waits for them or for its ctx;    *)
(* Aggregate then reduces what the shards folded.                          *)
(*                                                                         *)
(* The shards and the outcome stream are "lanes", the outcome lane last.   *)
(* A send on a closed channel panics: the process, and with it every       *)
(* goroutine of the model, stops there.                                    *)
(***************************************************************************)
EXTENDS Integers, Sequences, FiniteSets

CONSTANTS
  Events,      \* the Submit calls, one event each
  Rows,        \* the SubmitOutcome calls, one row each
  NumShards,   \* Opts.ShardCount
  ShardOf,     \* [Events -> 0 .. NumShards-1], SubscriberID % ShardCount
  Buffer,      \* Opts.PerShardBuffer and Opts.OutcomeBuffer
  BatchSize    \* Opts.BatchSize

Items       == Events \cup Rows
Shards      == 0 .. NumShards - 1
OutcomeLane == NumShards
Lanes       == 0 .. NumShards
LaneOf(x)   == IF x \in Events THEN ShardOf[x] ELSE OutcomeLane

ASSUME CollectorAssumption ==
  /\ NumShards \in Nat \ {0} /\ Buffer \in Nat \ {0} /\ BatchSize \in Nat \ {0}
  /\ ShardOf \in [Events -> Shards]
  /\ Events \cap Rows = {}

VARIABLES
  panicked,
  stopped,          \* Collector.stopped
  closedLanes,      \* Stop has closed the channels of lanes 0 .. closedLanes-1
  closedWriters,    \* likewise for the Parquet writers
  stopPc, drained,  \* Stop: where it is, and whether every lane had exited
  racing,           \* history: the calls under way when Stop began
  spc,              \* each Submit / SubmitOutcome
  queue, lpc, batch,\* each lane: its channel, its goroutine and its batch
  folded,           \* items in the shard aggregations and in c.outcomes
  written, failed,  \* items in a Parquet file; items of a failed writeBatch
  submitted, fullDrops, rowDrops, lateDrops, \* the atomic counters
  merged, summary   \* Aggregate: shards read so far, and its result

stopVars    == <<stopped, closedLanes, closedWriters, stopPc, drained, racing>>
laneVars    == <<lpc, batch, folded, written, failed>>
counterVars == <<submitted, fullDrops, rowDrops, lateDrops>>
aggVars     == <<merged, summary>>
vars == <<panicked, stopVars, spc, queue, laneVars, counterVars, aggVars>>

NoSummary == [trust |-> "none", items |-> {}]

Init ==
  /\ panicked = FALSE
  /\ stopped = FALSE /\ closedLanes = 0 /\ closedWriters = 0
  /\ stopPc = "idle" /\ drained = FALSE /\ racing = {}
  /\ spc = [x \in Items |-> "idle"]
  /\ queue = [l \in Lanes |-> <<>>]
  /\ lpc = [l \in Lanes |-> "recv"]
  /\ batch = [l \in Lanes |-> <<>>]
  /\ folded = {} /\ written = {} /\ failed = {}
  /\ submitted = 0 /\ fullDrops = 0 /\ rowDrops = 0 /\ lateDrops = 0
  /\ merged = 0 /\ summary = NoSummary

ToSet(s) == {s[i] : i \in DOMAIN s}

-----------------------------------------------------------------------------
(* Submit and SubmitOutcome.                                               *)

\* stopped.Load() is TRUE: count and discard.
RejectLate(x) ==
  /\ ~panicked /\ spc[x] = "idle" /\ stopped
  /\ spc' = [spc EXCEPT ![x] = "late"]
  /\ lateDrops' = lateDrops + 1
  /\ UNCHANGED <<panicked, stopVars, queue, laneVars, submitted, fullDrops,
                 rowDrops, aggVars>>

\* stopped.Load() is FALSE: go on to the send.
PassCheck(x) ==
  /\ ~panicked /\ spc[x] = "idle" /\ ~stopped
  /\ spc' = [spc EXCEPT ![x] = "send"]
  /\ UNCHANGED <<panicked, stopVars, queue, laneVars, counterVars, aggVars>>

\* select: the channel has room.
Enqueue(x) ==
  LET l == LaneOf(x) IN
  /\ ~panicked /\ spc[x] = "send" /\ l >= closedLanes /\ Len(queue[l]) < Buffer
  /\ queue' = [queue EXCEPT ![l] = Append(@, x)]
  /\ spc' = [spc EXCEPT ![x] = IF x \in Events THEN "count" ELSE "accepted"]
  /\ UNCHANGED <<panicked, stopVars, laneVars, counterVars, aggVars>>

\* totalSubmitted.Add(1), after the send.
CountSubmitted(x) ==
  /\ ~panicked /\ spc[x] = "count"
  /\ submitted' = submitted + 1
  /\ spc' = [spc EXCEPT ![x] = "accepted"]
  /\ UNCHANGED <<panicked, stopVars, queue, laneVars, fullDrops, rowDrops,
                 lateDrops, aggVars>>

\* select, default: the channel is full.
DropFull(x) ==
  LET l == LaneOf(x) IN
  /\ ~panicked /\ spc[x] = "send" /\ l >= closedLanes /\ Len(queue[l]) >= Buffer
  /\ spc' = [spc EXCEPT ![x] = "drop"]
  /\ UNCHANGED <<panicked, stopVars, queue, laneVars, counterVars, aggVars>>

\* Fault: only dropped rows are counted, not dropped events.
recordFullDropOfRows(x) ==
  /\ ~panicked /\ spc[x] = "drop"
  /\ spc' = [spc EXCEPT ![x] = "full"]
  /\ rowDrops' = IF x \in Rows THEN rowDrops + 1 ELSE rowDrops
  /\ UNCHANGED <<panicked, stopVars, queue, laneVars, submitted, fullDrops,
                 lateDrops, aggVars>>

\* The drop is counted in a step of its own.
recordFullDrop(x) ==
  /\ ~panicked /\ spc[x] = "drop"
  /\ spc' = [spc EXCEPT ![x] = "full"]
  /\ fullDrops' = IF x \in Events THEN fullDrops + 1 ELSE fullDrops
  /\ rowDrops' = IF x \in Rows THEN rowDrops + 1 ELSE rowDrops
  /\ UNCHANGED <<panicked, stopVars, queue, laneVars, submitted, lateDrops,
                 aggVars>>

\* select: Stop closed the channel after the check.
SendOnClosed(x) ==
  /\ ~panicked /\ spc[x] = "send" /\ LaneOf(x) < closedLanes
  /\ panicked' = TRUE
  /\ UNCHANGED <<stopVars, spc, queue, laneVars, counterVars, aggVars>>

Submitter(x) ==
  RejectLate(x) \/ PassCheck(x) \/ Enqueue(x) \/ CountSubmitted(x)
    \/ DropFull(x) \/ recordFullDrop(x) \/ SendOnClosed(x)

-----------------------------------------------------------------------------
(* runShard and runOutcome.                                                *)

\* Receive one item.  A shard folds an event at once (observe); a full batch
\* is flushed.
Receive(l) ==
  LET x == Head(queue[l]) IN
  /\ ~panicked /\ lpc[l] = "recv" /\ queue[l] # <<>>
  /\ queue' = [queue EXCEPT ![l] = Tail(@)]
  /\ batch' = [batch EXCEPT ![l] = Append(@, x)]
  /\ folded' = IF x \in Events THEN folded \cup {x} ELSE folded
  /\ lpc' = [lpc EXCEPT ![l] = IF Len(batch[l]) + 1 >= BatchSize THEN "flush"
                               ELSE "recv"]
  /\ UNCHANGED <<panicked, stopVars, spc, written, failed, counterVars, aggVars>>

\* Fault: the ticker only flushes what is full already.
TickFullBatchOnly(l) ==
  /\ ~panicked /\ l \in Shards /\ lpc[l] = "recv" /\ Len(batch[l]) >= BatchSize
  /\ lpc' = [lpc EXCEPT ![l] = "flush"]
  /\ UNCHANGED <<panicked, stopVars, spc, queue, batch, folded, written, failed,
                 counterVars, aggVars>>

\* The shard's flush ticker.  runOutcome has none.
Tick(l) ==
  /\ ~panicked /\ l \in Shards /\ lpc[l] = "recv" /\ batch[l] # <<>>
  /\ lpc' = [lpc EXCEPT ![l] = "flush"]
  /\ UNCHANGED <<panicked, stopVars, spc, queue, batch, folded, written, failed,
                 counterVars, aggVars>>

\* Fault: the goroutine leaves on the stop signal, not on the drained channel.
ExitUndrained(l) ==
  /\ ~panicked /\ lpc[l] = "recv" /\ l < closedLanes
  /\ lpc' = [lpc EXCEPT ![l] = IF batch[l] = <<>> THEN "exited" ELSE "flush"]
  /\ UNCHANGED <<panicked, stopVars, spc, queue, batch, folded, written, failed,
                 counterVars, aggVars>>

\* The channel is closed and drained: flush what is left, then return.
Exit(l) ==
  /\ ~panicked /\ lpc[l] = "recv" /\ l < closedLanes /\ queue[l] = <<>>
  /\ lpc' = [lpc EXCEPT ![l] = IF batch[l] = <<>> THEN "exited" ELSE "flush"]
  /\ UNCHANGED <<panicked, stopVars, spc, queue, batch, folded, written, failed,
                 counterVars, aggVars>>

\* The batch leaves flush, written or not; runOutcome keeps its rows either way.
EndFlush(l) ==
  /\ batch' = [batch EXCEPT ![l] = <<>>]
  /\ folded' = folded \cup ToSet(batch[l])
  /\ lpc' = [lpc EXCEPT ![l] = "recv"]

\* writeBatch passes its closed check.
BeginWrite(l) ==
  /\ ~panicked /\ lpc[l] = "flush" /\ l >= closedWriters
  /\ lpc' = [lpc EXCEPT ![l] = "write"]
  /\ UNCHANGED <<panicked, stopVars, spc, queue, batch, folded, written, failed,
                 counterVars, aggVars>>

\* Fault: a writer that was closed is opened again.
WriteRowsReopens(l) ==
  /\ ~panicked /\ lpc[l] = "write"
  /\ written' = written \cup ToSet(batch[l])
  /\ EndFlush(l)
  /\ UNCHANGED <<panicked, stopVars, spc, queue, failed, counterVars, aggVars>>

\* writeBatch writes the rows (opening or rotating the file first).
WriteRows(l) ==
  /\ ~panicked /\ lpc[l] = "write" /\ l >= closedWriters
  /\ written' = written \cup ToSet(batch[l])
  /\ EndFlush(l)
  /\ UNCHANGED <<panicked, stopVars, spc, queue, failed, counterVars, aggVars>>

\* writeBatch fails: an I/O error, or the writer was closed by Stop before or
\* while it ran.  The error is recorded, the batch is gone.
WriteFails(l) ==
  /\ ~panicked
  /\ \/ lpc[l] = "write"
     \/ lpc[l] = "flush" /\ l < closedWriters
  /\ failed' = failed \cup ToSet(batch[l])
  /\ EndFlush(l)
  /\ UNCHANGED <<panicked, stopVars, spc, queue, written, counterVars, aggVars>>

\* Stop closed the writer under a running writeBatch; the two are not
\* synchronised.  writeBatch finds the writer cleared and, as for a first
\* batch, creates the file, which truncates it; the outcome writer keeps its
\* file.  The rows go to a file nobody will close, and no error is recorded.
WriteReopens(l) ==
  /\ ~panicked /\ lpc[l] = "write" /\ l < closedWriters
  /\ written' = IF l \in Shards THEN {x \in written : LaneOf(x) # l} ELSE written
  /\ EndFlush(l)
  /\ UNCHANGED <<panicked, stopVars, spc, queue, failed, counterVars, aggVars>>

\* The same, when the writer is cleared just before writeBatch dereferences it.
WriteRaces(l) ==
  /\ ~panicked /\ l \in Shards /\ lpc[l] = "write" /\ l < closedWriters
  /\ panicked' = TRUE
  /\ UNCHANGED <<stopVars, spc, queue, laneVars, counterVars, aggVars>>

Lane(l) ==
  Receive(l) \/ Tick(l) \/ Exit(l) \/ BeginWrite(l) \/ WriteRows(l)
    \/ WriteFails(l) \/ WriteReopens(l) \/ WriteRaces(l)

-----------------------------------------------------------------------------
(* Stop and Aggregate, called in this order by the scenario runner.        *)

SetStopped ==
  /\ ~panicked /\ stopPc = "idle" /\ stopPc' = "close"
  /\ stopped' = TRUE
  /\ racing' = {x \in Items : spc[x] \in {"send", "drop", "count"}}
  /\ UNCHANGED <<panicked, closedLanes, closedWriters, drained, spc, queue,
                 laneVars, counterVars, aggVars>>

\* The channels are closed one after the other.
CloseLane ==
  /\ ~panicked /\ stopPc = "close"
  /\ closedLanes' = closedLanes + 1
  /\ stopPc' = IF closedLanes = OutcomeLane THEN "wait" ELSE "close"
  /\ UNCHANGED <<panicked, stopped, closedWriters, drained, racing, spc, queue,
                 laneVars, counterVars, aggVars>>

\* wg.Wait() returned.
AllDrained ==
  /\ ~panicked /\ stopPc = "wait" /\ \A l \in Lanes : lpc[l] = "exited"
  /\ stopPc' = "writers" /\ drained' = TRUE
  /\ UNCHANGED <<panicked, stopped, closedLanes, closedWriters, racing, spc,
                 queue, laneVars, counterVars, aggVars>>

\* Stop's ctx fired first (at once, if the run was cancelled).
StopCtxDone ==
  /\ ~panicked /\ stopPc = "wait"
  /\ stopPc' = "writers"
  /\ UNCHANGED <<panicked, stopped, closedLanes, closedWriters, drained, racing,
                 spc, queue, laneVars, counterVars, aggVars>>

CloseWriter ==
  /\ ~panicked /\ stopPc = "writers"
  /\ closedWriters' = closedWriters + 1
  /\ stopPc' = IF closedWriters = OutcomeLane THEN "returned" ELSE "writers"
  /\ UNCHANGED <<panicked, stopped, closedLanes, drained, racing, spc, queue,
                 laneVars, counterVars, aggVars>>

\* Aggregate reads the shards one after the other, under each one's lock.
MergeShard ==
  /\ ~panicked /\ stopPc = "returned" /\ merged < NumShards
  /\ summary' = [summary EXCEPT
                   !.items = @ \cup {e \in folded \cap Events : ShardOf[e] = merged}]
  /\ merged' = merged + 1
  /\ UNCHANGED <<panicked, stopVars, spc, queue, laneVars, counterVars>>

\* measurementIntegrity: 1% of the submissions, or only rows, were dropped.
Trust ==
  IF fullDrops = 0 /\ rowDrops = 0 THEN "high"
  ELSE IF 100 * fullDrops >= submitted + fullDrops /\ fullDrops > 0 THEN "low"
  ELSE "medium"

WriteSummary ==
  /\ ~panicked /\ stopPc = "returned" /\ merged = NumShards /\ summary.trust = "none"
  /\ summary' = [summary EXCEPT !.trust = Trust]
  /\ UNCHANGED <<panicked, stopVars, spc, queue, laneVars, counterVars, merged>>

Stopper ==
  CloseLane \/ AllDrained \/ StopCtxDone \/ CloseWriter \/ MergeShard
    \/ WriteSummary

-----------------------------------------------------------------------------

Next ==
  \/ \E x \in Items : Submitter(x)
  \/ \E l \in Lanes : Lane(l)
  \/ SetStopped
  \/ Stopper

Spec == Init /\ [][Next]_vars

\* Go runs every runnable goroutine, the ticker keeps ticking and disk writes
\* return.  Nobody is obliged to call Submit or Stop.
Fairness ==
  /\ \A x \in Items : WF_vars(spc[x] # "idle" /\ Submitter(x))
  /\ \A l \in Lanes : WF_vars(Lane(l))
  /\ WF_vars(Stopper)

FairSpec == Spec /\ Fairness

-----------------------------------------------------------------------------
(* Properties.                                                             *)

\* Items a channel has taken.
Accepted == {x \in Items : spc[x] \in {"count", "accepted"}}

\* Types of every variable.
TypeOK ==
  /\ panicked \in BOOLEAN /\ stopped \in BOOLEAN /\ drained \in BOOLEAN
  /\ closedLanes \in 0 .. NumShards + 1 /\ closedWriters \in 0 .. NumShards + 1
  /\ stopPc \in {"idle", "close", "wait", "writers", "returned"}
  /\ spc \in [Items -> {"idle", "send", "count", "accepted", "drop", "full", "late"}]
  /\ queue \in [Lanes -> Seq(Items)]
  /\ \A l \in Lanes : Len(queue[l]) <= Buffer
  /\ lpc \in [Lanes -> {"recv", "flush", "write", "exited"}]
  /\ batch \in [Lanes -> Seq(Items)]
  /\ \A l \in Lanes : Len(batch[l]) <= BatchSize
  /\ racing \subseteq Items
  /\ folded \subseteq Items /\ written \subseteq Items /\ failed \subseteq Items
  /\ submitted \in Nat /\ fullDrops \in Nat /\ rowDrops \in Nat /\ lateDrops \in Nat
  /\ merged \in 0 .. NumShards
  /\ summary \in [trust : {"none", "high", "medium", "low"}, items : SUBSET Events]

\* A Stop that drained loses nothing: every event a channel took is in the
\* summary, and every item is in a file or in a batch whose write error was
\* recorded.
DrainedComplete ==
  drained =>
    /\ Accepted \subseteq written \cup failed
    /\ Accepted \subseteq folded
    /\ summary.trust # "none" => Accepted \cap Events \subseteq summary.items

\* A summary labelled high hides no back-pressure drop, of an event or of a
\* row, except that of a Submit which was under way when Stop began.
HighMeansNoFullDrop ==
  summary.trust = "high" =>
    \A x \in Items : spc[x] \in {"drop", "full"} => x \in racing

\* Stop's comment: "After Stop returns, no further events will be persisted",
\* although a lane that outlived Stop's ctx may still be flushing.
NothingPersistedAfterStop ==
  [][stopPc = "returned" => written' \subseteq written]_vars

\* An accepted event reaches its file (or a recorded write error) without
\* waiting for a full batch or for Stop.  Only a Stop that gave up on its
\* lanes, or a panic, may lose it.
EventuallyPersisted ==
  \A e \in Events :
    (spc[e] = "accepted") ~>
      (e \in written \cup failed \/ panicked \/ (closedWriters > 0 /\ ~drained))

\* collector.go on Collector.dropped: events submitted after Stop are counted,
\* "these would otherwise panic on a closed channel".
NoSendOnClosed ==
  \A x \in Items : spc[x] = "send" => LaneOf(x) >= closedLanes

=============================================================================
