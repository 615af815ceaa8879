--------------------------- MODULE ScenarioRunner ---------------------------
(***************************************************************************)
(* pkg/scenario: Runner.Run takes one run through its phases.  It builds   *)
(* the components, warms up, launches a goroutine per scheduled            *)
(* subscriber (ramp), waits for them (drain), stops the progress writer    *)
(* and the collector and writes the summary (finalize), while the          *)
(* subscribers, the progress sampler and a cancellation run beside it.     *)
(*                                                                         *)
(* phase is both Runner.currentPhase and the counters' copy that transition *)
(* sets from it.  Of a subscriber this module keeps its outcome row and    *)
(* result (Subscriber), of the collector that it takes rows until Stop     *)
(* (Collector).  Offsets and timeouts are choices.                         *)
(***************************************************************************)
EXTENDS Integers

CONSTANTS
  N,            \* Schedule.Total()
  WarmupDelay,  \* is Opts.WarmupDelay > 0?
  None

ASSUME RunnerAssumption == N \in Nat /\ WarmupDelay \in BOOLEAN

Subs       == 1 .. N
phaseOrder == <<"warmup", "ramp", "drain", "finalize", "done">>
Phases     == {phaseOrder[i] : i \in DOMAIN phaseOrder}
\* Snapshot, the counts of one line of progress.jsonl.
LineType   == [activated : 0 .. N, established : 0 .. N, failed : 0 .. N,
               inFlight : 0 .. N, phase : Phases]

ASSUME NoneAssumption == None \notin LineType

VARIABLES
  pc, phase,
  cancelled,                       \* ctx is done
  runErr,                          \* Run's error, if any
  drained,                         \* history: how drain ended
  collector, engine, listener,     \* none, up (bound), started, stopped
  launched, waitGroup,             \* ramp's loop index; activeWG is set
  spc, kept, lost,                 \* each subscriber; rows the collector took,
                                   \* and rows it dropped with a full channel
  activated, established, failed,  \* liveCounters
  wpc, stopReq, sample, line,      \* the sampler: where it is, stopCh closed,
                                   \* Activated of the line it is writing, and
                                   \* the last line of progress.jsonl
  summary

parts    == <<collector, engine, listener>>
subVars  == <<spc, kept, lost>>
counts   == <<activated, established, failed>>
sampler  == <<wpc, sample, line>>
vars == <<pc, phase, cancelled, runErr, drained, parts, launched, waitGroup,
          subVars, counts, sampler, stopReq, summary>>

Init ==
  /\ pc = "collector" /\ phase = "warmup"
  /\ cancelled = FALSE /\ runErr = FALSE /\ drained = FALSE
  /\ collector = "none" /\ engine = "none" /\ listener = "none"
  /\ launched = 0 /\ waitGroup = FALSE
  /\ spc = [s \in Subs |-> "pending"] /\ kept = {} /\ lost = {}
  /\ activated = 0 /\ established = 0 /\ failed = 0
  /\ wpc = "none" /\ stopReq = FALSE /\ sample = 0 /\ line = None
  /\ summary = None

-----------------------------------------------------------------------------
(* constructComponents.  An error returns from Run at once: shutdown is    *)
(* deferred only after it.                                                 *)

NewCollector ==
  /\ pc = "collector"
  /\ \/ pc' = "engine" /\ collector' = "up" /\ UNCHANGED runErr
     \/ pc' = "returned" /\ runErr' = TRUE /\ UNCHANGED collector
  /\ UNCHANGED <<phase, cancelled, drained, engine, listener, launched,
                 waitGroup, subVars, counts, sampler, stopReq, summary>>

NewEngine ==
  /\ pc = "engine"
  /\ \/ pc' = "listener" /\ engine' = "up" /\ UNCHANGED runErr
     \/ pc' = "returned" /\ runErr' = TRUE /\ UNCHANGED engine
  /\ UNCHANGED <<phase, cancelled, drained, collector, listener, launched,
                 waitGroup, subVars, counts, sampler, stopReq, summary>>

\* Without an address or a secret, or when the bind fails, there is none.
NewListener ==
  /\ pc = "listener" /\ pc' = "progress"
  /\ listener' \in {"none", "up"}
  /\ UNCHANGED <<phase, cancelled, runErr, drained, collector, engine, launched,
                 waitGroup, subVars, counts, sampler, stopReq, summary>>

newProgressWriter ==
  /\ pc = "progress"
  /\ \/ pc' = "warmup" /\ UNCHANGED runErr
     \/ pc' = "returned" /\ runErr' = TRUE
  /\ UNCHANGED <<phase, cancelled, drained, parts, launched, waitGroup, subVars,
                 counts, sampler, stopReq, summary>>

-----------------------------------------------------------------------------
(* The phases.                                                             *)

Index(p) == CHOOSE i \in DOMAIN phaseOrder : phaseOrder[i] = p

\* transition: the successor in phaseOrder, or a panic.
transition(next, to) ==
  IF Index(next) = Index(phase) + 1
  THEN pc' = to /\ phase' = next
  ELSE pc' = "panic" /\ UNCHANGED phase

\* warmup: a new engine always starts; then the listener and the sampler.
warmup ==
  /\ pc = "warmup" /\ pc' = "warmup_wait"
  /\ engine' = "started"
  /\ listener' = IF listener = "up" THEN "started" ELSE listener
  /\ wpc' = "first"
  /\ UNCHANGED <<phase, cancelled, runErr, drained, collector, launched,
                 waitGroup, subVars, counts, sample, line, stopReq, summary>>

\* The delay is over (at once, if it is 0), or the context is done first.
WarmupEnds ==
  /\ pc = "warmup_wait"
  /\ \/ pc' = "to_ramp" /\ UNCHANGED runErr
     \/ WarmupDelay /\ cancelled /\ pc' = "to_drain" /\ runErr' = TRUE
  /\ UNCHANGED <<phase, cancelled, drained, parts, launched, waitGroup, subVars,
                 counts, sampler, stopReq, summary>>

EnterRamp ==
  /\ pc = "to_ramp"
  /\ transition("ramp", IF N = 0 THEN "to_drain" ELSE "ramp")
  /\ waitGroup' = (N > 0)
  /\ UNCHANGED <<cancelled, runErr, drained, parts, launched, subVars, counts,
                 sampler, stopReq, summary>>

\* The next offset is due: wg.Add, count, go.  When the context is done as
\* well, the select takes either branch.  The pool has a subscriber for every
\* index of the schedule, so the defensive continue is never taken.
Launch ==
  /\ pc = "ramp" /\ launched < N
  /\ launched' = launched + 1 /\ activated' = activated + 1
  /\ spc' = [spc EXCEPT ![launched + 1] = "running"]
  /\ UNCHANGED <<pc, phase, cancelled, runErr, drained, parts, waitGroup, kept,
                 lost, established, failed, sampler, stopReq, summary>>

RampEnds ==
  /\ pc = "ramp" /\ (launched = N \/ cancelled)
  /\ pc' = "to_drain"
  /\ UNCHANGED <<phase, cancelled, runErr, drained, parts, launched, waitGroup,
                 subVars, counts, sampler, stopReq, summary>>

EnterDrain ==
  /\ pc = "to_drain" /\ transition("drain", "drain")
  /\ UNCHANGED <<cancelled, runErr, drained, parts, launched, waitGroup, subVars,
                 counts, sampler, stopReq, summary>>

AllDone == waitGroup /\ \A s \in 1 .. launched : spc[s] = "done"

\* Fault: the goroutines join the wait group only when they run.
DrainEndsUnjoined ==
  /\ pc = "drain" /\ pc' = "to_finalize"
  /\ drained' \in {FALSE, waitGroup}
  /\ UNCHANGED <<phase, cancelled, runErr, parts, launched, waitGroup, subVars,
                 counts, sampler, stopReq, summary>>

\* The wait group is empty; or DrainTimeout passed, or the hold of a run
\* without subscribers, or the context is done.
DrainEnds ==
  /\ pc = "drain" /\ pc' = "to_finalize"
  /\ drained' \in {FALSE, AllDone}
  /\ UNCHANGED <<phase, cancelled, runErr, parts, launched, waitGroup, subVars,
                 counts, sampler, stopReq, summary>>

\* Fault: the sampler is left to end with the context.
EnterFinalizeNoStop ==
  /\ pc = "to_finalize" /\ transition("finalize", "stop_progress")
  /\ UNCHANGED <<cancelled, runErr, drained, parts, launched, waitGroup, subVars,
                 counts, sampler, stopReq, summary>>

\* finalize: progressWriter.Stop closes stopCh ...
EnterFinalize ==
  /\ pc = "to_finalize" /\ transition("finalize", "stop_progress")
  /\ stopReq' = TRUE
  /\ UNCHANGED <<cancelled, runErr, drained, parts, launched, waitGroup, subVars,
                 counts, sampler, summary>>

\* Fault: Stop does not wait for the sampler.
ProgressStoppedUnwaited ==
  /\ pc = "stop_progress" /\ pc' = "stop_collector"
  /\ UNCHANGED <<phase, cancelled, runErr, drained, parts, launched, waitGroup,
                 subVars, counts, sampler, stopReq, summary>>

\* ... and waits for the sampler to close the file.
ProgressStopped ==
  /\ pc = "stop_progress" /\ wpc = "closed" /\ pc' = "stop_collector"
  /\ UNCHANGED <<phase, cancelled, runErr, drained, parts, launched, waitGroup,
                 subVars, counts, sampler, stopReq, summary>>

\* Collector.Stop, which gives up after 30 s or when the context is done.
StopCollector ==
  /\ pc = "stop_collector" /\ pc' = "aggregate"
  /\ collector' \in {"stopped", "gave_up"}
  /\ UNCHANGED <<phase, cancelled, runErr, drained, engine, listener, launched,
                 waitGroup, subVars, counts, sampler, stopReq, summary>>

\* Aggregate and WriteSummary, or an error of one of them.  The outcome is
\* always OutcomeSucceeded.  After a Stop that gave up, it reports what the
\* lanes had folded by then.
WriteSummary ==
  /\ pc = "aggregate" /\ pc' = "to_done"
  /\ \/ /\ \E rows \in IF collector = "gave_up" THEN SUBSET kept ELSE {kept} :
             summary' = [outcome |-> "succeeded", rows |-> rows]
        /\ UNCHANGED runErr
     \/ runErr' = TRUE /\ UNCHANGED summary
  /\ UNCHANGED <<phase, cancelled, drained, parts, launched, waitGroup, subVars,
                 counts, sampler, stopReq>>

EnterDone ==
  /\ pc = "to_done" /\ transition("done", "shutdown")
  /\ UNCHANGED <<cancelled, runErr, drained, parts, launched, waitGroup, subVars,
                 counts, sampler, stopReq, summary>>

\* Fault: shutdown is called at the end of Run, not deferred.
shutdownNotDeferred ==
  /\ pc \in {"shutdown", "panic"}
  /\ pc' = IF pc = "panic" THEN "crashed" ELSE "returned"
  /\ IF pc = "panic" THEN UNCHANGED <<listener, engine>>
     ELSE /\ listener' = IF listener = "none" THEN "none" ELSE "stopped"
          /\ engine' = "stopped"
  /\ UNCHANGED <<phase, cancelled, runErr, drained, collector, launched,
                 waitGroup, subVars, counts, sampler, stopReq, summary>>

\* The deferred shutdown, also on the way out of a panic.
shutdown ==
  /\ pc \in {"shutdown", "panic"}
  /\ pc' = IF pc = "panic" THEN "crashed" ELSE "returned"
  /\ listener' = IF listener = "none" THEN "none" ELSE "stopped"
  /\ engine' = "stopped"
  /\ UNCHANGED <<phase, cancelled, runErr, drained, collector, launched,
                 waitGroup, subVars, counts, sampler, stopReq, summary>>

Main ==
  \/ NewCollector \/ NewEngine \/ NewListener \/ newProgressWriter
  \/ warmup \/ WarmupEnds \/ EnterRamp \/ Launch \/ RampEnds
  \/ EnterDrain \/ DrainEnds \/ EnterFinalize \/ ProgressStopped
  \/ StopCollector \/ WriteSummary \/ EnterDone \/ shutdown

Ended == pc \in {"returned", "crashed"}

-----------------------------------------------------------------------------
(* The other goroutines.  They end with the process.                       *)

\* SIGINT or SIGTERM.
Cancel ==
  /\ ~Ended /\ ~cancelled /\ cancelled' = TRUE
  /\ UNCHANGED <<pc, phase, runErr, drained, parts, launched, waitGroup, subVars,
                 counts, sampler, stopReq, summary>>

\* Subscriber.Run submits its row, which the collector may take, drop because
\* its channel is full, or reject because it is stopped, and returns.
RunReturns(s) ==
  /\ ~Ended /\ spc[s] = "running"
  /\ \E st \in {"established", "failed"} : spc' = [spc EXCEPT ![s] = st]
  /\ IF collector = "up"
     THEN \/ kept' = kept \cup {s} /\ UNCHANGED lost
          \/ lost' = lost \cup {s} /\ UNCHANGED kept
     ELSE UNCHANGED <<kept, lost>>
  /\ UNCHANGED <<pc, phase, cancelled, runErr, drained, parts, launched,
                 waitGroup, counts, sampler, stopReq, summary>>

\* The launching goroutine counts the result ...
CountResult(s) ==
  /\ ~Ended /\ spc[s] \in {"established", "failed"}
  /\ spc' = [spc EXCEPT ![s] = "counted"]
  /\ established' = IF spc[s] = "established" THEN established + 1 ELSE established
  /\ failed' = IF spc[s] = "failed" THEN failed + 1 ELSE failed
  /\ UNCHANGED <<pc, phase, cancelled, runErr, drained, parts, launched,
                 waitGroup, kept, lost, activated, sampler, stopReq, summary>>

\* ... and leaves the wait group.
WaitGroupDone(s) ==
  /\ ~Ended /\ spc[s] = "counted"
  /\ spc' = [spc EXCEPT ![s] = "done"]
  /\ UNCHANGED <<pc, phase, cancelled, runErr, drained, parts, launched,
                 waitGroup, kept, lost, counts, sampler, stopReq, summary>>

\* writeOne loads Activated, of the first line or on a tick, ...
BeginLine ==
  /\ ~Ended /\ wpc \in {"first", "loop"} /\ wpc' = "line"
  /\ sample' = activated
  /\ UNCHANGED <<pc, phase, cancelled, runErr, drained, parts, launched,
                 waitGroup, subVars, counts, line, stopReq, summary>>

\* ... or of the last one: Stop was called or the context is done.
BeginLastLine ==
  /\ ~Ended /\ wpc = "loop" /\ (stopReq \/ cancelled) /\ wpc' = "last"
  /\ sample' = activated
  /\ UNCHANGED <<pc, phase, cancelled, runErr, drained, parts, launched,
                 waitGroup, subVars, counts, line, stopReq, summary>>

inFlight == LET v == activated - established - failed IN IF v < 0 THEN 0 ELSE v

\* The rest of writeOne.  After the last line the file is closed.
EndLine ==
  /\ ~Ended /\ wpc \in {"line", "last"}
  /\ wpc' = IF wpc = "line" THEN "loop" ELSE "closed"
  /\ line' = [activated |-> sample, established |-> established,
              failed |-> failed, inFlight |-> inFlight, phase |-> phase]
  /\ UNCHANGED <<pc, phase, cancelled, runErr, drained, parts, launched,
                 waitGroup, subVars, counts, sample, stopReq, summary>>

-----------------------------------------------------------------------------

Next ==
  \/ Main \/ Cancel
  \/ \E s \in Subs : RunReturns(s) \/ CountResult(s) \/ WaitGroupDone(s)
  \/ BeginLine \/ BeginLastLine \/ EndLine

Spec == Init /\ [][Next]_vars

\* Run's goroutine is scheduled and its timers fire; so is the sampler, and its
\* select does not pass over a closed stopCh for ever.  Nothing is assumed of
\* the subscribers.
Fairness ==
  WF_vars(Main) /\ WF_vars(BeginLine) /\ WF_vars(EndLine) /\ SF_vars(BeginLastLine)

FairSpec == Spec /\ Fairness

-----------------------------------------------------------------------------
(* Properties.                                                             *)

\* Types of every variable.
TypeOK ==
  /\ pc \in {"collector", "engine", "listener", "progress", "warmup",
             "warmup_wait", "to_ramp", "ramp", "to_drain", "drain",
             "to_finalize", "stop_progress", "stop_collector", "aggregate",
             "to_done", "shutdown", "returned", "panic", "crashed"}
  /\ phase \in Phases
  /\ cancelled \in BOOLEAN /\ runErr \in BOOLEAN /\ drained \in BOOLEAN
  /\ waitGroup \in BOOLEAN /\ stopReq \in BOOLEAN
  /\ collector \in {"none", "up", "stopped", "gave_up"}
  /\ engine \in {"none", "up", "started", "stopped"}
  /\ listener \in {"none", "up", "started", "stopped"}
  /\ launched \in 0 .. N /\ kept \subseteq Subs /\ lost \subseteq Subs
  /\ spc \in [Subs -> {"pending", "running", "established", "failed", "counted", "done"}]
  /\ activated \in 0 .. N /\ established \in 0 .. N /\ failed \in 0 .. N
  /\ sample \in 0 .. N
  /\ wpc \in {"none", "first", "line", "loop", "last", "closed"}
  /\ line \in LineType \cup {None}
  /\ summary \in [outcome : {"succeeded"}, rows : SUBSET Subs] \cup {None}

\* The last line counts everybody and nobody is in flight.
Exact ==
  /\ line # None
  /\ line.activated = N /\ line.established + line.failed = N
  /\ line.inFlight = 0

\* A run that was not cancelled and whose subscribers all returned within the
\* drain timeout ends with a progress line that counts them all, although
\* sampler and subscribers are never synchronised.
FinalLineExact == (pc = "returned" /\ drained /\ ~cancelled) => Exact

\* lifecycle.go of PhaseDone: "it's emitted as the very last progress snapshot
\* so consumers know the run is finished".  Violated: finalize stops the
\* sampler before the transition to done.
LastSnapshotIsDone ==
  (pc = "returned" /\ phase = "done") => line # None /\ line.phase = "done"

\* When drain saw every scheduled subscriber leave and the collector drained,
\* the summary accounts for every one of them: its row was taken, or counted
\* as dropped.
DrainedSummaryComplete ==
  (summary # None /\ drained /\ launched = N /\ collector = "stopped") =>
    summary.rows \cup lost = Subs

\* runner.go on shutdown: "stops every component we own".  However Run ends,
\* also when a cancelled warm-up makes it panic on the transition to drain,
\* nothing that warmup started runs on.
StartedIsStopped == Ended => engine # "started" /\ listener # "started"

\* Whatever the subscribers do, Run comes to an end: no deadlock with the
\* sampler, and a bounded drain.
RunEnds == <>Ended

=============================================================================
