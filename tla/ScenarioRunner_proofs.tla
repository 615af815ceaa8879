---------------------- MODULE ScenarioRunner_proofs ----------------------
(***************************************************************************)
(* Proofs about ScenarioRunner, for every number of subscribers.           *)
(***************************************************************************)
EXTENDS ScenarioRunner, FiniteSetTheorems, TLAPS

Building == {"collector", "engine", "listener", "progress", "warmup"}
Before   == Building \cup {"warmup_wait", "to_ramp"}
Late     == {"stop_collector", "aggregate", "to_done", "shutdown", "returned"}
After    == {"to_finalize", "stop_progress", "panic", "crashed"} \cup Late

\* What Run has done by the time it is at pc.
RunInv ==
  /\ pc \in Building \cup {"returned", "crashed"} =>
       engine # "started" /\ listener # "started"
  /\ pc \in Before => launched = 0
  /\ pc \in {"to_drain", "drain"} /\ ~cancelled => launched = N
  /\ drained => pc \in After /\ (~cancelled => launched = N)
  /\ stopReq => pc \in After \ {"to_finalize"}
  /\ pc \in {"stop_progress", "stop_collector"} => phase = "finalize"

\* A subscriber runs only once launched; drained means that all are done.
SubInv ==
  /\ activated = launched
  /\ \A s \in Subs :
       /\ s > launched => spc[s] = "pending"
       /\ drained /\ s <= launched => spc[s] = "done"

Counted == {s \in Subs : spc[s] \in {"counted", "done"}}
\* The live counters count the subscribers that are through.
CountInv ==
  /\ established \in Nat /\ failed \in Nat
  /\ established + failed = Cardinality(Counted)

\* Whoever returned before the collector was stopped left a row or a drop.
Returned == {"established", "failed", "counted", "done"}
RowInv ==
  /\ collector = "none" => pc \in {"collector", "returned"} /\ launched = 0
  /\ collector \in {"none", "up"} =>
       \A s \in Subs : spc[s] \in Returned => s \in kept \cup lost
  /\ drained => \A s \in 1 .. launched : s \in kept \cup lost
  /\ summary # None /\ collector = "stopped" => summary.rows = kept
  /\ pc \notin {"to_done", "shutdown", "returned", "panic", "crashed"} => summary = None
  /\ collector \in {"none", "up"} \/ pc \in Late \cup {"panic", "crashed"}

\* Without a cancellation the last line is begun after Stop, when the counters
\* of a drained run no longer move.
LineInv ==
  /\ wpc \in {"last", "closed"} /\ ~cancelled => stopReq
  /\ wpc = "last" /\ ~cancelled => sample = launched
  /\ pc \in Late /\ (drained \/ pc # "returned") => wpc = "closed"
  /\ pc \in {"stop_progress"} \cup Late /\ drained /\ ~cancelled /\ wpc = "closed" => Exact

-----------------------------------------------------------------------------

LEMMA PhaseNames == {"ramp", "drain", "finalize", "done"} \subseteq Phases
<1>1. /\ phaseOrder[2] = "ramp" /\ phaseOrder[3] = "drain"
      /\ phaseOrder[4] = "finalize" /\ phaseOrder[5] = "done"
      /\ DOMAIN phaseOrder = 1 .. 5
  BY DEF phaseOrder
<1> QED BY <1>1 DEF Phases

\* A subscriber that gets its result counted was not counted before.
LEMMA CountedSets ==
  /\ IsFiniteSet(Counted) /\ Cardinality(Counted) \in 0 .. N
  /\ Cardinality(Subs) = N
  /\ \A s \in Subs \ Counted :
       Cardinality(Counted \cup {s}) = Cardinality(Counted) + 1
<1>1. IsFiniteSet(Subs) /\ Cardinality(Subs) = N
  BY RunnerAssumption, FS_Interval DEF Subs
<1>2. Counted \subseteq Subs
  BY DEF Counted
<1>3. /\ IsFiniteSet(Counted) /\ Cardinality(Counted) <= N
      /\ Cardinality(Counted) \in Nat
  BY <1>1, <1>2, FS_Subset, FS_CardinalityType
<1>4. \A s \in Subs \ Counted :
        Cardinality(Counted \cup {s}) = Cardinality(Counted) + 1
  BY <1>3, FS_AddElement
<1> QED BY <1>1, <1>3, <1>4, RunnerAssumption

\* Every step keeps the types.
LEMMA TypeNext ==
  ASSUME TypeOK, RunInv, SubInv, CountInv, [Next]_vars
  PROVE  TypeOK'
<1> USE DEF vars, parts, subVars, counts, sampler
<1>1. CASE NewCollector
  <2>1. runErr' \in BOOLEAN
    BY <1>1, Zenon DEF NewCollector, TypeOK
  <2> QED BY <1>1, <2>1 DEF NewCollector, TypeOK
<1>2. CASE NewEngine
  <2>1. runErr' \in BOOLEAN
    BY <1>2, Zenon DEF NewEngine, TypeOK
  <2> QED BY <1>2, <2>1 DEF NewEngine, TypeOK
<1>3. CASE NewListener
  BY <1>3 DEF NewListener, TypeOK
<1>4. CASE newProgressWriter
  <2>1. runErr' \in BOOLEAN
    BY <1>4, Zenon DEF newProgressWriter, TypeOK
  <2> QED BY <1>4, <2>1 DEF newProgressWriter, TypeOK
<1>5. CASE warmup
  BY <1>5 DEF warmup, TypeOK
<1>6. CASE WarmupEnds
  <2>1. runErr' \in BOOLEAN
    BY <1>6, Zenon DEF WarmupEnds, TypeOK
  <2> QED BY <1>6, <2>1 DEF WarmupEnds, TypeOK
<1>7. CASE EnterRamp
  <2>1. phase' \in Phases
    BY <1>7, PhaseNames DEF EnterRamp, transition, TypeOK
  <2>2. waitGroup' \in BOOLEAN
    BY <1>7 DEF EnterRamp
  <2> QED BY <1>7, <2>1, <2>2 DEF EnterRamp, transition, TypeOK
<1>8. CASE Launch
  <2>1. launched' \in 0 .. N /\ activated' \in 0 .. N
    BY <1>8, RunnerAssumption DEF Launch, TypeOK, SubInv
  <2>2. spc' \in [Subs -> {"pending", "running", "established", "failed", "counted", "done"}]
    BY <1>8 DEF Launch, TypeOK
  <2> QED BY <1>8, <2>1, <2>2 DEF Launch, TypeOK
<1>9. CASE RampEnds
  BY <1>9 DEF RampEnds, TypeOK
<1>10. CASE EnterDrain
  <2>1. phase' \in Phases
    BY <1>10, PhaseNames DEF EnterDrain, transition, TypeOK
  <2> QED BY <1>10, <2>1 DEF EnterDrain, transition, TypeOK
<1>11. CASE DrainEnds
  <2>1. drained' \in BOOLEAN
    BY <1>11 DEF DrainEnds, AllDone
  <2> QED BY <1>11, <2>1 DEF DrainEnds, TypeOK
<1>12. CASE EnterFinalize
  <2>1. phase' \in Phases /\ stopReq' \in BOOLEAN
    BY <1>12, PhaseNames DEF EnterFinalize, transition, TypeOK
  <2> QED BY <1>12, <2>1 DEF EnterFinalize, transition, TypeOK
<1>13. CASE ProgressStopped
  BY <1>13 DEF ProgressStopped, TypeOK
<1>14. CASE StopCollector
  BY <1>14 DEF StopCollector, TypeOK
<1>15. CASE WriteSummary
  <2>1. runErr' \in BOOLEAN
    BY <1>15, Zenon DEF WriteSummary, TypeOK
  <2> QED BY <1>15, <2>1 DEF WriteSummary, TypeOK
<1>16. CASE EnterDone
  <2>1. phase' \in Phases
    BY <1>16, PhaseNames DEF EnterDone, transition, TypeOK
  <2> QED BY <1>16, <2>1 DEF EnterDone, transition, TypeOK
<1>17. CASE shutdown
  BY <1>17 DEF shutdown, TypeOK
<1>18. CASE Cancel
  BY <1>18 DEF Cancel, TypeOK
<1>19. ASSUME NEW s \in Subs, RunReturns(s) PROVE TypeOK'
  BY <1>19 DEF RunReturns, TypeOK
<1>20. ASSUME NEW s \in Subs, CountResult(s) PROVE TypeOK'
  <2>1. s \notin Counted
    BY <1>20 DEF CountResult, Counted
  <2>2. Counted \cup {s} \subseteq Subs /\ IsFiniteSet(Subs)
    BY RunnerAssumption, FS_Interval DEF Counted, Subs
  <2>3. Cardinality(Counted) + 1 <= N
    <3>1. Cardinality(Counted \cup {s}) <= Cardinality(Subs)
      BY <2>2, FS_Subset
    <3> QED BY <2>1, <3>1, CountedSets
  <2>4. established' \in 0 .. N /\ failed' \in 0 .. N
    BY <1>20, <2>3, RunnerAssumption DEF CountResult, CountInv
  <2>5. spc' \in [Subs -> {"pending", "running", "established", "failed", "counted", "done"}]
    BY <1>20 DEF CountResult, TypeOK
  <2> QED BY <1>20, <2>4, <2>5 DEF CountResult, TypeOK
<1>21. ASSUME NEW s \in Subs, WaitGroupDone(s) PROVE TypeOK'
  BY <1>21 DEF WaitGroupDone, TypeOK
<1>22. CASE BeginLine
  BY <1>22 DEF BeginLine, TypeOK
<1>23. CASE BeginLastLine
  BY <1>23 DEF BeginLastLine, TypeOK
<1>24. CASE EndLine
  <2>1. inFlight \in 0 .. N
    BY RunnerAssumption DEF TypeOK, inFlight
  <2>2. line' \in LineType
    BY <1>24, <2>1 DEF EndLine, TypeOK, LineType
  <2> QED BY <1>24, <2>2 DEF EndLine, TypeOK
<1>25. CASE UNCHANGED vars
  BY <1>25 DEF TypeOK
<1> QED BY <1>1, <1>2, <1>3, <1>4, <1>5, <1>6, <1>7, <1>8, <1>9, <1>10, <1>11, <1>12,
           <1>13, <1>14, <1>15, <1>16, <1>17, <1>18, <1>19, <1>20, <1>21, <1>22, <1>23,
           <1>24, <1>25
  DEF Next, Main

\* Run goes through its phases in order.
LEMMA RunNext ==
  ASSUME TypeOK, RunInv, SubInv, CountInv, [Next]_vars
  PROVE  RunInv'
<1> USE DEF vars, parts, subVars, counts, sampler, Building, Before, Late, After
<1>1. CASE NewCollector
  BY <1>1 DEF NewCollector, RunInv
<1>2. CASE NewEngine
  BY <1>2 DEF NewEngine, RunInv
<1>3. CASE NewListener
  BY <1>3 DEF NewListener, RunInv
<1>4. CASE newProgressWriter
  BY <1>4 DEF newProgressWriter, RunInv
<1>5. CASE warmup
  BY <1>5 DEF warmup, RunInv
<1>6. CASE WarmupEnds
  BY <1>6 DEF WarmupEnds, RunInv
<1>7. CASE EnterRamp
  BY <1>7 DEF EnterRamp, transition, RunInv
<1>8. CASE Launch
  BY <1>8 DEF Launch, RunInv
<1>9. CASE RampEnds
  BY <1>9 DEF RampEnds, RunInv
<1>10. CASE EnterDrain
  BY <1>10 DEF EnterDrain, transition, RunInv
<1>11. CASE DrainEnds
  BY <1>11 DEF DrainEnds, AllDone, RunInv
<1>12. CASE EnterFinalize
  BY <1>12 DEF EnterFinalize, transition, RunInv
<1>13. CASE ProgressStopped
  BY <1>13 DEF ProgressStopped, RunInv
<1>14. CASE StopCollector
  BY <1>14 DEF StopCollector, RunInv
<1>15. CASE WriteSummary
  BY <1>15 DEF WriteSummary, RunInv
<1>16. CASE EnterDone
  BY <1>16 DEF EnterDone, transition, RunInv
<1>17. CASE shutdown
  BY <1>17 DEF shutdown, RunInv
<1>18. CASE Cancel
  BY <1>18 DEF Cancel, RunInv
<1>19. ASSUME NEW s \in Subs, RunReturns(s) PROVE RunInv'
  BY <1>19 DEF RunReturns, RunInv
<1>20. ASSUME NEW s \in Subs, CountResult(s) PROVE RunInv'
  BY <1>20 DEF CountResult, RunInv
<1>21. ASSUME NEW s \in Subs, WaitGroupDone(s) PROVE RunInv'
  BY <1>21 DEF WaitGroupDone, RunInv
<1>22. CASE BeginLine
  BY <1>22 DEF BeginLine, RunInv
<1>23. CASE BeginLastLine
  BY <1>23 DEF BeginLastLine, RunInv
<1>24. CASE EndLine
  BY <1>24 DEF EndLine, inFlight, RunInv
<1>25. CASE UNCHANGED vars
  BY <1>25 DEF RunInv
<1> QED BY <1>1, <1>2, <1>3, <1>4, <1>5, <1>6, <1>7, <1>8, <1>9, <1>10, <1>11, <1>12,
           <1>13, <1>14, <1>15, <1>16, <1>17, <1>18, <1>19, <1>20, <1>21, <1>22, <1>23,
           <1>24, <1>25
  DEF Next, Main

\* Nobody is launched after the ramp.
LEMMA SubNext ==
  ASSUME TypeOK, RunInv, SubInv, CountInv, [Next]_vars
  PROVE  SubInv'
<1> USE DEF vars, parts, subVars, counts, sampler, Building, Before, Late, After
<1>1. CASE NewCollector
  BY <1>1 DEF NewCollector, SubInv
<1>2. CASE NewEngine
  BY <1>2 DEF NewEngine, SubInv
<1>3. CASE NewListener
  BY <1>3 DEF NewListener, SubInv
<1>4. CASE newProgressWriter
  BY <1>4 DEF newProgressWriter, SubInv
<1>5. CASE warmup
  BY <1>5 DEF warmup, SubInv
<1>6. CASE WarmupEnds
  BY <1>6 DEF WarmupEnds, SubInv
<1>7. CASE EnterRamp
  BY <1>7 DEF EnterRamp, transition, SubInv
<1>8. CASE Launch
  BY <1>8 DEF Launch, TypeOK, RunInv, SubInv, Subs
<1>9. CASE RampEnds
  BY <1>9 DEF RampEnds, SubInv
<1>10. CASE EnterDrain
  BY <1>10 DEF EnterDrain, transition, SubInv
<1>11. CASE DrainEnds
  <2>1. UNCHANGED <<activated, launched, spc>>
    BY <1>11 DEF DrainEnds
  <2>2. drained' => \A s \in 1 .. launched : spc[s] = "done"
    BY <1>11 DEF DrainEnds, AllDone
  <2> QED BY <2>1, <2>2 DEF SubInv, Subs
<1>12. CASE EnterFinalize
  BY <1>12 DEF EnterFinalize, transition, SubInv
<1>13. CASE ProgressStopped
  BY <1>13 DEF ProgressStopped, SubInv
<1>14. CASE StopCollector
  BY <1>14 DEF StopCollector, SubInv
<1>15. CASE WriteSummary
  BY <1>15 DEF WriteSummary, SubInv
<1>16. CASE EnterDone
  BY <1>16 DEF EnterDone, transition, SubInv
<1>17. CASE shutdown
  BY <1>17 DEF shutdown, SubInv
<1>18. CASE Cancel
  BY <1>18 DEF Cancel, SubInv
<1>19. ASSUME NEW s \in Subs, RunReturns(s) PROVE SubInv'
  BY <1>19 DEF RunReturns, SubInv
<1>20. ASSUME NEW s \in Subs, CountResult(s) PROVE SubInv'
  BY <1>20 DEF CountResult, SubInv
<1>21. ASSUME NEW s \in Subs, WaitGroupDone(s) PROVE SubInv'
  BY <1>21 DEF WaitGroupDone, SubInv
<1>22. CASE BeginLine
  BY <1>22 DEF BeginLine, SubInv
<1>23. CASE BeginLastLine
  BY <1>23 DEF BeginLastLine, SubInv
<1>24. CASE EndLine
  BY <1>24 DEF EndLine, inFlight, SubInv
<1>25. CASE UNCHANGED vars
  BY <1>25 DEF SubInv
<1> QED BY <1>1, <1>2, <1>3, <1>4, <1>5, <1>6, <1>7, <1>8, <1>9, <1>10, <1>11, <1>12,
           <1>13, <1>14, <1>15, <1>16, <1>17, <1>18, <1>19, <1>20, <1>21, <1>22, <1>23,
           <1>24, <1>25
  DEF Next, Main

\* Each result is counted once.
LEMMA CountNext ==
  ASSUME TypeOK, RunInv, SubInv, CountInv, [Next]_vars
  PROVE  CountInv'
<1> USE DEF vars, parts, subVars, counts, sampler
<1>1. CASE NewCollector
  BY <1>1 DEF NewCollector, CountInv, Counted
<1>2. CASE NewEngine
  BY <1>2 DEF NewEngine, CountInv, Counted
<1>3. CASE NewListener
  BY <1>3 DEF NewListener, CountInv, Counted
<1>4. CASE newProgressWriter
  BY <1>4 DEF newProgressWriter, CountInv, Counted
<1>5. CASE warmup
  BY <1>5 DEF warmup, CountInv, Counted
<1>6. CASE WarmupEnds
  BY <1>6 DEF WarmupEnds, CountInv, Counted
<1>7. CASE EnterRamp
  BY <1>7 DEF EnterRamp, transition, CountInv, Counted
<1>8. CASE Launch
  <2>1. launched + 1 \in Subs /\ spc[launched + 1] = "pending"
    BY <1>8, RunnerAssumption DEF Launch, TypeOK, SubInv, Subs
  <2>2. Counted' = Counted
    BY <1>8, <2>1 DEF Launch, Counted
  <2> QED BY <1>8, <2>2 DEF Launch, CountInv
<1>9. CASE RampEnds
  BY <1>9 DEF RampEnds, CountInv, Counted
<1>10. CASE EnterDrain
  BY <1>10 DEF EnterDrain, transition, CountInv, Counted
<1>11. CASE DrainEnds
  BY <1>11 DEF DrainEnds, AllDone, CountInv, Counted
<1>12. CASE EnterFinalize
  BY <1>12 DEF EnterFinalize, transition, CountInv, Counted
<1>13. CASE ProgressStopped
  BY <1>13 DEF ProgressStopped, CountInv, Counted
<1>14. CASE StopCollector
  BY <1>14 DEF StopCollector, CountInv, Counted
<1>15. CASE WriteSummary
  BY <1>15 DEF WriteSummary, CountInv, Counted
<1>16. CASE EnterDone
  BY <1>16 DEF EnterDone, transition, CountInv, Counted
<1>17. CASE shutdown
  BY <1>17 DEF shutdown, CountInv, Counted
<1>18. CASE Cancel
  BY <1>18 DEF Cancel, CountInv, Counted
<1>19. ASSUME NEW s \in Subs, RunReturns(s) PROVE CountInv'
  <2>1. Counted' = Counted
    BY <1>19 DEF RunReturns, Counted
  <2> QED BY <1>19, <2>1 DEF RunReturns, CountInv
<1>20. ASSUME NEW s \in Subs, CountResult(s) PROVE CountInv'
  <2>1. s \notin Counted /\ Counted' = Counted \cup {s}
    BY <1>20 DEF CountResult, Counted, TypeOK
  <2>2. Cardinality(Counted') = Cardinality(Counted) + 1
    BY <2>1, CountedSets
  <2> QED BY <1>20, <2>2, CountedSets DEF CountResult, CountInv
<1>21. ASSUME NEW s \in Subs, WaitGroupDone(s) PROVE CountInv'
  <2>1. Counted' = Counted
    BY <1>21 DEF WaitGroupDone, Counted
  <2> QED BY <1>21, <2>1 DEF WaitGroupDone, CountInv
<1>22. CASE BeginLine
  BY <1>22 DEF BeginLine, CountInv, Counted
<1>23. CASE BeginLastLine
  BY <1>23 DEF BeginLastLine, CountInv, Counted
<1>24. CASE EndLine
  BY <1>24 DEF EndLine, inFlight, CountInv, Counted
<1>25. CASE UNCHANGED vars
  BY <1>25 DEF CountInv, Counted
<1> QED BY <1>1, <1>2, <1>3, <1>4, <1>5, <1>6, <1>7, <1>8, <1>9, <1>10, <1>11, <1>12,
           <1>13, <1>14, <1>15, <1>16, <1>17, <1>18, <1>19, <1>20, <1>21, <1>22, <1>23,
           <1>24, <1>25
  DEF Next, Main

\* A subscriber's row is submitted before it is done.
LEMMA RowNext ==
  ASSUME TypeOK, RunInv, SubInv, CountInv, RowInv, [Next]_vars
  PROVE  RowInv'
<1> USE DEF vars, parts, subVars, counts, sampler, Building, Before, Late, After
<1>1. CASE NewCollector
  BY <1>1 DEF NewCollector, RowInv
<1>2. CASE NewEngine
  BY <1>2 DEF NewEngine, RowInv
<1>3. CASE NewListener
  BY <1>3 DEF NewListener, RowInv
<1>4. CASE newProgressWriter
  BY <1>4 DEF newProgressWriter, RowInv
<1>5. CASE warmup
  BY <1>5 DEF warmup, RowInv
<1>6. CASE WarmupEnds
  BY <1>6 DEF WarmupEnds, RowInv
<1>7. CASE EnterRamp
  BY <1>7 DEF EnterRamp, transition, RowInv
<1>8. CASE Launch
  <2>1. /\ spc' = [spc EXCEPT ![launched + 1] = "running"] /\ ~drained
        /\ pc = "ramp" /\ collector # "none"
        /\ UNCHANGED <<pc, collector, kept, lost, summary, drained>>
    BY <1>8 DEF Launch, RunInv, RowInv
  <2> QED BY <2>1 DEF RowInv, Returned
<1>9. CASE RampEnds
  BY <1>9 DEF RampEnds, RowInv
<1>10. CASE EnterDrain
  BY <1>10 DEF EnterDrain, transition, RowInv
<1>11. CASE DrainEnds
  <2>1. UNCHANGED <<collector, launched, spc, kept, lost, summary>>
    BY <1>11 DEF DrainEnds
  <2>2. collector = "up" /\ pc' = "to_finalize" /\ summary = None
    BY <1>11 DEF DrainEnds, RowInv
  <2>3. drained' => \A s \in 1 .. launched : spc[s] = "done"
    BY <1>11 DEF DrainEnds, AllDone
  <2>4. 1 .. launched \subseteq Subs
    BY RunnerAssumption DEF TypeOK, Subs
  <2>5. drained' => \A s \in 1 .. launched : s \in kept \cup lost
    BY <2>2, <2>3, <2>4 DEF RowInv, Returned
  <2> QED BY <2>1, <2>2, <2>5 DEF RowInv
<1>12. CASE EnterFinalize
  BY <1>12 DEF EnterFinalize, transition, RowInv
<1>13. CASE ProgressStopped
  BY <1>13 DEF ProgressStopped, RowInv
<1>14. CASE StopCollector
  BY <1>14 DEF StopCollector, RowInv
<1>15. CASE WriteSummary
  BY <1>15 DEF WriteSummary, RowInv
<1>16. CASE EnterDone
  BY <1>16 DEF EnterDone, transition, RowInv
<1>17. CASE shutdown
  BY <1>17 DEF shutdown, RowInv
<1>18. CASE Cancel
  BY <1>18 DEF Cancel, RowInv
<1>19. ASSUME NEW s \in Subs, RunReturns(s) PROVE RowInv'
  BY <1>19 DEF RunReturns, SubInv, RowInv, Subs
<1>20. ASSUME NEW s \in Subs, CountResult(s) PROVE RowInv'
  BY <1>20 DEF CountResult, RowInv, Returned
<1>21. ASSUME NEW s \in Subs, WaitGroupDone(s) PROVE RowInv'
  BY <1>21 DEF WaitGroupDone, RowInv, Returned
<1>22. CASE BeginLine
  BY <1>22 DEF BeginLine, RowInv
<1>23. CASE BeginLastLine
  BY <1>23 DEF BeginLastLine, RowInv
<1>24. CASE EndLine
  BY <1>24 DEF EndLine, inFlight, RowInv
<1>25. CASE UNCHANGED vars
  BY <1>25 DEF RowInv
<1> QED BY <1>1, <1>2, <1>3, <1>4, <1>5, <1>6, <1>7, <1>8, <1>9, <1>10, <1>11, <1>12,
           <1>13, <1>14, <1>15, <1>16, <1>17, <1>18, <1>19, <1>20, <1>21, <1>22, <1>23,
           <1>24, <1>25
  DEF Next, Main

\* The counters of a drained run stand still.
LEMMA LineNext ==
  ASSUME TypeOK, RunInv, SubInv, CountInv, LineInv, [Next]_vars
  PROVE  LineInv'
<1> USE DEF vars, parts, subVars, counts, sampler, Building, Before, Late, After
<1>1. CASE NewCollector
  BY <1>1 DEF NewCollector, RunInv, LineInv, Exact
<1>2. CASE NewEngine
  BY <1>2 DEF NewEngine, RunInv, LineInv, Exact
<1>3. CASE NewListener
  BY <1>3 DEF NewListener, LineInv, Exact
<1>4. CASE newProgressWriter
  BY <1>4 DEF newProgressWriter, RunInv, LineInv, Exact
<1>5. CASE warmup
  BY <1>5 DEF warmup, LineInv, Exact
<1>6. CASE WarmupEnds
  BY <1>6 DEF WarmupEnds, LineInv, Exact
<1>7. CASE EnterRamp
  BY <1>7 DEF EnterRamp, transition, LineInv, Exact
<1>8. CASE Launch
  BY <1>8 DEF Launch, RunInv, LineInv, Exact
<1>9. CASE RampEnds
  BY <1>9 DEF RampEnds, LineInv, Exact
<1>10. CASE EnterDrain
  BY <1>10 DEF EnterDrain, transition, LineInv, Exact
<1>11. CASE DrainEnds
  BY <1>11 DEF DrainEnds, AllDone, LineInv, Exact
<1>12. CASE EnterFinalize
  BY <1>12 DEF EnterFinalize, transition, RunInv, LineInv, Exact
<1>13. CASE ProgressStopped
  BY <1>13 DEF ProgressStopped, LineInv, Exact
<1>14. CASE StopCollector
  BY <1>14 DEF StopCollector, LineInv, Exact
<1>15. CASE WriteSummary
  BY <1>15 DEF WriteSummary, LineInv, Exact
<1>16. CASE EnterDone
  BY <1>16 DEF EnterDone, transition, LineInv, Exact
<1>17. CASE shutdown
  BY <1>17 DEF shutdown, LineInv, Exact
<1>18. CASE Cancel
  BY <1>18 DEF Cancel, LineInv, Exact
<1>19. ASSUME NEW s \in Subs, RunReturns(s) PROVE LineInv'
  BY <1>19 DEF RunReturns, LineInv, Exact
<1>20. ASSUME NEW s \in Subs, CountResult(s) PROVE LineInv'
  BY <1>20 DEF CountResult, LineInv, Exact
<1>21. ASSUME NEW s \in Subs, WaitGroupDone(s) PROVE LineInv'
  BY <1>21 DEF WaitGroupDone, LineInv, Exact
<1>22. CASE BeginLine
  BY <1>22 DEF BeginLine, LineInv, Exact
<1>23. CASE BeginLastLine
  <2>1. /\ wpc = "loop" /\ wpc' = "last" /\ sample' = launched
        /\ stopReq \/ cancelled
        /\ UNCHANGED <<pc, cancelled, stopReq, drained, launched, line>>
    BY <1>23 DEF BeginLastLine, SubInv
  <2> QED BY <2>1 DEF LineInv
<1>24. CASE EndLine
  <2>1. /\ wpc \in {"line", "last"} /\ pc \notin {"returned", "crashed"}
        /\ wpc' = IF wpc = "line" THEN "loop" ELSE "closed"
        /\ UNCHANGED <<pc, cancelled, stopReq, drained, launched, sample>>
    BY <1>24 DEF EndLine, Ended
  <2>2. ASSUME drained, ~cancelled, wpc = "last", pc = "stop_progress" PROVE Exact'
    <3>1. launched = N /\ sample = N /\ activated = N /\ phase = "finalize"
      BY <2>2 DEF RunInv, SubInv, LineInv
    <3>2. Counted = Subs
      BY <2>2, <3>1 DEF Counted, SubInv, Subs
    <3>3. established + failed = N
      BY <3>2, CountedSets DEF CountInv
    <3>4. inFlight = 0
      BY <3>1, <3>3 DEF inFlight, CountInv
    <3>5. line' = [activated |-> N, established |-> established, failed |-> failed,
                   inFlight |-> 0, phase |-> "finalize"]
      BY <1>24, <3>1, <3>4 DEF EndLine
    <3>6. line' # None
      BY <3>5, NoneAssumption, RunnerAssumption, PhaseNames DEF TypeOK, LineType
    <3> QED BY <3>3, <3>5, <3>6 DEF Exact
  <2>3. pc \notin Late
    BY <2>1 DEF LineInv
  <2> QED BY <2>1, <2>2, <2>3 DEF LineInv
<1>25. CASE UNCHANGED vars
  BY <1>25 DEF LineInv, Exact
<1> QED BY <1>1, <1>2, <1>3, <1>4, <1>5, <1>6, <1>7, <1>8, <1>9, <1>10, <1>11, <1>12,
           <1>13, <1>14, <1>15, <1>16, <1>17, <1>18, <1>19, <1>20, <1>21, <1>22, <1>23,
           <1>24, <1>25
  DEF Next, Main

-----------------------------------------------------------------------------

IInv == TypeOK /\ RunInv /\ SubInv /\ CountInv /\ RowInv /\ LineInv

\* The invariant holds when Run is called and is kept by every step.
LEMMA Invariance == Spec => []IInv
<1>1. Init => IInv
  <2> SUFFICES ASSUME Init PROVE IInv
    OBVIOUS
  <2> USE RunnerAssumption DEF Init
  <2>1. TypeOK
    <3>1. /\ cancelled \in BOOLEAN /\ runErr \in BOOLEAN /\ drained \in BOOLEAN
          /\ waitGroup \in BOOLEAN /\ stopReq \in BOOLEAN
      BY Zenon
    <3>2. phase \in Phases
      BY DEF Phases, phaseOrder
    <3> QED BY <3>1, <3>2 DEF TypeOK
  <2>2. RunInv /\ SubInv
    BY DEF RunInv, SubInv, Building, Before, After, Late
  <2>3. CountInv
    <3>1. Counted = {}
      BY DEF Counted
    <3> QED BY <3>1, FS_EmptySet DEF CountInv
  <2>4. RowInv /\ LineInv
    BY DEF RowInv, LineInv, Returned, Late
  <2> QED BY <2>1, <2>2, <2>3, <2>4 DEF IInv
<1>2. IInv /\ [Next]_vars => IInv'
  BY TypeNext, RunNext, SubNext, CountNext, RowNext, LineNext DEF IInv
<1> QED BY <1>1, <1>2, PTL DEF Spec

\* The variables keep their types; the live counters never exceed N.
THEOREM TypeCorrect == Spec => []TypeOK
<1>1. IInv => TypeOK
  BY DEF IInv
<1> QED BY <1>1, Invariance, PTL

\* The sampler loads its counters one by one and without a lock; the order of
\* drain, Stop and the last line makes that line exact nevertheless.
THEOREM LastLine == Spec => []FinalLineExact
<1>1. IInv => FinalLineExact
  BY DEF IInv, LineInv, FinalLineExact, Late
<1> QED BY <1>1, Invariance, PTL

\* The wait group makes Aggregate see the row of every subscriber.
THEOREM SummaryComplete == Spec => []DrainedSummaryComplete
<1>1. IInv => DrainedSummaryComplete
  BY RunnerAssumption DEF IInv, TypeOK, RowInv, DrainedSummaryComplete, Subs
<1> QED BY <1>1, Invariance, PTL

\* The deferred shutdown catches every way out of Run that warmup precedes.
THEOREM NothingRunsOn == Spec => []StartedIsStopped
<1>1. IInv => StartedIsStopped
  BY DEF IInv, RunInv, StartedIsStopped, Ended
<1> QED BY <1>1, Invariance, PTL

=============================================================================
