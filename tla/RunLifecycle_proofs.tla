------------------------ MODULE RunLifecycle_proofs ------------------------
(***************************************************************************)
(* Proofs about RunLifecycle, for every number of runs, of cancels and of  *)
(* restarts.                                                               *)
(***************************************************************************)
EXTENDS RunLifecycle, FiniteSetTheorems, TLAPS

Targeted(r) == \E c \in Cancels : target[c] = r
\* A run whose subprocess loads the network or is about to.
Live(r) == \/ hpc[r] \in {"created", "spawned", "registered", "watch"}
           \/ proc[r] = "alive"

\* How far the handler, the subprocess and the watcher of a run can be from
\* each other, and that a run somebody attends to has an active row.
PcInv ==
  \A r \in Runs :
    /\ hpc[r] # "done" => wpc[r] = "none"
    /\ hpc[r] \in {"idle", "conflict", "created", "start_failed"} => proc[r] = "none"
    /\ hpc[r] \in {"spawned", "registered", "watch"} => proc[r] # "none"
    /\ wpc[r] # "none" => proc[r] # "none"
    /\ wpc[r] \in {"decide", "update", "leave", "done"} => proc[r] \in {"ok", "error"}
    /\ wpc[r] = "update" => final[r] \in Terminal
    /\ Attended(r) => status[r] \in Active
    /\ server = "down" => hpc[r] \in {"idle", "done"} /\ wpc[r] = "none"

\* A cancel under way has a target, one that was not made has none.
CancelInv ==
  \A c \in Cancels :
    /\ cpc[c] = "idle" => target[c] = None
    /\ cpc[c] \in {"update", "kill"} => target[c] \in Runs
    /\ server = "down" => cpc[c] \in {"idle", "done"}

\* SingleTenant, extended to the runs whose subprocess is yet to be spawned.
LiveInv ==
  restarts = 0 =>
    /\ \A r \in Runs : Live(r) => status[r] \in Active
    /\ \A q, r \in Runs : Live(q) /\ Live(r) => q = r

\* FinalStatusJustified, extended to the watcher's decision and to rows
\* that are being cancelled.
FinalInv ==
  \A r \in Runs :
    /\ "succeeded" \in {status[r], final[r]} => proc[r] = "ok"
    /\ "cancelled" \in {status[r], final[r]} =>
         proc[r] \in {"ok", "error"} /\ Targeted(r)
    /\ status[r] = "cancelling" => Targeted(r)

\* NoGhostRow, also during a shutdown.
GhostInv ==
  server # "down" =>
    \A r \in Runs : status[r] \in Active /\ ~Targeted(r) => Attended(r)

\* Whoever looks after a subprocess is one that the shutdown waits for.
ShutdownInv ==
  /\ \A r \in Runs :
       /\ restarts = 0 /\ server # "down" /\ proc[r] = "alive" =>
            hpc[r] \in {"spawned", "registered", "watch"} \/ wpc[r] = "wait"
       /\ hpc[r] \in {"registered", "watch"} => r \in active
       /\ wpc[r] \in {"wait", "decide", "update", "leave"} => r \in active
  /\ server \in {"closed", "draining"} /\ ~timedOut => ~Busy
  /\ server = "draining" /\ ~timedOut => active \subseteq handles
  /\ CleanShutdown
-----------------------------------------------------------------------------

\* Every step keeps the types: the final status that Record writes was decided before.
LEMMA TypeNext ==
  ASSUME TypeOK, PcInv, CancelInv, [Next]_vars
  PROVE  TypeOK'
<1> USE DEF vars, table, process, watchers, cancels, main, Active, Terminal, Handling
<1>1. ASSUME NEW x \in Runs, Create(x) PROVE TypeOK'
  BY <1>1 DEF Create, TypeOK
<1>2. ASSUME NEW x \in Runs, StartFails(x) PROVE TypeOK'
  BY <1>2 DEF StartFails, TypeOK
<1>3. ASSUME NEW x \in Runs, MarkFailed(x) PROVE TypeOK'
  BY <1>3 DEF MarkFailed, UpdateStatus, TypeOK
<1>4. ASSUME NEW x \in Runs, Spawn(x) PROVE TypeOK'
  BY <1>4 DEF Spawn, TypeOK
<1>5. ASSUME NEW x \in Runs, Register(x) PROVE TypeOK'
  BY <1>5 DEF Register, TypeOK
<1>6. ASSUME NEW x \in Runs, SetRunning(x) PROVE TypeOK'
  BY <1>6 DEF SetRunning, UpdateStatus, TypeOK
<1>7. ASSUME NEW x \in Runs, StartWatch(x) PROVE TypeOK'
  BY <1>7 DEF StartWatch, TypeOK
<1>8. ASSUME NEW x \in Runs, Exits(x) PROVE TypeOK'
  BY <1>8 DEF Exits, TypeOK
<1>9. ASSUME NEW x \in Runs, Dies(x) PROVE TypeOK'
  BY <1>9 DEF Dies, TypeOK
<1>10. ASSUME NEW x \in Runs, WaitReturns(x) PROVE TypeOK'
  BY <1>10 DEF WaitReturns, TypeOK
<1>11. ASSUME NEW x \in Runs, Decide(x) PROVE TypeOK'
  BY <1>11 DEF Decide, TypeOK
<1>12. ASSUME NEW x \in Runs, Record(x) PROVE TypeOK'
  BY <1>12 DEF Record, UpdateStatus, TypeOK, PcInv
<1>13. ASSUME NEW x \in Runs, Leave(x) PROVE TypeOK'
  BY <1>13 DEF Leave, TypeOK
<1>14. ASSUME NEW c \in Cancels, CancelGet(c) PROVE TypeOK'
  BY <1>14 DEF CancelGet, TypeOK
<1>15. ASSUME NEW c \in Cancels, CancelUpdate(c) PROVE TypeOK'
  BY <1>15 DEF CancelUpdate, UpdateStatus, TypeOK
<1>16. ASSUME NEW c \in Cancels, CancelKill(c) PROVE TypeOK'
  BY <1>16 DEF CancelKill, TypeOK
<1>17. CASE Signal
  BY <1>17 DEF Signal, TypeOK
<1>18. CASE HTTPClosed
  <2>1. timedOut' \in BOOLEAN
    BY <1>18 DEF HTTPClosed, Busy
  <2> QED BY <1>18, <2>1 DEF HTTPClosed, TypeOK
<1>19. CASE ShutdownCancel
  BY <1>19 DEF ShutdownCancel, TypeOK
<1>20. CASE ShutdownReturns
  BY <1>20 DEF ShutdownReturns, ServerEnds, TypeOK
<1>21. CASE Crash
  BY <1>21 DEF Crash, ServerEnds, TypeOK
<1>22. CASE StartServer
  <2>1. finished' \in [Runs -> BOOLEAN] /\ timedOut' \in BOOLEAN
    BY <1>22, Zenon DEF StartServer
  <2>2. restarts' \in 0 .. MaxRestarts
    BY <1>22, RestartAssumption DEF StartServer, TypeOK
  <2>3. status' \in [Runs -> {"none"} \cup Active \cup Terminal]
    BY <1>22 DEF StartServer, TypeOK
  <2> QED BY <1>22, <2>1, <2>2, <2>3 DEF StartServer, TypeOK
<1>23. CASE UNCHANGED vars
  BY <1>23 DEF TypeOK
<1> QED BY <1>1, <1>2, <1>3, <1>4, <1>5, <1>6, <1>7, <1>8, <1>9, <1>10, <1>11, <1>12,
           <1>13, <1>14, <1>15, <1>16, <1>17, <1>18, <1>19, <1>20, <1>21, <1>22, <1>23
  DEF Next, Post, Watch

\* Handler, subprocess and watcher move in step.
LEMMA PcNext ==
  ASSUME TypeOK, PcInv, CancelInv, [Next]_vars
  PROVE  PcInv'
<1> USE DEF vars, table, process, watchers, cancels, main, Active, Terminal, Handling
<1>1. ASSUME NEW x \in Runs, Create(x) PROVE PcInv'
  BY <1>1 DEF Create, TypeOK, PcInv, Attended
<1>2. ASSUME NEW x \in Runs, StartFails(x) PROVE PcInv'
  BY <1>2 DEF StartFails, PcInv, Attended
<1>3. ASSUME NEW x \in Runs, MarkFailed(x) PROVE PcInv'
  BY <1>3 DEF MarkFailed, UpdateStatus, TypeOK, PcInv, Attended
<1>4. ASSUME NEW x \in Runs, Spawn(x) PROVE PcInv'
  BY <1>4 DEF Spawn, TypeOK, PcInv, Attended
<1>5. ASSUME NEW x \in Runs, Register(x) PROVE PcInv'
  BY <1>5 DEF Register, PcInv, Attended
<1>6. ASSUME NEW x \in Runs, SetRunning(x) PROVE PcInv'
  BY <1>6 DEF SetRunning, UpdateStatus, PcInv, Attended
<1>7. ASSUME NEW x \in Runs, StartWatch(x) PROVE PcInv'
  BY <1>7 DEF StartWatch, TypeOK, PcInv, Attended
<1>8. ASSUME NEW x \in Runs, Exits(x) PROVE PcInv'
  BY <1>8 DEF Exits, PcInv, Attended
<1>9. ASSUME NEW x \in Runs, Dies(x) PROVE PcInv'
  BY <1>9 DEF Dies, PcInv, Attended
<1>10. ASSUME NEW x \in Runs, WaitReturns(x) PROVE PcInv'
  BY <1>10 DEF WaitReturns, TypeOK, PcInv, Attended
<1>11. ASSUME NEW x \in Runs, Decide(x) PROVE PcInv'
  BY <1>11 DEF Decide, TypeOK, PcInv, Attended
<1>12. ASSUME NEW x \in Runs, Record(x) PROVE PcInv'
  BY <1>12 DEF Record, UpdateStatus, TypeOK, PcInv, Attended
<1>13. ASSUME NEW x \in Runs, Leave(x) PROVE PcInv'
  BY <1>13 DEF Leave, PcInv, Attended
<1>14. ASSUME NEW c \in Cancels, CancelGet(c) PROVE PcInv'
  BY <1>14 DEF CancelGet, PcInv, Attended
<1>15. ASSUME NEW c \in Cancels, CancelUpdate(c) PROVE PcInv'
  BY <1>15 DEF CancelUpdate, UpdateStatus, PcInv, Attended
<1>16. ASSUME NEW c \in Cancels, CancelKill(c) PROVE PcInv'
  BY <1>16 DEF CancelKill, PcInv, Attended
<1>17. CASE Signal
  BY <1>17 DEF Signal, PcInv, Attended
<1>18. CASE HTTPClosed
  BY <1>18 DEF HTTPClosed, PcInv, Attended
<1>19. CASE ShutdownCancel
  BY <1>19 DEF ShutdownCancel, PcInv, Attended
<1>20. CASE ShutdownReturns
  BY <1>20 DEF ShutdownReturns, ServerEnds, PcInv, Attended
<1>21. CASE Crash
  BY <1>21 DEF Crash, ServerEnds, PcInv, Attended
<1>22. CASE StartServer
  BY <1>22 DEF StartServer, PcInv, Attended
<1>23. CASE UNCHANGED vars
  BY <1>23 DEF PcInv, Attended
<1> QED BY <1>1, <1>2, <1>3, <1>4, <1>5, <1>6, <1>7, <1>8, <1>9, <1>10, <1>11, <1>12,
           <1>13, <1>14, <1>15, <1>16, <1>17, <1>18, <1>19, <1>20, <1>21, <1>22, <1>23
  DEF Next, Post, Watch

\* A cancel under way keeps its target.
LEMMA CancelNext ==
  ASSUME TypeOK, PcInv, CancelInv, [Next]_vars
  PROVE  CancelInv'
<1> USE DEF vars, table, process, watchers, cancels, main, Active, Terminal, Handling
<1>1. ASSUME NEW x \in Runs, Create(x) PROVE CancelInv'
  BY <1>1 DEF Create, CancelInv
<1>2. ASSUME NEW x \in Runs, StartFails(x) PROVE CancelInv'
  BY <1>2 DEF StartFails, CancelInv
<1>3. ASSUME NEW x \in Runs, MarkFailed(x) PROVE CancelInv'
  BY <1>3 DEF MarkFailed, UpdateStatus, CancelInv
<1>4. ASSUME NEW x \in Runs, Spawn(x) PROVE CancelInv'
  BY <1>4 DEF Spawn, CancelInv
<1>5. ASSUME NEW x \in Runs, Register(x) PROVE CancelInv'
  BY <1>5 DEF Register, CancelInv
<1>6. ASSUME NEW x \in Runs, SetRunning(x) PROVE CancelInv'
  BY <1>6 DEF SetRunning, UpdateStatus, CancelInv
<1>7. ASSUME NEW x \in Runs, StartWatch(x) PROVE CancelInv'
  BY <1>7 DEF StartWatch, CancelInv
<1>8. ASSUME NEW x \in Runs, Exits(x) PROVE CancelInv'
  BY <1>8 DEF Exits, CancelInv
<1>9. ASSUME NEW x \in Runs, Dies(x) PROVE CancelInv'
  BY <1>9 DEF Dies, CancelInv
<1>10. ASSUME NEW x \in Runs, WaitReturns(x) PROVE CancelInv'
  BY <1>10 DEF WaitReturns, CancelInv
<1>11. ASSUME NEW x \in Runs, Decide(x) PROVE CancelInv'
  BY <1>11 DEF Decide, CancelInv
<1>12. ASSUME NEW x \in Runs, Record(x) PROVE CancelInv'
  BY <1>12 DEF Record, UpdateStatus, CancelInv
<1>13. ASSUME NEW x \in Runs, Leave(x) PROVE CancelInv'
  BY <1>13 DEF Leave, CancelInv
<1>14. ASSUME NEW c \in Cancels, CancelGet(c) PROVE CancelInv'
  BY <1>14 DEF CancelGet, TypeOK, CancelInv
<1>15. ASSUME NEW c \in Cancels, CancelUpdate(c) PROVE CancelInv'
  BY <1>15 DEF CancelUpdate, UpdateStatus, CancelInv
<1>16. ASSUME NEW c \in Cancels, CancelKill(c) PROVE CancelInv'
  BY <1>16 DEF CancelKill, CancelInv
<1>17. CASE Signal
  BY <1>17 DEF Signal, CancelInv
<1>18. CASE HTTPClosed
  BY <1>18 DEF HTTPClosed, CancelInv
<1>19. CASE ShutdownCancel
  BY <1>19 DEF ShutdownCancel, CancelInv
<1>20. CASE ShutdownReturns
  BY <1>20 DEF ShutdownReturns, ServerEnds, CancelInv
<1>21. CASE Crash
  BY <1>21 DEF Crash, ServerEnds, CancelInv
<1>22. CASE StartServer
  BY <1>22 DEF StartServer, CancelInv
<1>23. CASE UNCHANGED vars
  BY <1>23 DEF CancelInv
<1> QED BY <1>1, <1>2, <1>3, <1>4, <1>5, <1>6, <1>7, <1>8, <1>9, <1>10, <1>11, <1>12,
           <1>13, <1>14, <1>15, <1>16, <1>17, <1>18, <1>19, <1>20, <1>21, <1>22, <1>23
  DEF Next, Post, Watch

\* Create lets nobody in while a run is live.
LEMMA LiveNext ==
  ASSUME TypeOK, PcInv, CancelInv, LiveInv, [Next]_vars
  PROVE  LiveInv'
<1> USE DEF vars, table, process, watchers, cancels, main, Active, Terminal, Handling
<1>1. ASSUME NEW x \in Runs, Create(x) PROVE LiveInv'
  BY <1>1 DEF Create, TypeOK, LiveInv, Live
<1>2. ASSUME NEW x \in Runs, StartFails(x) PROVE LiveInv'
  BY <1>2 DEF StartFails, LiveInv, Live
<1>3. ASSUME NEW x \in Runs, MarkFailed(x) PROVE LiveInv'
  BY <1>3 DEF MarkFailed, UpdateStatus, PcInv, LiveInv, Live
<1>4. ASSUME NEW x \in Runs, Spawn(x) PROVE LiveInv'
  BY <1>4 DEF Spawn, LiveInv, Live
<1>5. ASSUME NEW x \in Runs, Register(x) PROVE LiveInv'
  BY <1>5 DEF Register, LiveInv, Live
<1>6. ASSUME NEW x \in Runs, SetRunning(x) PROVE LiveInv'
  BY <1>6 DEF SetRunning, UpdateStatus, LiveInv, Live
<1>7. ASSUME NEW x \in Runs, StartWatch(x) PROVE LiveInv'
  BY <1>7 DEF StartWatch, LiveInv, Live
<1>8. ASSUME NEW x \in Runs, Exits(x) PROVE LiveInv'
  BY <1>8 DEF Exits, LiveInv, Live
<1>9. ASSUME NEW x \in Runs, Dies(x) PROVE LiveInv'
  BY <1>9 DEF Dies, LiveInv, Live
<1>10. ASSUME NEW x \in Runs, WaitReturns(x) PROVE LiveInv'
  BY <1>10 DEF WaitReturns, LiveInv, Live
<1>11. ASSUME NEW x \in Runs, Decide(x) PROVE LiveInv'
  BY <1>11 DEF Decide, LiveInv, Live
<1>12. ASSUME NEW x \in Runs, Record(x) PROVE LiveInv'
  BY <1>12 DEF Record, UpdateStatus, PcInv, LiveInv, Live
<1>13. ASSUME NEW x \in Runs, Leave(x) PROVE LiveInv'
  BY <1>13 DEF Leave, LiveInv, Live
<1>14. ASSUME NEW c \in Cancels, CancelGet(c) PROVE LiveInv'
  BY <1>14 DEF CancelGet, LiveInv, Live
<1>15. ASSUME NEW c \in Cancels, CancelUpdate(c) PROVE LiveInv'
  BY <1>15 DEF CancelUpdate, UpdateStatus, LiveInv, Live
<1>16. ASSUME NEW c \in Cancels, CancelKill(c) PROVE LiveInv'
  BY <1>16 DEF CancelKill, LiveInv, Live
<1>17. CASE Signal
  BY <1>17 DEF Signal, LiveInv, Live
<1>18. CASE HTTPClosed
  BY <1>18 DEF HTTPClosed, LiveInv, Live
<1>19. CASE ShutdownCancel
  BY <1>19 DEF ShutdownCancel, LiveInv, Live
<1>20. CASE ShutdownReturns
  BY <1>20 DEF ShutdownReturns, ServerEnds, LiveInv, Live
<1>21. CASE Crash
  BY <1>21 DEF Crash, ServerEnds, LiveInv, Live
<1>22. CASE StartServer
  BY <1>22 DEF StartServer, TypeOK, LiveInv
<1>23. CASE UNCHANGED vars
  BY <1>23 DEF LiveInv, Live
<1> QED BY <1>1, <1>2, <1>3, <1>4, <1>5, <1>6, <1>7, <1>8, <1>9, <1>10, <1>11, <1>12,
           <1>13, <1>14, <1>15, <1>16, <1>17, <1>18, <1>19, <1>20, <1>21, <1>22, <1>23
  DEF Next, Post, Watch

\* A watcher's decision stays justified until it is recorded.
LEMMA FinalNext ==
  ASSUME TypeOK, PcInv, CancelInv, FinalInv, [Next]_vars
  PROVE  FinalInv'
<1> USE DEF vars, table, process, watchers, cancels, main, Active, Terminal, Handling
<1>1. ASSUME NEW x \in Runs, Create(x) PROVE FinalInv'
  BY <1>1 DEF Create, TypeOK, FinalInv, Targeted
<1>2. ASSUME NEW x \in Runs, StartFails(x) PROVE FinalInv'
  BY <1>2 DEF StartFails, FinalInv, Targeted
<1>3. ASSUME NEW x \in Runs, MarkFailed(x) PROVE FinalInv'
  BY <1>3 DEF MarkFailed, UpdateStatus, FinalInv, Targeted
<1>4. ASSUME NEW x \in Runs, Spawn(x) PROVE FinalInv'
  BY <1>4 DEF Spawn, PcInv, FinalInv, Targeted
<1>5. ASSUME NEW x \in Runs, Register(x) PROVE FinalInv'
  BY <1>5 DEF Register, FinalInv, Targeted
<1>6. ASSUME NEW x \in Runs, SetRunning(x) PROVE FinalInv'
  BY <1>6 DEF SetRunning, UpdateStatus, FinalInv, Targeted
<1>7. ASSUME NEW x \in Runs, StartWatch(x) PROVE FinalInv'
  BY <1>7 DEF StartWatch, FinalInv, Targeted
<1>8. ASSUME NEW x \in Runs, Exits(x) PROVE FinalInv'
  BY <1>8 DEF Exits, FinalInv, Targeted
<1>9. ASSUME NEW x \in Runs, Dies(x) PROVE FinalInv'
  BY <1>9 DEF Dies, FinalInv, Targeted
<1>10. ASSUME NEW x \in Runs, WaitReturns(x) PROVE FinalInv'
  BY <1>10 DEF WaitReturns, FinalInv, Targeted
<1>11. ASSUME NEW x \in Runs, Decide(x) PROVE FinalInv'
  BY <1>11 DEF Decide, PcInv, FinalInv, Targeted
<1>12. ASSUME NEW x \in Runs, Record(x) PROVE FinalInv'
  BY <1>12 DEF Record, UpdateStatus, PcInv, FinalInv, Targeted
<1>13. ASSUME NEW x \in Runs, Leave(x) PROVE FinalInv'
  BY <1>13 DEF Leave, FinalInv, Targeted
<1>14. ASSUME NEW c \in Cancels, CancelGet(c) PROVE FinalInv'
  BY <1>14, NoneAssumption DEF CancelGet, CancelInv, FinalInv, Targeted
<1>15. ASSUME NEW c \in Cancels, CancelUpdate(c) PROVE FinalInv'
  BY <1>15 DEF CancelUpdate, UpdateStatus, FinalInv, Targeted
<1>16. ASSUME NEW c \in Cancels, CancelKill(c) PROVE FinalInv'
  BY <1>16 DEF CancelKill, FinalInv, Targeted
<1>17. CASE Signal
  BY <1>17 DEF Signal, FinalInv, Targeted
<1>18. CASE HTTPClosed
  BY <1>18 DEF HTTPClosed, FinalInv, Targeted
<1>19. CASE ShutdownCancel
  BY <1>19 DEF ShutdownCancel, FinalInv, Targeted
<1>20. CASE ShutdownReturns
  BY <1>20, NoneAssumption DEF ShutdownReturns, ServerEnds, FinalInv, Targeted
<1>21. CASE Crash
  BY <1>21, NoneAssumption DEF Crash, ServerEnds, FinalInv, Targeted
<1>22. CASE StartServer
  BY <1>22 DEF StartServer, FinalInv, Targeted
<1>23. CASE UNCHANGED vars
  BY <1>23 DEF FinalInv, Targeted
<1> QED BY <1>1, <1>2, <1>3, <1>4, <1>5, <1>6, <1>7, <1>8, <1>9, <1>10, <1>11, <1>12,
           <1>13, <1>14, <1>15, <1>16, <1>17, <1>18, <1>19, <1>20, <1>21, <1>22, <1>23
  DEF Next, Post, Watch

\* A row loses its attendant only with its final status.
LEMMA GhostNext ==
  ASSUME TypeOK, PcInv, CancelInv, GhostInv, [Next]_vars
  PROVE  GhostInv'
<1> USE DEF vars, table, process, watchers, cancels, main, Active, Terminal, Handling
<1>1. ASSUME NEW x \in Runs, Create(x) PROVE GhostInv'
  BY <1>1 DEF Create, TypeOK, GhostInv, Targeted, Attended
<1>2. ASSUME NEW x \in Runs, StartFails(x) PROVE GhostInv'
  BY <1>2 DEF StartFails, GhostInv, Targeted, Attended
<1>3. ASSUME NEW x \in Runs, MarkFailed(x) PROVE GhostInv'
  BY <1>3 DEF MarkFailed, UpdateStatus, TypeOK, GhostInv, Targeted, Attended
<1>4. ASSUME NEW x \in Runs, Spawn(x) PROVE GhostInv'
  BY <1>4 DEF Spawn, GhostInv, Targeted, Attended
<1>5. ASSUME NEW x \in Runs, Register(x) PROVE GhostInv'
  BY <1>5 DEF Register, GhostInv, Targeted, Attended
<1>6. ASSUME NEW x \in Runs, SetRunning(x) PROVE GhostInv'
  BY <1>6 DEF SetRunning, UpdateStatus, GhostInv, Targeted, Attended
<1>7. ASSUME NEW x \in Runs, StartWatch(x) PROVE GhostInv'
  BY <1>7 DEF StartWatch, TypeOK, GhostInv, Targeted, Attended
<1>8. ASSUME NEW x \in Runs, Exits(x) PROVE GhostInv'
  BY <1>8 DEF Exits, GhostInv, Targeted, Attended
<1>9. ASSUME NEW x \in Runs, Dies(x) PROVE GhostInv'
  BY <1>9 DEF Dies, GhostInv, Targeted, Attended
<1>10. ASSUME NEW x \in Runs, WaitReturns(x) PROVE GhostInv'
  BY <1>10 DEF WaitReturns, GhostInv, Targeted, Attended
<1>11. ASSUME NEW x \in Runs, Decide(x) PROVE GhostInv'
  BY <1>11 DEF Decide, GhostInv, Targeted, Attended
<1>12. ASSUME NEW x \in Runs, Record(x) PROVE GhostInv'
  BY <1>12 DEF Record, UpdateStatus, TypeOK, PcInv, GhostInv, Targeted, Attended
<1>13. ASSUME NEW x \in Runs, Leave(x) PROVE GhostInv'
  BY <1>13 DEF Leave, GhostInv, Targeted, Attended
<1>14. ASSUME NEW c \in Cancels, CancelGet(c) PROVE GhostInv'
  BY <1>14, NoneAssumption DEF CancelGet, CancelInv, GhostInv, Targeted, Attended
<1>15. ASSUME NEW c \in Cancels, CancelUpdate(c) PROVE GhostInv'
  BY <1>15 DEF CancelUpdate, UpdateStatus, GhostInv, Targeted, Attended
<1>16. ASSUME NEW c \in Cancels, CancelKill(c) PROVE GhostInv'
  BY <1>16 DEF CancelKill, GhostInv, Targeted, Attended
<1>17. CASE Signal
  BY <1>17 DEF Signal, GhostInv, Targeted, Attended
<1>18. CASE HTTPClosed
  BY <1>18 DEF HTTPClosed, GhostInv, Targeted, Attended
<1>19. CASE ShutdownCancel
  BY <1>19 DEF ShutdownCancel, GhostInv, Targeted, Attended
<1>20. CASE ShutdownReturns
  BY <1>20 DEF ShutdownReturns, ServerEnds, GhostInv
<1>21. CASE Crash
  BY <1>21 DEF Crash, ServerEnds, GhostInv
<1>22. CASE StartServer
  BY <1>22 DEF StartServer, GhostInv
<1>23. CASE UNCHANGED vars
  BY <1>23 DEF GhostInv, Targeted, Attended
<1> QED BY <1>1, <1>2, <1>3, <1>4, <1>5, <1>6, <1>7, <1>8, <1>9, <1>10, <1>11, <1>12,
           <1>13, <1>14, <1>15, <1>16, <1>17, <1>18, <1>19, <1>20, <1>21, <1>22, <1>23
  DEF Next, Post, Watch

\* Nobody enters once the server is closed; a clean shutdown waits for the rest.
LEMMA ShutdownNext ==
  ASSUME TypeOK, PcInv, CancelInv, ShutdownInv, [Next]_vars
  PROVE  ShutdownInv'
<1> USE DEF vars, table, process, watchers, cancels, main, Active, Terminal, Handling
<1>1. ASSUME NEW x \in Runs, Create(x) PROVE ShutdownInv'
  BY <1>1 DEF Create, TypeOK, ShutdownInv, CleanShutdown
<1>2. ASSUME NEW x \in Runs, StartFails(x) PROVE ShutdownInv'
  BY <1>2 DEF StartFails, ShutdownInv, CleanShutdown, Alive, Busy
<1>3. ASSUME NEW x \in Runs, MarkFailed(x) PROVE ShutdownInv'
  BY <1>3 DEF MarkFailed, UpdateStatus, ShutdownInv, CleanShutdown, Alive, Busy
<1>4. ASSUME NEW x \in Runs, Spawn(x) PROVE ShutdownInv'
  BY <1>4 DEF Spawn, TypeOK, PcInv, ShutdownInv, CleanShutdown, Busy
<1>5. ASSUME NEW x \in Runs, Register(x) PROVE ShutdownInv'
  BY <1>5 DEF Register, ShutdownInv, CleanShutdown, Alive, Busy
<1>6. ASSUME NEW x \in Runs, SetRunning(x) PROVE ShutdownInv'
  BY <1>6 DEF SetRunning, UpdateStatus, ShutdownInv, CleanShutdown, Alive, Busy
<1>7. ASSUME NEW x \in Runs, StartWatch(x) PROVE ShutdownInv'
  BY <1>7 DEF StartWatch, TypeOK, ShutdownInv, CleanShutdown, Alive, Busy
<1>8. ASSUME NEW x \in Runs, Exits(x) PROVE ShutdownInv'
  BY <1>8 DEF Exits, ShutdownInv, CleanShutdown, Alive, Busy
<1>9. ASSUME NEW x \in Runs, Dies(x) PROVE ShutdownInv'
  BY <1>9 DEF Dies, ShutdownInv, CleanShutdown, Alive, Busy
<1>10. ASSUME NEW x \in Runs, WaitReturns(x) PROVE ShutdownInv'
  BY <1>10 DEF WaitReturns, ShutdownInv, CleanShutdown, Alive, Busy
<1>11. ASSUME NEW x \in Runs, Decide(x) PROVE ShutdownInv'
  BY <1>11 DEF Decide, ShutdownInv, CleanShutdown, Alive, Busy
<1>12. ASSUME NEW x \in Runs, Record(x) PROVE ShutdownInv'
  BY <1>12 DEF Record, UpdateStatus, ShutdownInv, CleanShutdown, Alive, Busy
<1>13. ASSUME NEW x \in Runs, Leave(x) PROVE ShutdownInv'
  BY <1>13 DEF Leave, TypeOK, PcInv, ShutdownInv, CleanShutdown, Busy
<1>14. ASSUME NEW c \in Cancels, CancelGet(c) PROVE ShutdownInv'
  BY <1>14 DEF CancelGet, ShutdownInv, CleanShutdown
<1>15. ASSUME NEW c \in Cancels, CancelUpdate(c) PROVE ShutdownInv'
  BY <1>15 DEF CancelUpdate, UpdateStatus, ShutdownInv, CleanShutdown, Alive, Busy
<1>16. ASSUME NEW c \in Cancels, CancelKill(c) PROVE ShutdownInv'
  BY <1>16 DEF CancelKill, ShutdownInv, CleanShutdown, Alive, Busy
<1>17. CASE Signal
  BY <1>17 DEF Signal, ShutdownInv, CleanShutdown
<1>18. CASE HTTPClosed
  BY <1>18 DEF HTTPClosed, ShutdownInv, CleanShutdown, Busy
<1>19. CASE ShutdownCancel
  BY <1>19 DEF ShutdownCancel, ShutdownInv, CleanShutdown, Busy
<1>20. CASE ShutdownReturns
  BY <1>20 DEF ShutdownReturns, ServerEnds, ShutdownInv, CleanShutdown, Alive, Busy
<1>21. CASE Crash
  BY <1>21 DEF Crash, ServerEnds, ShutdownInv, CleanShutdown
<1>22. CASE StartServer
  BY <1>22 DEF StartServer, TypeOK, ShutdownInv, CleanShutdown
<1>23. CASE UNCHANGED vars
  BY <1>23 DEF ShutdownInv, CleanShutdown, Alive, Busy
<1> QED BY <1>1, <1>2, <1>3, <1>4, <1>5, <1>6, <1>7, <1>8, <1>9, <1>10, <1>11, <1>12,
           <1>13, <1>14, <1>15, <1>16, <1>17, <1>18, <1>19, <1>20, <1>21, <1>22, <1>23
  DEF Next, Post, Watch

-----------------------------------------------------------------------------

IInv == /\ TypeOK /\ PcInv /\ CancelInv
        /\ LiveInv /\ FinalInv /\ GhostInv /\ ShutdownInv

\* The invariant holds of an empty table and is kept by every step.
LEMMA Invariance == Spec => []IInv
<1>1. Init => IInv
  <2> SUFFICES ASSUME Init PROVE IInv
    OBVIOUS
  <2> USE DEF Init, Active, Terminal
  <2>1. TypeOK
    <3>1. restarts \in 0 .. MaxRestarts
      BY RestartAssumption
    <3>2. timedOut \in BOOLEAN
      BY Zenon
    <3> QED BY <3>1, <3>2 DEF TypeOK
  <2>2. PcInv /\ CancelInv
    BY DEF PcInv, CancelInv, Attended, Handling
  <2>3. LiveInv /\ FinalInv /\ GhostInv
    BY NoneAssumption DEF LiveInv, Live, FinalInv, GhostInv
  <2>4. ShutdownInv
    BY DEF ShutdownInv, CleanShutdown
  <2> QED BY <2>1, <2>2, <2>3, <2>4 DEF IInv
<1>2. IInv /\ [Next]_vars => IInv'
  BY TypeNext, PcNext, CancelNext, LiveNext, FinalNext, GhostNext, ShutdownNext
  DEF IInv
<1> QED BY <1>1, <1>2, PTL DEF Spec

\* The variables keep their types: no step of a handler, watcher, cancel,
\* shutdown, crash or restart writes a status that is none.
THEOREM TypeCorrect == Spec => []TypeOK
<1>1. IInv => TypeOK
  BY DEF IInv
<1> QED BY <1>1, Invariance, PTL

\* However many runs and cancels are posted, the transaction of Store.Create
\* and the order in which Runner.Start and watch write the row keep a second
\* subprocess from being spawned next to a live one.
THEOREM SingleTenancy == Spec => []SingleTenant
<1>1. IInv => SingleTenant
  <2> SUFFICES ASSUME IInv, restarts = 0
               PROVE  /\ \A r \in Alive : status[r] \in Active
                      /\ Cardinality(Alive) <= 1
    BY DEF SingleTenant
  <2>1. \A r \in Alive : r \in Runs /\ Live(r)
    BY DEF Alive, Live
  <2>2. \A r \in Alive : status[r] \in Active
    BY <2>1 DEF IInv, LiveInv
  <2>3. \A q, r \in Alive : q = r
    BY <2>1 DEF IInv, LiveInv
  <2>4. Cardinality(Alive) <= 1
    <3>1. CASE Alive = {}
      BY <3>1, FS_EmptySet
    <3>2. CASE Alive # {}
      <4>1. PICK r \in Alive : TRUE
        BY <3>2
      <4>2. Alive = {r}
        BY <2>3, <4>1
      <4> QED BY <4>2, FS_Singleton
    <3> QED BY <3>1, <3>2
  <2> QED BY <2>2, <2>4
<1> QED BY <1>1, Invariance, PTL

\* What the watcher decided on between Store.Get and UpdateStatus is still
\* justified when it is written, however many cancels came in between.
THEOREM FinalStatus == Spec => []FinalStatusJustified
<1>1. IInv => FinalStatusJustified
  BY DEF IInv, FinalInv, FinalStatusJustified, Targeted
<1> QED BY <1>1, Invariance, PTL

\* Only a cancel can leave a row active for ever: failed starts, crashes and
\* restarts cannot, since NewSQLiteStore reaps what they left.
THEOREM NoGhost == Spec => []NoGhostRow
<1>1. IInv => NoGhostRow
  BY DEF IInv, GhostInv, NoGhostRow, Targeted
<1> QED BY <1>1, Invariance, PTL

\* A shutdown whose timeouts did not fire waits for every subprocess: the
\* handlers are through before Runner.Shutdown takes its snapshot.
THEOREM ShutdownIsClean == Spec => []CleanShutdown
<1>1. IInv => CleanShutdown
  BY DEF IInv, ShutdownInv
<1> QED BY <1>1, Invariance, PTL

=============================================================================
