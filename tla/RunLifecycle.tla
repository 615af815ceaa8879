---------------------------- MODULE RunLifecycle ----------------------------
(***************************************************************************)
(* apps/api: the life of a run in the API server.  POST /runs creates a    *)
(* row and spawns the CLI as a subprocess, a watcher goroutine waits for   *)
(* it and records how it ended, POST /cancel flips the row and kills the   *)
(* subprocess, and rows and subprocesses outlive a server that crashes.    *)
(* Each store call is one transaction (SQLiteStore.mu); between two of     *)
(* them every other goroutine may run.                                     *)
(*                                                                         *)
(* SQLite is taken to accept every write.  Names, configs, progress,       *)
(* summaries and timestamps are left out, finished_at except for whether   *)
(* it is set.                                                              *)
(***************************************************************************)
EXTENDS Integers, FiniteSets

CONSTANTS
  Runs,         \* the POST /runs requests, and the rows they create
  Cancels,      \* the POST /runs/{id}/cancel requests
  MaxRestarts,  \* bound: how often the server is started again
  None

ASSUME RestartAssumption == MaxRestarts \in Nat

Active   == {"queued", "running", "cancelling"}
Terminal == {"succeeded", "failed", "cancelled"}

ASSUME NoneAssumption == None \notin Runs \cup Terminal

VARIABLES
  status, finished,  \* the runs table: status, and whether finished_at is set
  proc,              \* each subprocess: none, alive, or how Wait saw it exit
  killed,            \* its context is cancelled, SIGKILL is on its way
  active,            \* Runner.active
  hpc,               \* each POST /runs
  wpc, final,        \* each watcher: where it is, and the status it decided on
  cpc, target,       \* each POST /cancel, and the run it is for
  server,            \* main: serving, the stages of its shutdown, or down
  timedOut, handles, \* a shutdown timeout fired; Shutdown's snapshot of active
  restarts

table    == <<status, finished>>
process  == <<proc, killed>>
watchers == <<wpc, final>>
cancels  == <<cpc, target>>
main     == <<server, timedOut, handles, restarts>>
vars == <<table, process, active, hpc, watchers, cancels, main>>

Init ==
  /\ status = [r \in Runs |-> "none"] /\ finished = [r \in Runs |-> FALSE]
  /\ proc = [r \in Runs |-> "none"] /\ killed = [r \in Runs |-> FALSE]
  /\ active = {}
  /\ hpc = [r \in Runs |-> "idle"]
  /\ wpc = [r \in Runs |-> "none"] /\ final = [r \in Runs |-> None]
  /\ cpc = [c \in Cancels |-> "idle"] /\ target = [c \in Cancels |-> None]
  /\ server = "serving" /\ timedOut = FALSE /\ handles = {} /\ restarts = 0

\* Store.UpdateStatus, whatever the status was before.
UpdateStatus(r, st) ==
  /\ status' = [status EXCEPT ![r] = st]
  /\ finished' = [finished EXCEPT ![r] = @ \/ st \in Terminal]

-----------------------------------------------------------------------------
(* POST /runs: RunsHandler.Create and Runner.Start.                        *)

\* Fault: a run being cancelled does not block a new one.
CreateIgnoresCancelling(r) ==
  /\ server = "serving" /\ hpc[r] = "idle"
  /\ IF \E q \in Runs : status[q] \in {"queued", "running"}
     THEN hpc' = [hpc EXCEPT ![r] = "conflict"] /\ UNCHANGED table
     ELSE /\ hpc' = [hpc EXCEPT ![r] = "created"]
          /\ status' = [status EXCEPT ![r] = "queued"] /\ UNCHANGED finished
  /\ UNCHANGED <<process, active, watchers, cancels, main>>

\* Store.Create: 409 while any row is active, else insert, in one transaction.
Create(r) ==
  /\ server = "serving" /\ hpc[r] = "idle"
  /\ IF \E q \in Runs : status[q] \in Active
     THEN hpc' = [hpc EXCEPT ![r] = "conflict"] /\ UNCHANGED table
     ELSE /\ hpc' = [hpc EXCEPT ![r] = "created"]
          /\ status' = [status EXCEPT ![r] = "queued"] /\ UNCHANGED finished
  /\ UNCHANGED <<process, active, watchers, cancels, main>>

\* Runner.Start returns an error before the subprocess exists.
StartFails(r) ==
  /\ hpc[r] = "created" /\ hpc' = [hpc EXCEPT ![r] = "start_failed"]
  /\ UNCHANGED <<table, process, active, watchers, cancels, main>>

\* The handler then marks the row failed.
MarkFailed(r) ==
  /\ hpc[r] = "start_failed" /\ hpc' = [hpc EXCEPT ![r] = "done"]
  /\ UpdateStatus(r, "failed")
  /\ UNCHANGED <<process, active, watchers, cancels, main>>

\* cmd.Start: the subprocess runs, in a process group of its own.
Spawn(r) ==
  /\ hpc[r] = "created" /\ hpc' = [hpc EXCEPT ![r] = "spawned"]
  /\ proc' = [proc EXCEPT ![r] = "alive"]
  /\ UNCHANGED <<table, killed, active, watchers, cancels, main>>

\* From here on Cancel and Shutdown know the run.
Register(r) ==
  /\ hpc[r] = "spawned" /\ hpc' = [hpc EXCEPT ![r] = "registered"]
  /\ active' = active \cup {r}
  /\ UNCHANGED <<table, process, watchers, cancels, main>>

\* UpdateStatus(running), also over a cancelling, ...
SetRunning(r) ==
  /\ hpc[r] = "registered" /\ hpc' = [hpc EXCEPT ![r] = "watch"]
  /\ UpdateStatus(r, "running")
  /\ UNCHANGED <<process, active, watchers, cancels, main>>

\* ... then the watcher is started and the handler answers 201.
StartWatch(r) ==
  /\ hpc[r] = "watch" /\ hpc' = [hpc EXCEPT ![r] = "done"]
  /\ wpc' = [wpc EXCEPT ![r] = "wait"]
  /\ UNCHANGED <<table, process, active, final, cancels, main>>

Post(r) ==
  StartFails(r) \/ MarkFailed(r) \/ Spawn(r) \/ Register(r) \/ SetRunning(r)
    \/ StartWatch(r)

-----------------------------------------------------------------------------
(* The subprocess, and the watcher of it.                                  *)

\* The CLI exits by itself, with status 0 or with another one, ...
Exits(r) ==
  /\ proc[r] = "alive"
  /\ \E how \in {"ok", "error"} : proc' = [proc EXCEPT ![r] = how]
  /\ UNCHANGED <<table, killed, active, hpc, watchers, cancels, main>>

\* ... or is killed.
Dies(r) ==
  /\ proc[r] = "alive" /\ killed[r]
  /\ proc' = [proc EXCEPT ![r] = "error"]
  /\ UNCHANGED <<table, killed, active, hpc, watchers, cancels, main>>

\* cmd.Wait returned.
WaitReturns(r) ==
  /\ wpc[r] = "wait" /\ proc[r] # "alive"
  /\ wpc' = [wpc EXCEPT ![r] = "decide"]
  /\ UNCHANGED <<table, process, active, hpc, final, cancels, main>>

\* Fault: a subprocess killed by anyone counts as cancelled.
DecideByKill(r) ==
  /\ wpc[r] = "decide" /\ wpc' = [wpc EXCEPT ![r] = "update"]
  /\ final' = [final EXCEPT ![r] = IF killed[r] THEN "cancelled"
                                   ELSE IF proc[r] = "ok" THEN "succeeded"
                                   ELSE "failed"]
  /\ UNCHANGED <<table, process, active, hpc, cancels, main>>

\* Store.Get, and what the watcher makes of it and of the exit status.
Decide(r) ==
  /\ wpc[r] = "decide" /\ wpc' = [wpc EXCEPT ![r] = "update"]
  /\ final' = [final EXCEPT ![r] =
                 IF status[r] \in {"cancelling", "cancelled"} THEN "cancelled"
                 ELSE IF proc[r] = "ok" THEN "succeeded"
                 ELSE "failed"]
  /\ UNCHANGED <<table, process, active, hpc, cancels, main>>

\* Fault: a run that failed only gets its progress updated.
RecordSkipsFailure(r) ==
  /\ wpc[r] = "update" /\ wpc' = [wpc EXCEPT ![r] = "leave"]
  /\ IF final[r] = "failed" THEN UNCHANGED table ELSE UpdateStatus(r, final[r])
  /\ UNCHANGED <<process, active, hpc, final, cancels, main>>

\* UpdateStatus(final), whatever happened since the Get.
Record(r) ==
  /\ wpc[r] = "update" /\ wpc' = [wpc EXCEPT ![r] = "leave"]
  /\ UpdateStatus(r, final[r])
  /\ UNCHANGED <<process, active, hpc, final, cancels, main>>

\* watch's deferred function: done is closed, the run is no longer active.
Leave(r) ==
  /\ wpc[r] = "leave" /\ wpc' = [wpc EXCEPT ![r] = "done"]
  /\ active' = active \ {r}
  /\ UNCHANGED <<table, process, hpc, final, cancels, main>>

Watch(r) == WaitReturns(r) \/ Decide(r) \/ Record(r) \/ Leave(r)

-----------------------------------------------------------------------------
(* POST /runs/{id}/cancel.                                                 *)

\* Store.Get: 409 for a run that is over.
CancelGet(c) ==
  /\ server = "serving" /\ cpc[c] = "idle"
  /\ \E r \in Runs :
       /\ status[r] # "none"
       /\ target' = [target EXCEPT ![c] = r]
       /\ cpc' = [cpc EXCEPT ![c] = IF status[r] \in Terminal THEN "conflict"
                                    ELSE "update"]
  /\ UNCHANGED <<table, process, active, hpc, watchers, main>>

\* UpdateStatus(cancelling), whatever happened since the Get.
CancelUpdate(c) ==
  /\ cpc[c] = "update" /\ cpc' = [cpc EXCEPT ![c] = "kill"]
  /\ UpdateStatus(target[c], "cancelling")
  /\ UNCHANGED <<process, active, hpc, watchers, target, main>>

\* Runner.Cancel; ErrNotFound is ignored.  The handler answers 200.
CancelKill(c) ==
  /\ cpc[c] = "kill" /\ cpc' = [cpc EXCEPT ![c] = "done"]
  /\ killed' = [killed EXCEPT ![target[c]] = @ \/ target[c] \in active]
  /\ UNCHANGED <<table, proc, active, hpc, watchers, target, main>>

-----------------------------------------------------------------------------
(* main: shutdown on a signal, crash, and start.                           *)

\* A POST /runs between its insert and its answer.
Handling == {"created", "start_failed", "spawned", "registered", "watch"}
Busy == \/ \E r \in Runs : hpc[r] \in Handling
        \/ \E c \in Cancels : cpc[c] \in {"update", "kill"}

\* SIGTERM: http.Server.Shutdown accepts no further request ...
Signal ==
  /\ server = "serving" /\ server' = "closing"
  /\ UNCHANGED <<table, process, active, hpc, watchers, cancels, timedOut,
                 handles, restarts>>

\* ... and waits for the handlers, up to DefaultShutdownTimeout.
HTTPClosed ==
  /\ server = "closing" /\ server' = "closed"
  /\ timedOut' = Busy
  /\ UNCHANGED <<table, process, active, hpc, watchers, cancels, handles, restarts>>

\* Runner.Shutdown: the active runs are collected and killed ...
ShutdownCancel ==
  /\ server = "closed" /\ server' = "draining"
  /\ handles' = active
  /\ killed' = [r \in Runs |-> killed[r] \/ r \in active]
  /\ UNCHANGED <<table, proc, active, hpc, watchers, cancels, timedOut, restarts>>

\* The process ends: its goroutines are gone, the table and the subprocesses
\* stay.  A kill that was not delivered is not any more.
ServerEnds ==
  /\ server' = "down"
  /\ active' = {} /\ handles' = {}
  /\ hpc' = [r \in Runs |-> IF hpc[r] = "idle" THEN "idle" ELSE "done"]
  /\ wpc' = [r \in Runs |-> "none"] /\ final' = [r \in Runs |-> None]
  /\ cpc' = [c \in Cancels |-> IF cpc[c] = "idle" THEN "idle" ELSE "done"]
  /\ killed' = [r \in Runs |-> FALSE]
  /\ UNCHANGED <<table, proc, target, restarts>>

\* Fault: main returns once the contexts are cancelled.
ShutdownReturnsUnwaited ==
  server = "draining" /\ UNCHANGED timedOut /\ ServerEnds

\* ... and waited for, until done or until the deadline; then main returns.
ShutdownReturns ==
  /\ server = "draining"
  /\ timedOut' = (timedOut \/ handles \cap active # {})
  /\ ServerEnds

Crash ==
  /\ server # "down" /\ restarts < MaxRestarts
  /\ timedOut' = TRUE
  /\ ServerEnds

\* Fault: only rows that were running are reaped.
StartServerReapsRunning ==
  /\ server = "down" /\ restarts < MaxRestarts
  /\ server' = "serving" /\ timedOut' = FALSE /\ restarts' = restarts + 1
  /\ status' = [r \in Runs |-> IF status[r] \in {"running", "cancelling"}
                               THEN "failed" ELSE status[r]]
  /\ finished' = [r \in Runs |-> finished[r] \/ status[r] \in Active]
  /\ UNCHANGED <<process, active, hpc, watchers, cancels, handles>>

\* NewSQLiteStore reaps the rows a predecessor left active, then main serves.
StartServer ==
  /\ server = "down" /\ restarts < MaxRestarts
  /\ server' = "serving" /\ timedOut' = FALSE /\ restarts' = restarts + 1
  /\ status' = [r \in Runs |-> IF status[r] \in Active THEN "failed" ELSE status[r]]
  /\ finished' = [r \in Runs |-> finished[r] \/ status[r] \in Active]
  /\ UNCHANGED <<process, active, hpc, watchers, cancels, handles>>

-----------------------------------------------------------------------------

Next ==
  \/ \E r \in Runs : Create(r) \/ Post(r) \/ Exits(r) \/ Dies(r) \/ Watch(r)
  \/ \E c \in Cancels : CancelGet(c) \/ CancelUpdate(c) \/ CancelKill(c)
  \/ Signal \/ HTTPClosed \/ ShutdownCancel \/ ShutdownReturns
  \/ Crash \/ StartServer

Spec == Init /\ [][Next]_vars

\* Go runs every runnable goroutine and the kernel delivers SIGKILL.  Nobody is
\* obliged to send a request or a signal, nor the CLI to exit by itself.
Fairness ==
  /\ \A r \in Runs : WF_vars(Post(r)) /\ WF_vars(Dies(r)) /\ WF_vars(Watch(r))
  /\ \A c \in Cancels : WF_vars(CancelUpdate(c)) /\ WF_vars(CancelKill(c))

FairSpec == Spec /\ Fairness

-----------------------------------------------------------------------------
(* Properties.                                                             *)

Alive == {r \in Runs : proc[r] = "alive"}
\* The goroutines that will give run r its final status.
Attended(r) == \/ hpc[r] \in Handling
               \/ wpc[r] \in {"wait", "decide", "update"}

\* Types of every variable.
TypeOK ==
  /\ status \in [Runs -> {"none"} \cup Active \cup Terminal]
  /\ finished \in [Runs -> BOOLEAN]
  /\ proc \in [Runs -> {"none", "alive", "ok", "error"}]
  /\ killed \in [Runs -> BOOLEAN]
  /\ active \subseteq Runs /\ handles \subseteq Runs
  /\ hpc \in [Runs -> {"idle", "conflict", "created", "start_failed", "spawned",
                       "registered", "watch", "done"}]
  /\ wpc \in [Runs -> {"none", "wait", "decide", "update", "leave", "done"}]
  /\ final \in [Runs -> Terminal \cup {None}]
  /\ cpc \in [Cancels -> {"idle", "conflict", "update", "kill", "done"}]
  /\ target \in [Cancels -> Runs \cup {None}]
  /\ server \in {"serving", "closing", "closed", "draining", "down"}
  /\ timedOut \in BOOLEAN /\ restarts \in 0 .. MaxRestarts

\* As long as the server was never started again, a live subprocess keeps its
\* row active, whatever cancels and failures race with it, so that POST /runs
\* is refused and at most one subprocess loads the network.
SingleTenant ==
  restarts = 0 =>
    /\ \A r \in Alive : status[r] \in Active
    /\ Cardinality(Alive) <= 1

\* A final status is never made up: succeeded needs an exit status of 0 and
\* cancelled a POST /cancel, both need a subprocess that is gone.
FinalStatusJustified ==
  \A r \in Runs :
    /\ status[r] = "succeeded" => proc[r] = "ok"
    /\ status[r] = "cancelled" =>
         proc[r] \in {"ok", "error"} /\ \E c \in Cancels : target[c] = r

\* Unless it was the target of a cancel, a row is only active as long as a
\* goroutine of this server will finish it, even after failed starts, crashes
\* and restarts: no ghost blocks the next POST /runs.
NoGhostRow ==
  server = "serving" =>
    \A r \in Runs :
      status[r] \in Active /\ (\A c \in Cancels : target[c] # r) => Attended(r)

\* When the server goes down with neither of its timeouts fired, it leaves no
\* subprocess behind.
CleanShutdown ==
  (server = "down" /\ ~timedOut /\ restarts = 0) => Alive = {}

\* A kill, by a cancel or by Shutdown, that reached the runner in time ends the
\* run: while the server stays up, the run gets a final status.
CancelTakesEffect ==
  \A r \in Runs :
    (killed[r] /\ proc[r] = "alive") ~> (status[r] \in Terminal \/ server = "down")

\* .orchestration/contracts/rest-api.md, "Status enum": no transition leaves
\* succeeded, failed or cancelled.
TerminalStatusFinal ==
  [][\A r \in Runs : status[r] \in Terminal => status'[r] = status[r]]_vars

=============================================================================
