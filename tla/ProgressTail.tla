---------------------------- MODULE ProgressTail ----------------------------
(***************************************************************************)
(* How a run's progress reaches the browser.  The CLI appends lines to     *)
(* progress.jsonl and ends with summary.json; for every                    *)
(* GET /runs/{id}/events the API starts a tailer (TailLines) and a handler *)
(* (EventsHandler.Stream) that forwards its lines and polls the run's      *)
(* status; the browser's hook (useRunEvents) consumes the stream and       *)
(* reconnects once.  GET /runs/{id}/results reads the same summary.        *)
(*                                                                         *)
(* The file is its length in pieces: writeOne writes line k's JSON (piece  *)
(* 2k-1) and its newline (piece 2k) in two writes.  log and ping events    *)
(* are left out.  TailLines' reopening of a file that shrank, and lines    *)
(* longer than its read buffer, are too: the CLI opens the file once, in a *)
(* directory made for the run, and its lines are short.                    *)
(***************************************************************************)
EXTENDS Integers, Sequences, FiniteSets, SequencesExt

CONSTANTS
  MaxConns,  \* GET requests the browser may make: two
  MaxLines,  \* bound: progress lines
  ChanCap    \* capacity of the channel TailLines returns

ASSUME TailAssumption ==
  /\ MaxConns \in Nat /\ MaxLines \in Nat /\ ChanCap \in Nat \ {0}

Conns == 1 .. MaxConns  \* in the order the browser makes them

VARIABLES
  cli, exists, size, summaryFile,   \* the CLI and the files of the run directory
  watching, stored, status, crashed,\* the API: its watcher, and the run's row
                                    \* (status is active or final)
  conn,                             \* each connection: none, up or lost
  hpc,                              \* each Stream handler
  tpc, pos, lineBuf, out,           \* each TailLines goroutine and its channel
  sent,                             \* the events written to each connection
  es, timer, reconnected, done      \* useRunEvents

fileVars   == <<cli, exists, size, summaryFile>>
rowVars    == <<watching, stored, status, crashed>>
tailVars   == <<tpc, pos, lineBuf>>
clientVars == <<es, timer, reconnected, done>>
vars == <<fileVars, rowVars, conn, hpc, tailVars, out, sent,
          clientVars>>

Init ==
  /\ cli = "writing" /\ exists = FALSE /\ size = 0 /\ summaryFile = "absent"
  /\ watching = "wait" /\ stored = FALSE /\ status = "active" /\ crashed = FALSE
  /\ conn = [c \in Conns |-> "none"]
  /\ hpc = [c \in Conns |-> "none"]
  /\ tpc = [c \in Conns |-> "none"]
  /\ pos = [c \in Conns |-> 0] /\ lineBuf = [c \in Conns |-> <<>>]
  /\ out = [c \in Conns |-> <<>>]
  /\ sent = [c \in Conns |-> <<>>]
  /\ es = 0 /\ timer = TRUE /\ reconnected = FALSE /\ done = FALSE

IsNewline(p) == p % 2 = 0
Json(k)      == 2 * k - 1

Progress(line)    == [type |-> "progress", body |-> line]
Complete(summary) == [type |-> "complete", body |-> summary]

-----------------------------------------------------------------------------
(* The CLI.                                                                *)

\* newProgressWriter creates the file.
newProgressWriter ==
  /\ cli = "writing" /\ ~exists
  /\ exists' = TRUE
  /\ UNCHANGED <<cli, size, summaryFile, rowVars, conn, hpc, tailVars,
                 out, sent, clientVars>>

\* One of the two writes of writeOne.
writeOne ==
  /\ cli = "writing" /\ exists /\ size < 2 * MaxLines
  /\ size' = size + 1
  /\ UNCHANGED <<cli, exists, summaryFile, rowVars, conn, hpc, tailVars,
                 out, sent, clientVars>>

\* finalize, with the progress writer stopped: os.WriteFile creates
\* summary.json, writes it, and the CLI exits.
WriteSummary ==
  /\ \/ cli = "writing" /\ exists /\ size % 2 = 0
        /\ cli' = "summary" /\ summaryFile' = "partial"
     \/ cli = "summary" /\ cli' = "exited" /\ summaryFile' = "whole"
  /\ UNCHANGED <<exists, size, rowVars, conn, hpc, tailVars, out, sent, clientVars>>

\* The CLI is killed, or fails, at any point.
Die ==
  /\ cli # "exited" /\ cli' = "exited"
  /\ UNCHANGED <<exists, size, summaryFile, rowVars, conn, hpc, tailVars,
                 out, sent, clientVars>>

-----------------------------------------------------------------------------
(* The API server's watcher and cancel handler, its death, GET /results.   *)

\* watch: the subprocess has exited; attach the summary if it parses, then
\* record the final status, in two transactions.
watch ==
  /\ \/ watching = "wait" /\ cli = "exited" /\ watching' = "status"
        /\ stored' = (summaryFile = "whole") /\ UNCHANGED status
     \/ watching = "status" /\ watching' = "over" /\ status' = "final"
        /\ UNCHANGED stored
  /\ UNCHANGED <<fileVars, crashed, conn, hpc, tailVars, out, sent,
                 clientVars>>

\* RunsHandler.Cancel reads the row and, if it is active, updates it later to
\* cancelling, which is active too.  Any number of handlers may be between the
\* two; all they change here is a status recorded meanwhile, by the watcher of
\* the same server.  That Cancel also kills the CLI is a case of Die.
Cancel ==
  /\ status = "final" /\ ~crashed
  /\ status' = "active"
  /\ UNCHANGED <<fileVars, watching, stored, crashed, conn, hpc, tailVars, out,
                 sent, clientVars>>

\* The server dies and is started again: connections, handlers and goroutines
\* are gone, reapOrphans has finished the row, the CLI lives on.
Restart ==
  /\ ~crashed /\ crashed' = TRUE
  /\ watching' = "over" /\ status' = "final"
  /\ conn' = [c \in Conns |-> IF conn[c] = "none" THEN "none" ELSE "lost"]
  /\ hpc' = [c \in Conns |-> IF hpc[c] = "none" THEN "none" ELSE "returned"]
  /\ tpc' = [c \in Conns |-> IF tpc[c] = "none" THEN "none" ELSE "ended"]
  /\ pos' = [c \in Conns |-> 0] /\ lineBuf' = [c \in Conns |-> <<>>]
  /\ out' = [c \in Conns |-> <<>>]
  /\ UNCHANGED <<fileVars, stored, sent, clientVars>>

\* Fault: for a finished run only the row's summary counts.
loadSummaryOfRow ==
  IF stored THEN "whole"
  ELSE IF status = "final" THEN "absent" ELSE summaryFile

\* loadSummary: the row's summary, else the file; a torn file does not parse.
loadSummary == IF stored THEN "whole" ELSE summaryFile

-----------------------------------------------------------------------------
(* TailLines.                                                              *)

\* The request's context is cancelled when the connection is gone; when Stream
\* returns it cancels the context and closes Stop.
Stopped(c) == conn[c] = "lost" \/ hpc[c] = "returned"

\* The goroutine returns: its buffers are gone, its channel is closed, and
\* garbage if the handler has returned too.
TailEnds(c) ==
  /\ tpc' = [tpc EXCEPT ![c] = "ended"]
  /\ out' = IF hpc[c] = "returned" THEN [out EXCEPT ![c] = <<>>] ELSE out
  /\ pos' = [pos EXCEPT ![c] = 0] /\ lineBuf' = [lineBuf EXCEPT ![c] = <<>>]

\* Fault: a file that could not be opened at first is not tried again.
OpenOnce(c) ==
  /\ tpc[c] = "open" \/ (tpc[c] = "wait" /\ pos[c] > 0)
  /\ tpc' = [tpc EXCEPT ![c] = IF exists THEN "drain" ELSE "wait"]
  /\ UNCHANGED <<fileVars, rowVars, conn, hpc, pos, lineBuf, out, sent,
                 clientVars>>

\* The loop's head, at first and after every tick: drain the file if it is
\* open or can be opened by now.
Open(c) ==
  /\ tpc[c] \in {"open", "wait"}
  /\ tpc' = [tpc EXCEPT ![c] = IF exists THEN "drain" ELSE "wait"]
  /\ UNCHANGED <<fileVars, rowVars, conn, hpc, pos, lineBuf, out, sent,
                 clientVars>>

\* Where the bytes after position p end: at the next newline, or at EOF.
ChunkEnd(p) == LET newline == 2 * (p \div 2) + 2 IN
               IF newline <= size THEN newline ELSE size

\* Fault: what was read of an unfinished line is forgotten at end of file.
ReadSliceForgets(c) ==
  LET n == ChunkEnd(pos[c]) IN
  /\ tpc[c] = "drain"
  /\ pos' = [pos EXCEPT ![c] = n]
  /\ IF n > pos[c] /\ IsNewline(n)
     THEN /\ lineBuf' = [lineBuf EXCEPT ![c] = @ \o [i \in 1 .. n - pos[c] |-> pos[c] + i]]
          /\ tpc' = [tpc EXCEPT ![c] = "send"]
     ELSE /\ lineBuf' = [lineBuf EXCEPT ![c] = <<>>]
          /\ tpc' = [tpc EXCEPT ![c] = "wait"]
  /\ UNCHANGED <<fileVars, rowVars, conn, hpc, out, sent, clientVars>>

\* ReadSlice returns what there is up to the next newline, and lineBuf keeps
\* it; a chunk without one comes with EOF: wait for the next tick.
ReadSlice(c) ==
  LET n == ChunkEnd(pos[c]) IN
  /\ tpc[c] = "drain"
  /\ pos' = [pos EXCEPT ![c] = n]
  /\ lineBuf' = [lineBuf EXCEPT ![c] = @ \o [i \in 1 .. n - pos[c] |-> pos[c] + i]]
  /\ tpc' = [tpc EXCEPT ![c] = IF n > pos[c] /\ IsNewline(n) THEN "send" ELSE "wait"]
  /\ UNCHANGED <<fileVars, rowVars, conn, hpc, out, sent, clientVars>>

\* ReadSlice fails: the tailer gives up.
ReadFails(c) ==
  /\ tpc[c] = "drain"
  /\ TailEnds(c)
  /\ UNCHANGED <<fileVars, rowVars, conn, hpc,
                 sent, clientVars>>

\* bytes.TrimRight: up to the last piece that is no newline.
TrimRight(line) ==
  SubSeq(line, 1, Max({0} \cup {i \in DOMAIN line : ~IsNewline(line[i])}))

\* A line is complete: hand it over without its newline (an empty one is
\* skipped), or return if told to while the channel is full or not.
Send(c) ==
  LET line == TrimRight(lineBuf[c]) IN
  /\ tpc[c] = "send"
  /\ IF line = <<>> THEN UNCHANGED out
     ELSE Len(out[c]) < ChanCap /\ out' = [out EXCEPT ![c] = Append(@, line)]
  /\ lineBuf' = [lineBuf EXCEPT ![c] = <<>>]
  /\ tpc' = [tpc EXCEPT ![c] = "drain"]
  /\ UNCHANGED <<fileVars, rowVars, conn, hpc, pos, sent,
                 clientVars>>

\* Fault: a tailer blocked on its channel does not listen.
TailStopsWaiting(c) ==
  /\ tpc[c] = "wait" /\ Stopped(c)
  /\ TailEnds(c)
  /\ UNCHANGED <<fileVars, rowVars, conn, hpc,
                 sent, clientVars>>

\* ctx.Done() or Stop, in either select.
TailStops(c) ==
  /\ tpc[c] \in {"send", "wait"} /\ Stopped(c)
  /\ TailEnds(c)
  /\ UNCHANGED <<fileVars, rowVars, conn, hpc,
                 sent, clientVars>>

TailLines(c) ==
  Open(c) \/ ReadSlice(c) \/ ReadFails(c) \/ Send(c) \/ TailStops(c)

-----------------------------------------------------------------------------
(* EventsHandler.Stream: one action per case of its select that has an     *)
(* effect.  A channel the tailer closed is set to nil, and never chosen.   *)

\* Write an event; a connection that is gone swallows it.
write(c, e) ==
  sent' = IF conn[c] = "up" THEN [sent EXCEPT ![c] = Append(@, e)] ELSE sent

\* The handler returns; the defers cancel ctx and close stopTail.
Return(c) ==
  /\ hpc' = [hpc EXCEPT ![c] = "returned"]
  /\ out' = IF tpc[c] = "ended" THEN [out EXCEPT ![c] = <<>>] ELSE out

CtxDone(c) ==
  /\ hpc[c] = "select" /\ conn[c] = "lost"
  /\ Return(c)
  /\ UNCHANGED <<fileVars, rowVars, conn, tailVars, sent,
                 clientVars>>

Forward(c) ==
  /\ hpc[c] = "select" /\ out[c] # <<>>
  /\ write(c, Progress(Head(out[c])))
  /\ out' = [out EXCEPT ![c] = Tail(@)]
  /\ UNCHANGED <<fileVars, rowVars, conn, hpc, tailVars, clientVars>>

\* Fault: the status is only looked at once the tail has ended.
PollAfterTail(c) ==
  /\ hpc[c] = "select" /\ status = "final" /\ tpc[c] = "ended"
  /\ write(c, Complete(IF loadSummary = "whole" THEN "whole" ELSE "null"))
  /\ Return(c)
  /\ UNCHANGED <<fileVars, rowVars, conn, tailVars, clientVars>>

\* The poll finds a final status: complete, with a summary if one can be read,
\* whatever the channel still holds.
Poll(c) ==
  /\ hpc[c] = "select" /\ status = "final"
  /\ write(c, Complete(IF loadSummary = "whole" THEN "whole" ELSE "null"))
  /\ Return(c)
  /\ UNCHANGED <<fileVars, rowVars, conn, tailVars, clientVars>>

\* The poll cannot read the row.
PollFails(c) ==
  /\ hpc[c] = "select"
  /\ Return(c)
  /\ UNCHANGED <<fileVars, rowVars, conn, tailVars, sent,
                 clientVars>>

Stream(c) == CtxDone(c) \/ Forward(c) \/ Poll(c)

-----------------------------------------------------------------------------
(* useRunEvents.                                                           *)

NextConn == Cardinality({c \in Conns : conn[c] # "none"}) + 1

\* open(): a new EventSource; the server answers with a handler and a tailer.
Connect ==
  /\ NextConn \in Conns
  /\ es' = NextConn
  /\ conn' = [conn EXCEPT ![NextConn] = "up"]
  /\ hpc' = [hpc EXCEPT ![NextConn] = "select"]
  /\ tpc' = [tpc EXCEPT ![NextConn] = "open"]

\* The same when the request fails: no server, or no such run.
Refused ==
  /\ NextConn \in Conns
  /\ es' = NextConn
  /\ conn' = [conn EXCEPT ![NextConn] = "lost"]
  /\ UNCHANGED <<hpc, tpc>>

\* The effect's first call of open, or the timer's.
open ==
  /\ timer /\ timer' = FALSE
  /\ IF done THEN UNCHANGED <<es, conn, hpc, tpc>> ELSE Connect \/ Refused
  /\ UNCHANGED <<fileVars, rowVars, pos, lineBuf, out, sent,
                 reconnected, done>>

\* source.close(): what the connection carried is forgotten.
close(c) ==
  /\ es' = 0
  /\ conn' = [conn EXCEPT ![c] = "lost"]
  /\ sent' = [sent EXCEPT ![c] = <<>>]

Completed(c) == sent[c] # <<>> /\ Last(sent[c]).type = "complete"

\* The complete event arrives and closes the source.  A progress event only
\* goes to the page's callback.
Receive(c) ==
  /\ es = c /\ Completed(c)
  /\ close(c) /\ done' = TRUE
  /\ UNCHANGED <<fileVars, rowVars, hpc, tailVars, out, timer,
                 reconnected>>

\* onerror: the connection broke, or the server ended it without complete.
onerror(c) ==
  /\ es = c
  /\ conn[c] = "lost" \/ (hpc[c] = "returned" /\ ~Completed(c))
  /\ close(c)
  /\ timer' = (~reconnected /\ ~done)
  /\ reconnected' = (reconnected \/ ~done)
  /\ UNCHANGED <<fileVars, rowVars, hpc, tailVars, out, done>>

\* The effect's cleanup: the page is left.
Unmount ==
  /\ ~done /\ done' = TRUE
  /\ IF es = 0 THEN UNCHANGED <<es, conn, sent>> ELSE close(es)
  /\ UNCHANGED <<fileVars, rowVars, hpc, tailVars, out, timer, reconnected>>

\* The network drops a connection.
Lose(c) ==
  /\ conn[c] = "up" /\ conn' = [conn EXCEPT ![c] = "lost"]
  /\ UNCHANGED <<fileVars, rowVars, hpc, tailVars, out, sent,
                 clientVars>>

-----------------------------------------------------------------------------

Next ==
  \/ newProgressWriter \/ writeOne \/ WriteSummary \/ Die
  \/ watch \/ Cancel \/ Restart
  \/ open \/ Unmount
  \/ \E c \in Conns :
       \/ TailLines(c) \/ Stream(c) \/ PollFails(c)
       \/ Receive(c) \/ onerror(c) \/ Lose(c)

Spec == Init /\ [][Next]_vars

\* Goroutines run, tickers tick, the browser delivers its events and timers,
\* an exited subprocess is noticed, and a select whose ctx is done does not
\* choose the ticker for ever.  Nothing obliges the CLI to go on, a
\* connection to break or the user to cancel or leave.
Fairness ==
  /\ WF_vars(watch) /\ WF_vars(open)
  /\ WF_vars(\E c \in Conns : Receive(c) \/ onerror(c))
  /\ \A c \in Conns :
       WF_vars(TailLines(c)) /\ SF_vars(TailStops(c)) /\ WF_vars(Stream(c))

FairSpec == Spec /\ Fairness

-----------------------------------------------------------------------------
(* Properties.                                                             *)

EventType == [type : {"progress"}, body : Seq(Nat)]
               \cup [type : {"complete"}, body : {"whole", "null"}]

\* Types of every variable.
TypeOK ==
  /\ cli \in {"writing", "summary", "exited"} /\ exists \in BOOLEAN
  /\ size \in Nat /\ summaryFile \in {"absent", "partial", "whole"}
  /\ watching \in {"wait", "status", "over"} /\ stored \in BOOLEAN
  /\ status \in {"active", "final"} /\ crashed \in BOOLEAN
  /\ conn \in [Conns -> {"none", "up", "lost"}]
  /\ hpc \in [Conns -> {"none", "select", "returned"}]
  /\ tpc \in [Conns -> {"none", "open", "drain", "send", "wait", "ended"}]
  /\ pos \in [Conns -> Nat] /\ lineBuf \in [Conns -> Seq(Nat)]
  /\ out \in [Conns -> Seq(Seq(Nat))] /\ sent \in [Conns -> Seq(EventType)]
  /\ es \in {0} \cup Conns
  /\ timer \in BOOLEAN /\ reconnected \in BOOLEAN /\ done \in BOOLEAN

\* Every connection carries the file's lines whole, from the first one on and
\* in order, although the tailer polls a file that is written in pieces and
\* may end in a torn line; after complete nothing follows.
StreamFaithful ==
  \A c \in Conns : \A i \in DOMAIN sent[c] :
    IF sent[c][i].type = "complete" THEN i = Len(sent[c])
    ELSE sent[c][i] = Progress(<<Json(i)>>)

\* The complete event carries the summary of every run whose CLI finished it,
\* also when the server crashed before its watcher stored it.
CompleteHasSummary ==
  [][\A c \in Conns :
       Len(sent'[c]) > Len(sent[c]) /\ Last(sent'[c]).type = "complete"
         /\ (summaryFile = "whole" \/ stored)
       => Last(sent'[c]).body = "whole"]_vars

\* A connection that is gone releases its handler and its tailer, also a
\* tailer blocked on a full channel.
StreamReleased ==
  []<>(\A c \in Conns : conn[c] = "lost" =>
         hpc[c] # "select" /\ tpc[c] \in {"none", "ended"})

\* The page learns that the run is over, leaves, or has used up its two
\* attempts.
SeenOrGone == done \/ (reconnected /\ es = 0 /\ ~timer)

\* Once a final status is recorded it is seen, whichever of tail, poll, crash
\* and reconnection comes first, unless a cancel handler that had read the row
\* before overwrites it.
EndIsSeen == (status = "final") ~> (SeenOrGone \/ status = "active")

\* rest-api.md of GET /runs/{id}/events: "Closes when run completes or client
\* disconnects".  Violated: the cancel handler may write cancelling over the
\* final status before the poll reads it, and none is recorded again.
CompletionCloses == (status = "final") ~> SeenOrGone

\* Every open stream catches up with the file, also one opened before the file
\* existed, unless its tailer failed.
StreamCatchesUp ==
  []<>(\A c \in Conns : hpc[c] = "select" =>
         tpc[c] = "ended" \/ Len(sent[c]) >= size \div 2)

=============================================================================
