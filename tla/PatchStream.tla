---------------------------- MODULE PatchStream ----------------------------
(***************************************************************************)
(* The output of one dispatched patch run on its way to a browser: the     *)
(* agent's stream sink, which two copy goroutines and the run's own        *)
(* goroutine flush, the requests it posts, the server's handler of a       *)
(* request, the in-process hub, the WebSocket handler of a viewer and the  *)
(* page that falls back to polling.                                        *)
(*                                                                         *)
(* A request is posted by a process, which waits for its answer.  A        *)
(* request whose connection breaks stays behind as the Ghost's: its        *)
(* handler may go on although nobody waits for it.                         *)
(***************************************************************************)
EXTENDS Naturals, Sequences, FiniteSets, SequencesExt

CONSTANTS
  Viewers,   \* browser pages open on the run
  Writers,   \* the copy goroutines of a command's stdout and stderr
  Main,      \* the goroutine of the run
  Ghost,     \* stands for a client that has given a request up
  NoPost,    \* no request
  MaxWrites, \* bound: pieces of output a command writes
  BufSize,   \* capacity of a subscriber's channel (256 in the code)
  MaxBreaks  \* bound: connections that break during a request, errors of the database, crashes

ASSUME StreamAssumption ==
  /\ Main \notin Writers /\ Ghost \notin Writers \cup {Main}
  /\ MaxWrites \in Nat /\ BufSize \in Nat \ {0} /\ MaxBreaks \in Nat

VARIABLES
  full, pending, \* streamSink.full and streamSink.pending
  pc,            \* where each goroutine of the agent is
  post,          \* the request each process waits for, and how far its handler is
  status, output,\* patch_runs.status and shell_output
  subs,          \* Hub.subs of the run
  chan, closed,  \* subscriber.ch: what it buffers, and whether it is closed
  serving,       \* where ServeRunStream is for each viewer
  gone,          \* viewers whose socket is closed on the client's side
  shown,         \* the status the page shows
  notified,      \* the end of the run was notified
  panicked,      \* handlers that died in Publish, by event
  cut,           \* history: the report that ended the run lost its connection or its handler
  breaks         \* counter of the bound

agentVars  == <<full, pending, pc>>
rowVars    == <<status, output>>
hubVars    == <<subs, chan, closed>>
viewerVars == <<serving, gone, shown>>
auxVars    == <<notified, panicked, cut, breaks>>
vars == <<agentVars, post, rowVars, hubVars, viewerVars, auxVars>>

Procs    == Writers \cup {Main}
Clients  == Procs \cup {Ghost}
Statuses == {"running", "completed", "cancelled", "timed_out", "agent_disconnected"}
Terminal == Statuses \ {"running"}
Stages   == {"started", "progress", "completed", "cancelled"}
Events   == {"chunk", "done"}
Pieces   == 1 .. MaxWrites + 1
Requests == [stage : Stages, data : Seq(Pieces), at : {"arrived", "committed", "sending"},
             todo : SUBSET Viewers, ended : BOOLEAN]

ASSUME NoPostAssumption == NoPost \notin Requests

Request(stage, data) ==
  [stage |-> stage, data |-> data, at |-> "arrived", todo |-> {}, ended |-> FALSE]

StreamTyped ==
  /\ full \in Seq(Pieces) /\ pending \in Seq(Pieces)
  /\ pc \in [Procs -> {"start", "steps", "copy", "flush", "drain", "trailer", "tail", "final", "ended"}]
  /\ post \in [Clients -> Requests \cup {NoPost}]
  /\ status \in Statuses /\ output \in Seq(Pieces)
  /\ subs \subseteq Viewers /\ chan \in [Viewers -> Seq(Events)]
  /\ closed \in [Viewers -> BOOLEAN]
  /\ serving \in [Viewers -> {"none", "read", "subscribed", "over", "live", "leaving", "unlisted", "left"}]
  /\ gone \in [Viewers -> BOOLEAN] /\ shown \in [Viewers -> Statuses]
  /\ notified \in 0 .. 2 /\ panicked \subseteq Events /\ cut \in BOOLEAN
  /\ breaks \in 0 .. MaxBreaks

StreamInit ==
  /\ full = <<>> /\ pending = <<>>
  /\ pc = [p \in Procs |-> IF p = Main THEN "start" ELSE "copy"]
  /\ post = [c \in Clients |-> NoPost]
  /\ status = "running" /\ output = <<>>
  /\ subs = {} /\ chan = [v \in Viewers |-> <<>>] /\ closed = [v \in Viewers |-> FALSE]
  /\ serving = [v \in Viewers |-> "none"] /\ gone = [v \in Viewers |-> FALSE]
  /\ shown = [v \in Viewers |-> "running"]
  /\ notified = 0 /\ panicked = {} /\ cut = FALSE /\ breaks = 0

-----------------------------------------------------------------------------
(* The agent.  A process that waits for an answer does nothing else.       *)
Waiting(p) == post[p] # NoPost

Send(p, stage, data) == post' = [post EXCEPT ![p] = Request(stage, data)]

PostStarted ==
  /\ pc[Main] = "start"
  /\ pc' = [pc EXCEPT ![Main] = "steps"]
  /\ Send(Main, "started", <<>>)
  /\ UNCHANGED <<full, pending, rowVars, hubVars, viewerVars, auxVars>>

(* streamSink.Write: the piece is recorded under the lock, and a flush may *)
(* be due.                                                                 *)
Record == /\ full' = Append(full, Len(full) + 1)
          /\ pending' = Append(pending, Len(full) + 1)
          /\ UNCHANGED <<post, rowVars, hubVars, viewerVars, auxVars>>

Write(w) ==
  /\ pc[Main] = "steps" /\ ~Waiting(Main) /\ pc[w] = "copy" /\ ~Waiting(w)
  /\ Len(full) < MaxWrites
  /\ \E next \in {"copy", "flush"} : pc' = [pc EXCEPT ![w] = next]
  /\ Record

(* streamSink.Flush: what is pending is taken under the lock and posted    *)
(* after it.                                                               *)
\* Mutant: a flush that leaves what it posts in the buffer.
KeptPending == pending

LeftPending == <<>>

AfterFlush == [flush |-> "copy", drain |-> "trailer", tail |-> "final"]

Flush(p) ==
  /\ pc[p] \in DOMAIN AfterFlush /\ ~Waiting(p)
  /\ pc' = [pc EXCEPT ![p] = AfterFlush[pc[p]]]
  /\ pending' = LeftPending
  /\ IF pending = <<>> THEN UNCHANGED post ELSE Send(p, "progress", pending)
  /\ UNCHANGED <<full, rowVars, hubVars, viewerVars, auxVars>>

CopyEnds(w) ==
  /\ pc[Main] = "steps" /\ ~Waiting(Main) /\ pc[w] = "copy" /\ ~Waiting(w)
  /\ pc' = [pc EXCEPT ![w] = "ended"]
  /\ UNCHANGED <<full, pending, post, rowVars, hubVars, viewerVars, auxVars>>

\* Mutant: the step ends with its process, and the copies go on.
ProcessExited == TRUE

(* cmd.Wait joins the copy goroutines.                                     *)
CopiesJoined == \A w \in Writers : pc[w] = "ended"

StepsEnd ==
  /\ pc[Main] = "steps" /\ CopiesJoined
  /\ pc' = [pc EXCEPT ![Main] = "drain"]
  /\ UNCHANGED <<full, pending, post, rowVars, hubVars, viewerVars, auxVars>>

WriteTrailer ==
  /\ pc[Main] = "trailer" /\ ~Waiting(Main)
  /\ pc' = [pc EXCEPT ![Main] = "tail"]
  /\ Record

(* A run that was stopped reports it if the signal arrived in time.        *)
PostFinal ==
  /\ pc[Main] = "final" /\ ~Waiting(Main)
  /\ pc' = [pc EXCEPT ![Main] = "ended"]
  /\ \E stage \in {"completed"} \cup (IF status = "cancelled" THEN {"cancelled"} ELSE {}) :
       Send(Main, stage, full)
  /\ UNCHANGED <<full, pending, rowVars, hubVars, viewerVars, auxVars>>

-----------------------------------------------------------------------------
(* Faults.  A client whose connection breaks posts its request again or    *)
(* gives up; one that gets an answer, be it an error, goes on.             *)
Faulty == breaks < MaxBreaks /\ breaks' = breaks + 1

\* A run is ended by one report; if this is it, its notification is at risk.
EndAtRisk(C) == cut' = (cut \/ \E c \in C : post[c] # NoPost /\ post[c].ended)

Again(p) == {NoPost, Request(post[p].stage, post[p].data)}

Break(p) ==
  /\ Faulty /\ Waiting(p) /\ post[Ghost] = NoPost
  /\ \E again \in Again(p) : post' = [post EXCEPT ![Ghost] = post[p], ![p] = again]
  /\ EndAtRisk({p})
  /\ UNCHANGED <<agentVars, rowVars, hubVars, viewerVars, notified, panicked>>

(* UpdateOutput fails, before it changed the row or, for a Windows host    *)
(* whose packages_affected cannot be stored, after it committed the end:   *)
(* nothing is published.                                                   *)
UpdateFails(c) ==
  /\ post[c] # NoPost
  /\ post[c].at = "arrived" \/ (post[c].at = "committed" /\ post[c].ended)
  /\ post' = [post EXCEPT ![c] = NoPost]
  /\ EndAtRisk({c})
  /\ UNCHANGED <<agentVars, rowVars, hubVars, viewerVars, notified, panicked>>

Refuse(p) == Faulty /\ UpdateFails(p)

(* The handler's context is cancelled with its connection, which stops a   *)
(* statement that has not been sent.                                       *)
GhostStops == UpdateFails(Ghost) /\ UNCHANGED breaks

(* The server restarts: its handlers, its hub and its sockets are gone.    *)
ServerCrash ==
  /\ Faulty /\ EndAtRisk(Clients)
  /\ \E again \in SUBSET Procs : post' = [c \in Clients |->
       IF c \in again /\ post[c] # NoPost THEN Request(post[c].stage, post[c].data) ELSE NoPost]
  /\ subs' = {} /\ chan' = [v \in Viewers |-> <<>>]
  /\ serving' = [v \in Viewers |-> IF serving[v] = "none" THEN "none" ELSE "left"]
  /\ gone' = [v \in Viewers |-> gone[v] \/ serving[v] # "none"]
  /\ UNCHANGED <<agentVars, rowVars, closed, shown, notified, panicked>>

-----------------------------------------------------------------------------
(* ServePatchOutput: UpdateOutput, then Publish, then the notification.    *)
Ended == {"completed", "cancelled"}

UpdateRow(q) ==
  CASE q.stage = "started"  -> \/ /\ status \in {"running", "agent_disconnected"}
                                  /\ status' = "running" /\ output' = <<>>
                               \/ /\ status # "running" \* the guard, or another active run
                                  /\ UNCHANGED rowVars
    [] q.stage = "progress" -> output' = output \o q.data /\ UNCHANGED status
    [] q.stage = "completed" -> IF status \in Ended THEN UNCHANGED rowVars
                                ELSE status' = "completed" /\ output' = q.data
    [] q.stage = "cancelled" -> IF status = "completed" THEN UNCHANGED rowVars
                                ELSE status' = "cancelled" /\ output' = q.data

\* Mutant: every final report is an end, a replayed one too.
EndsByStage(q) == q.stage \in Ended

\* Mutant: only the end of a running run is one, not that of a run timed out by mistake.
EndsRunning(q) == q.stage \in Ended /\ status = "running"

EndsRun(q) == \/ q.stage = "completed" /\ status \notin Ended
              \/ q.stage = "cancelled" /\ status # "completed"

Commit(c) ==
  /\ post[c] # NoPost /\ post[c].at = "arrived"
  /\ UpdateRow(post[c])
  /\ post' = [post EXCEPT ![c] = IF @.stage = "started" THEN NoPost
                                 ELSE [@ EXCEPT !.at = "committed", !.ended = EndsRun(post[c])]]
  /\ cut' = (cut \/ (c = Ghost /\ EndsRun(post[c])))
  /\ UNCHANGED <<agentVars, hubVars, viewerVars, notified, panicked, breaks>>

\* Mutant: an event that ends every stream.
DoneEvent(q) == "done"

EventOf(q) == IF q.stage = "progress" THEN "chunk" ELSE "done"

Snapshot(c) ==
  /\ post[c] # NoPost /\ post[c].at = "committed"
  /\ post' = [post EXCEPT ![c].at = "sending", ![c].todo = subs]
  /\ UNCHANGED <<agentVars, rowVars, hubVars, viewerVars, auxVars>>

(* A send to a closed channel panics: middleware.Recovery answers 500 and  *)
(* nothing after the Publish happens.                                      *)
SendEvent(c) ==
  /\ post[c] # NoPost /\ post[c].at = "sending"
  /\ \E v \in post[c].todo :
       IF closed[v]
       THEN /\ panicked' = panicked \cup {EventOf(post[c])}
            /\ post' = [post EXCEPT ![c] = NoPost]
            /\ UNCHANGED chan
       ELSE /\ chan' = IF Len(chan[v]) < BufSize
                       THEN [chan EXCEPT ![v] = Append(@, EventOf(post[c]))] ELSE chan
            /\ post' = [post EXCEPT ![c].todo = @ \ {v}]
            /\ UNCHANGED panicked
  /\ UNCHANGED <<agentVars, rowVars, subs, closed, viewerVars, notified, cut, breaks>>

(* A notification fails with the context of a connection that broke.       *)
Answer(c) ==
  /\ post[c] # NoPost /\ post[c].at = "sending" /\ post[c].todo = {}
  /\ \/ /\ post[c].ended /\ post[c].stage = "completed"
        /\ notified' = IF notified < 2 THEN notified + 1 ELSE 2
     \/ /\ ~(post[c].ended /\ post[c].stage = "completed") \/ c = Ghost
        /\ UNCHANGED notified
  /\ post' = [post EXCEPT ![c] = NoPost]
  /\ UNCHANGED <<agentVars, rowVars, hubVars, viewerVars, panicked, cut, breaks>>

(* StopRun, the stalled-run sweep and the disconnect callback end the row  *)
(* without an event.  A run that is agent_disconnected may still be        *)
(* stopped, and a started report that comes late revives it.               *)
ServerEnds ==
  /\ \/ status = "running" /\ status' \in {"cancelled", "timed_out", "agent_disconnected"}
     \/ status = "agent_disconnected" /\ status' = "cancelled"
  /\ UNCHANGED <<agentVars, post, output, hubVars, viewerVars, auxVars>>

-----------------------------------------------------------------------------
(* ServeRunStream.  The row is read before the subscription.               *)
At(v, from, to) == serving[v] = from /\ serving' = [serving EXCEPT ![v] = to]

ReadRun(v) ==
  /\ serving[v] = "none" /\ shown[v] = "running" /\ ~gone[v]
  /\ serving' = [serving EXCEPT ![v] = IF status \in Terminal THEN "over" ELSE "read"]
  /\ UNCHANGED <<agentVars, post, rowVars, hubVars, gone, shown, auxVars>>

(* Subscribe, with the snapshot or, for a run that was over, the synthetic *)
(* done event after which the handler returns.                             *)
Subscribe(v) ==
  /\ serving[v] \in {"read", "over"}
  /\ serving' = [serving EXCEPT ![v] = IF @ = "read" THEN "live" ELSE "leaving"]
  /\ subs' = subs \cup {v}
  /\ gone' = [gone EXCEPT ![v] = @ \/ serving[v] = "over"]
  /\ UNCHANGED <<agentVars, post, rowVars, chan, closed, shown, auxVars>>

Forward(v) ==
  /\ serving[v] = "live" /\ chan[v] # <<>>
  /\ chan' = [chan EXCEPT ![v] = Tail(@)]
  /\ serving' = [serving EXCEPT ![v] = IF Head(chan[v]) = "done" THEN "leaving" ELSE "live"]
  /\ gone' = [gone EXCEPT ![v] = @ \/ Head(chan[v]) = "done"]
  /\ UNCHANGED <<agentVars, post, rowVars, subs, closed, shown, auxVars>>

NoticeGone(v) ==
  /\ gone[v] /\ At(v, "live", "leaving")
  /\ UNCHANGED <<agentVars, post, rowVars, hubVars, gone, shown, auxVars>>

(* unsubscribe: off the list under the lock, closed after it.              *)
Unlist(v) ==
  /\ At(v, "leaving", "unlisted")
  /\ subs' = subs \ {v}
  /\ UNCHANGED <<agentVars, post, rowVars, chan, closed, gone, shown, auxVars>>

CloseChannel(v) ==
  /\ At(v, "unlisted", "left")
  /\ closed' = [closed EXCEPT ![v] = TRUE]
  /\ UNCHANGED <<agentVars, post, rowVars, subs, chan, gone, shown, auxVars>>

\* Mutant: a page that leaves its socket to the done event.
StaysOn(s) == FALSE

LeavesOn(s) == s \in Terminal

(* The page fetches the run every few seconds while it shows it running,   *)
(* and at once on a done event; it closes its socket when the run is over. *)
Fetch(v) ==
  /\ shown[v] = "running"
  /\ shown' = [shown EXCEPT ![v] = status]
  /\ gone' = [gone EXCEPT ![v] = @ \/ LeavesOn(status)]
  /\ UNCHANGED <<agentVars, post, rowVars, hubVars, serving, auxVars>>

(* The viewer's connection is lost.  The page does not open another one.   *)
LoseViewer(v) ==
  /\ ~gone[v] /\ serving[v] # "none"
  /\ gone' = [gone EXCEPT ![v] = TRUE]
  /\ UNCHANGED <<agentVars, post, rowVars, hubVars, serving, shown, auxVars>>

-----------------------------------------------------------------------------
Agent == \/ PostStarted \/ StepsEnd \/ WriteTrailer \/ PostFinal
         \/ \E w \in Writers : Write(w) \/ CopyEnds(w)
         \/ \E p \in Procs : Flush(p)

Faults == GhostStops \/ ServerCrash \/ \E p \in Procs : Break(p) \/ Refuse(p)

Server == \/ ServerEnds
          \/ \E c \in Clients : Commit(c) \/ Snapshot(c) \/ SendEvent(c) \/ Answer(c)

Viewer == \E v \in Viewers :
  \/ ReadRun(v) \/ Subscribe(v) \/ Forward(v) \/ NoticeGone(v) \/ Unlist(v)
  \/ CloseChannel(v) \/ Fetch(v) \/ LoseViewer(v)

StreamNext == Agent \/ Faults \/ Server \/ Viewer

StreamSpec == StreamInit /\ [][StreamNext]_vars

(* The goroutine that serves a viewer runs, and the page keeps polling.    *)
StreamFairness == \A v \in Viewers :
  WF_vars(Fetch(v)) /\ WF_vars(Subscribe(v) \/ NoticeGone(v) \/ Unlist(v) \/ CloseChannel(v))

FairStreamSpec == StreamSpec /\ StreamFairness

-----------------------------------------------------------------------------
(* An event says that a run is done only once its row does: the page       *)
(* refetches the run on the event and would find it running.               *)
DoneMeansOver ==
  \A v \in Viewers : "done" \in ToSet(chan[v]) => status \in Terminal

(* While the command runs, every piece it wrote is in one place: not yet   *)
(* flushed, in one request, or in the row.  Two goroutines flush one       *)
(* buffer, and a started report clears the row.                            *)
InFlight == {c \in Clients : /\ post[c] # NoPost
                             /\ post[c].stage = "progress" /\ post[c].at = "arrived"}

EachPieceOnce ==
  breaks = 0 /\ pc[Main] # "ended" =>
    /\ IsInjective(output \o pending)
    /\ \A i \in DOMAIN full :
         Cardinality({c \in InFlight : i \in ToSet(post[c].data)})
           + (IF i \in ToSet(output \o pending) THEN 1 ELSE 0) = 1

(* A completed run keeps the whole output, in the order it was written: no *)
(* late chunk is appended to the final report.                             *)
FinalOutputWhole == status = "completed" /\ breaks = 0 => output = full

(* What a page has shown of the output is not taken back: while connections *)
(* hold, the row's output only grows, until the whole of it replaces what  *)
(* the chunks made of it; after that it stays.                             *)
OutputOnlyGrows ==
  [][breaks' = 0 => \/ output' = full
                    \/ output' = output
                    \/ pc[Main] # "ended" /\ IsPrefix(output, output')]_vars

(* However often the final report is posted again, and whatever the server *)
(* made of the run meanwhile, its completion is notified once, and it is   *)
(* when the handlers have answered.  The exceptions are the code's: the    *)
(* report that ended the run lost its connection, its handler or the       *)
(* server on the way (its replay is no end any more), or a Publish         *)
(* panicked.                                                               *)
EndNoticed ==
  /\ notified <= 1
  /\ ( /\ status = "completed" /\ ~cut /\ "done" \notin panicked
       /\ \A c \in Clients : post[c] # NoPost => ~post[c].ended ) => notified = 1

(* Without the exceptions, as docs/patchmon-admin-guide.md:1778 says: the  *)
(* server "marks the run `completed`, emits a `patch_run_completed`        *)
(* notification".                                                          *)
EndAlwaysNoticed ==
  ( /\ status = "completed"
    /\ \A c \in Clients : post[c] # NoPost => ~post[c].ended ) => notified = 1

(* What hub.go says of Publish: "sends the event to every current          *)
(* subscriber", a full buffer excepted.  A handler that panics does not.   *)
PublishReturns == panicked = {}

(* A page comes to show the end of the run, and the handler that serves it *)
(* returns, whatever became of the done event, unless the run is revived.  *)
EndReachesPages == \A v \in Viewers :
  status \in Terminal ~> \/ shown[v] \in Terminal /\ serving[v] \in {"none", "left"}
                         \/ status = "running"
=============================================================================
