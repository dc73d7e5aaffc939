----------------------------- MODULE UsageQueue -----------------------------
(***************************************************************************)
(* Usage events from request to table, and the end of the process:         *)
(* middleware.Usage, UsageQueue (src/internal/service/usage.go) with its   *)
(* one worker, Server.Serve and Shutdown (src/internal/server/server.go),  *)
(* and main, which gives the worker and the server the same context.       *)
(*                                                                         *)
(* A request is served, and afterwards enqueues one event: a look at the   *)
(* closed flag under the mutex, then, outside it, a send on the bounded    *)
(* channel that gives up after usageEnqueueTimeout.  The worker takes one  *)
(* event at a time and tries to store it.  SIGTERM cancels the context:    *)
(* the worker closes the channel when it next waits, while the server      *)
(* lets running requests finish, closes the database and exits.            *)
(***************************************************************************)
EXTENDS Naturals, Sequences, FiniteSets

CONSTANTS
  Requests,   \* requests, each served once; a request names its event
  Capacity,   \* DefaultUsageQueueCapacity
  Retries,    \* DefaultUsageRetryAttempts
  NoEvent     \* no event

ASSUME RequestsAssumption == IsFiniteSet(Requests)
ASSUME CapacityAssumption == Capacity \in Nat \ {0}
ASSUME RetriesAssumption == Retries \in Nat \ {0}
ASSUME NoEventAssumption == NoEvent \notin Requests

VARIABLES
  place,      \* where each request is
  outcome,    \* what EnqueueUsage came to
  events,     \* the channel's buffer
  closed,     \* q.closed, and the channel is closed with it
  worker,     \* what Run is doing, the event in its hands, its attempt
  rows,       \* usage_events rows per event
  stats,      \* the recorded, failed and dropped counters
  cancelled,  \* the context SIGTERM cancels
  server      \* Serve: serving, draining, database closed, process gone

queueVars == <<place, outcome, events, closed, worker, rows, stats, cancelled, server>>

Positions == {"idle", "handling", "enqueue", "sending", "done"}
Outcomes == {"none", "accepted", "refused", "dropped", "panicked"}
Worker == [state : {"waiting", "storing", "backoff", "stopped"},
           event : Requests \cup {NoEvent}, attempt : Nat]
Stats == [recorded : Nat, failed : Nat, dropped : Nat]

Waiting == [state |-> "waiting", event |-> NoEvent, attempt |-> 0]

QueueInit ==
  /\ place = [r \in Requests |-> "idle"]
  /\ outcome = [r \in Requests |-> "none"]
  /\ events = <<>>
  /\ closed = FALSE
  /\ worker = Waiting
  /\ rows = [r \in Requests |-> 0]
  /\ stats = [recorded |-> 0, failed |-> 0, dropped |-> 0]
  /\ cancelled = FALSE
  /\ server = "serving"

Running == server # "exited"

-----------------------------------------------------------------------------
(* Requests                                                                *)

Accept(r) ==
  /\ server = "serving"
  /\ place[r] = "idle"
  /\ place' = [place EXCEPT ![r] = "handling"]
  /\ UNCHANGED <<outcome, events, closed, worker, rows, stats, cancelled, server>>

(* next.ServeHTTP returns and the middleware has put the event together,   *)
(* or the handler panics past the middleware and there is no event.        *)
Respond(r) ==
  /\ Running
  /\ place[r] = "handling"
  /\ \E next \in {"enqueue", "done"} : place' = [place EXCEPT ![r] = next]
  /\ UNCHANGED <<outcome, events, closed, worker, rows, stats, cancelled, server>>

Finish(r, result) ==
  /\ place' = [place EXCEPT ![r] = "done"]
  /\ outcome' = [outcome EXCEPT ![r] = result]

(* EnqueueUsage up to q.mu.Unlock(): an event normalizeUsageEvent rejects  *)
(* and any event after close() are refused.                                *)
EnqueueUsage(r) ==
  /\ Running
  /\ place[r] = "enqueue"
  /\ \/ Finish(r, "refused")
     \/ /\ ~closed
        /\ place' = [place EXCEPT ![r] = "sending"]
        /\ UNCHANGED outcome
  /\ UNCHANGED <<events, closed, worker, rows, stats, cancelled, server>>

(* Mutation: the queue grows instead of applying backpressure.             *)
SendUnbounded(r) ==
  /\ Running
  /\ place[r] = "sending"
  /\ ~closed
  /\ events' = Append(events, r)
  /\ Finish(r, "accepted")
  /\ UNCHANGED <<closed, worker, rows, stats, cancelled, server>>

(* case events <- normalized: room in the channel.                         *)
Send(r) ==
  /\ Running
  /\ place[r] = "sending"
  /\ ~closed
  /\ Len(events) < Capacity
  /\ events' = Append(events, r)
  /\ Finish(r, "accepted")
  /\ UNCHANGED <<closed, worker, rows, stats, cancelled, server>>

(* The same case once the channel is closed: Go panics, and                *)
(* middleware.Recover turns the request into a server error.               *)
SendOnClosed(r) ==
  /\ Running
  /\ place[r] = "sending"
  /\ closed
  /\ Finish(r, "panicked")
  /\ UNCHANGED <<events, closed, worker, rows, stats, cancelled, server>>

(* case <-ctx.Done(): usageEnqueueTimeout or the client is gone.           *)
GiveUp(r) ==
  /\ Running
  /\ place[r] = "sending"
  /\ Finish(r, "dropped")
  /\ stats' = [stats EXCEPT !.dropped = @ + 1]
  /\ UNCHANGED <<events, closed, worker, rows, cancelled, server>>

-----------------------------------------------------------------------------
(* The worker: Run and persist                                             *)

Receive ==
  /\ Running
  /\ worker.state = "waiting"
  /\ events # <<>>
  /\ worker' = [state |-> "storing", event |-> Head(events), attempt |-> 0]
  /\ events' = Tail(events)
  /\ UNCHANGED <<place, outcome, closed, rows, stats, cancelled, server>>

(* Run returns, and its deferred close() closes the channel.               *)
Stop ==
  /\ Running
  /\ worker.state = "waiting"
  /\ cancelled
  /\ worker' = [Waiting EXCEPT !.state = "stopped"]
  /\ closed' = TRUE
  /\ UNCHANGED <<place, outcome, events, rows, stats, cancelled, server>>

(* The INSERT reaches the table unless the context is cancelled or the     *)
(* database closed.                                                        *)
Reachable == ~cancelled /\ server \notin {"closed", "exited"}

RecordUsageEvent ==
  /\ Running
  /\ worker.state = "storing"
  /\ Reachable
  /\ rows' = [rows EXCEPT ![worker.event] = @ + 1]
  /\ stats' = [stats EXCEPT !.recorded = @ + 1]
  /\ worker' = Waiting
  /\ UNCHANGED <<place, outcome, events, closed, cancelled, server>>

(* Mutation: an event abandoned at shutdown is not counted.                *)
AfterErrorForgets ==
  IF cancelled \/ worker.attempt + 1 >= Retries
  THEN /\ worker' = Waiting
       /\ stats' = IF cancelled THEN stats ELSE [stats EXCEPT !.failed = @ + 1]
  ELSE /\ worker' = [worker EXCEPT !.state = "backoff"]
       /\ UNCHANGED stats

(* What persist does about an error: give up when the context is cancelled *)
(* or this was the last attempt, else wait and try again.                  *)
AfterError ==
  IF cancelled \/ worker.attempt + 1 >= Retries
  THEN /\ worker' = Waiting
       /\ stats' = [stats EXCEPT !.failed = @ + 1]
  ELSE /\ worker' = [worker EXCEPT !.state = "backoff"]
       /\ UNCHANGED stats

(* Mutation: Run returns the error of persist.                             *)
RecordErrorStops ==
  /\ Running
  /\ worker.state = "storing"
  /\ worker' = [Waiting EXCEPT !.state = "stopped"]
  /\ stats' = [stats EXCEPT !.failed = @ + 1]
  /\ UNCHANGED <<place, outcome, events, closed, rows, cancelled, server>>

(* The statement fails, or it is stored and its answer is lost.            *)
RecordError ==
  /\ Running
  /\ worker.state = "storing"
  /\ \/ UNCHANGED rows
     \/ Reachable /\ rows' = [rows EXCEPT ![worker.event] = @ + 1]
  /\ AfterError
  /\ UNCHANGED <<place, outcome, events, closed, cancelled, server>>

(* The timer, or ctx.Done() whose break only leaves the select.            *)
Backoff ==
  /\ Running
  /\ worker.state = "backoff"
  /\ worker' = [worker EXCEPT !.state = "storing", !.attempt = @ + 1]
  /\ UNCHANGED <<place, outcome, events, closed, rows, stats, cancelled, server>>

-----------------------------------------------------------------------------
(* The server and the end of the process                                   *)

CancelContext ==
  /\ Running
  /\ ~cancelled
  /\ cancelled' = TRUE
  /\ UNCHANGED <<place, outcome, events, closed, worker, rows, stats, server>>

(* httpServer.Shutdown: no new connection is accepted.                     *)
Drain ==
  /\ server = "serving"
  /\ cancelled
  /\ server' = "draining"
  /\ UNCHANGED <<place, outcome, events, closed, worker, rows, stats, cancelled>>

Active == {r \in Requests : place[r] \notin {"idle", "done"}}

(* Mutation: Shutdown waits without a deadline.                            *)
CloseDependenciesWaits ==
  /\ server = "draining"
  /\ Active = {}
  /\ server' = "closed"
  /\ UNCHANGED <<place, outcome, events, closed, worker, rows, stats, cancelled>>

(* Shutdown returns when no request is active, or at its deadline with     *)
(* requests still running, and closeDependencies closes the database.      *)
CloseDependencies ==
  /\ server = "draining"
  /\ server' = "closed"
  /\ UNCHANGED <<place, outcome, events, closed, worker, rows, stats, cancelled>>

(* httpServer.Serve fails: the database is closed at once.                 *)
ServeFails ==
  /\ server = "serving"
  /\ server' = "closed"
  /\ UNCHANGED <<place, outcome, events, closed, worker, rows, stats, cancelled>>

(* main returns.                                                           *)
MainReturns ==
  /\ server = "closed"
  /\ server' = "exited"
  /\ UNCHANGED <<place, outcome, events, closed, worker, rows, stats, cancelled>>

-----------------------------------------------------------------------------
Request(r) ==
  \/ Accept(r)
  \/ Respond(r)
  \/ EnqueueUsage(r)
  \/ Send(r)
  \/ SendOnClosed(r)
  \/ GiveUp(r)

Work ==
  \/ Receive
  \/ Stop
  \/ RecordUsageEvent
  \/ RecordError
  \/ Backoff

ServerShutdown == Drain \/ CloseDependencies \/ MainReturns

QueueNext ==
  \/ \E r \in Requests : Request(r)
  \/ Work
  \/ ServerShutdown
  \/ CancelContext
  \/ ServeFails

QueueSpec == QueueInit /\ [][QueueNext]_queueVars

(* The worker goroutine and the goroutine in Serve go on running; a        *)
(* statement ends, a timer fires and Shutdown keeps its deadline.  Nothing *)
(* is assumed of handlers, which may hang, nor of signals.                 *)
Fairness == WF_queueVars(Work) /\ WF_queueVars(ServerShutdown)

QueueFairSpec == QueueSpec /\ Fairness

-----------------------------------------------------------------------------
(* Properties                                                              *)

(* The queue, the worker, the counters and the requests are well formed,   *)
(* and the channel never holds more than its capacity.                     *)
QueueTypeOK ==
  /\ place \in [Requests -> Positions]
  /\ outcome \in [Requests -> Outcomes]
  /\ events \in Seq(Requests) /\ Len(events) <= Capacity
  /\ closed \in BOOLEAN
  /\ worker \in Worker
  /\ rows \in [Requests -> Nat]
  /\ stats \in Stats
  /\ cancelled \in BOOLEAN
  /\ server \in {"serving", "draining", "closed", "exited"}

Became(result) == Cardinality({r \in Requests : outcome[r] = result})

(* Stats shows every event: what EnqueueUsage accepted is pending, in the  *)
(* worker's hands, recorded or failed, whatever storage errors, retries    *)
(* and shutdown do, and what it dropped is counted as dropped.             *)
EveryEventCounted ==
  /\ Became("accepted") = Len(events) + (IF worker.event = NoEvent THEN 0 ELSE 1)
                          + stats.recorded + stats.failed
  /\ Became("dropped") = stats.dropped

Settled(r) == worker.event # r /\ \A i \in 1 .. Len(events) : events[i] # r

(* "Keep the recording worker alive after an individual storage failure":  *)
(* while the process is not told to stop, every accepted event leaves the  *)
(* queue, recorded or given up after its retries.                          *)
EventsSettled ==
  \A r \in Requests : outcome[r] = "accepted" ~> Settled(r) \/ cancelled \/ ~Running

(* "drains in-flight requests within its shutdown timeout": after SIGTERM  *)
(* the process ends, even with a handler that hangs or an event that       *)
(* cannot be stored.                                                       *)
ShutdownCompletes == cancelled ~> ~Running
=============================================================================
