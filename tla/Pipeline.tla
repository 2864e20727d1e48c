------------------------------- MODULE Pipeline -------------------------------
(***************************************************************************)
(* The request pipeline of the web engine (pkg/web, middlewares/setup.go), *)
(* the background worker it feeds (pkg/worker) and Engine.Stop.            *)
(*                                                                         *)
(* Every request runs inside one database transaction.  Its handler        *)
(* collects tasks; Context.Commit commits the transaction and only then    *)
(* hands the tasks to the worker, one Enqueue at a time.  Enqueue counts   *)
(* the task and then sends it on a buffered channel, which blocks while    *)
(* the buffer is full.  Stop waits for the web server to have no request   *)
(* in flight and then for the worker's counter to reach zero, all within   *)
(* one 30 second context.                                                  *)
(*                                                                         *)
(* A client may go away at any moment: the request's context is cancelled  *)
(* and database/sql rolls its transaction back on its own.  An /mcp        *)
(* request commits its own transaction early and then replays /api/v1      *)
(* requests through the same pipeline, in process.                         *)
(***************************************************************************)
EXTENDS Integers, Sequences, FiniteSets

CONSTANTS
  Requests,       \* the requests that may arrive
  Workers,        \* one per CPU (Engine.Start)
  MaxQueueSize,   \* capacity of the worker's channel
  MaxTasks,       \* bound: tasks one handler enqueues
  NoRequest,      \* "called by": not a replay
  NoTask          \* what an idle worker is running

ASSUME PipelineAssumption ==
  /\ IsFiniteSet(Requests) /\ IsFiniteSet(Workers)
  /\ MaxQueueSize \in Nat \ {0}
  /\ MaxTasks \in Nat
  /\ NoRequest \notin Requests

Task == Requests \X (1..MaxTasks)

ASSUME NoTaskAssumption == NoTask \notin Task

Phases == {"idle", "handling", "serving", "finishing", "sending", "counted", "done"}

VARIABLES
  server,     \* "running", "closing", "waiting", "stopped", "failed"
  phase,      \* phase[r]: where the request's goroutine is
  caller,     \* caller[r]: the /mcp request replaying r, or NoRequest
  trx,        \* trx[r]: "none", "open", "committed", "rolledback"
  gone,       \* gone[r]: the request's context is cancelled
  tasks,      \* tasks[r]: Context.tasks, those not sent yet
  queue,      \* the buffered channel
  len,        \* BackgroundWorker.len
  running,    \* running[w]: the task worker w is busy with, or NoTask
  performed   \* history: tasks whose job has been run to its end

vars == <<server, phase, caller, trx, gone, tasks, queue, len, running, performed>>
requestVars == <<phase, caller, trx, gone, tasks>>
workerVars == <<queue, len, running, performed>>

TypeOK ==
  /\ server \in {"running", "closing", "waiting", "stopped", "failed"}
  /\ phase \in [Requests -> Phases]
  /\ caller \in [Requests -> Requests \cup {NoRequest}]
  /\ trx \in [Requests -> {"none", "open", "committed", "rolledback"}]
  /\ gone \in [Requests -> BOOLEAN]
  /\ tasks \in [Requests -> Seq(Task)]
  /\ queue \in Seq(Task)
  /\ Len(queue) <= MaxQueueSize
  /\ len \in Nat
  /\ running \in [Workers -> Task \cup {NoTask}]
  /\ performed \in SUBSET Task

Init ==
  /\ server = "running"
  /\ phase = [r \in Requests |-> "idle"]
  /\ caller = [r \in Requests |-> NoRequest]
  /\ trx = [r \in Requests |-> "none"]
  /\ gone = [r \in Requests |-> FALSE]
  /\ tasks = [r \in Requests |-> << >>]
  /\ queue = << >>
  /\ len = 0
  /\ running = [w \in Workers |-> NoTask]
  /\ performed = {}

-----------------------------------------------------------------------------
(* One request                                                             *)

Goto(r, p) == phase' = [phase EXCEPT ![r] = p]

InFlight(r) == phase[r] \notin {"idle", "done"}

\* The web server accepts a request and WebSetup begins its transaction.
Accept(r) ==
  /\ server = "running"
  /\ phase[r] = "idle"
  /\ Goto(r, "handling")
  /\ trx' = [trx EXCEPT ![r] = "open"]
  /\ UNCHANGED <<server, caller, gone, tasks, workerVars>>

\* ... or cannot begin it (begin_error): the request ends there.
AcceptFails(r) ==
  /\ server = "running"
  /\ phase[r] = "idle"
  /\ Goto(r, "done")
  /\ UNCHANGED <<server, caller, trx, gone, tasks, workerVars>>

\* The handler enqueues n tasks on its context and returns nil.  It may do so
\* after its transaction has already been rolled back under it: Failure()
\* turns context.Canceled into nil.
FaultyHandlerReturns(r, n) ==
  /\ phase[r] = "handling"
  /\ Goto(r, "finishing")
  /\ queue' = queue \o [i \in 1..n |-> <<r, i>>]
  /\ len' = len + n
  /\ UNCHANGED <<server, caller, trx, gone, tasks, running, performed>>

HandlerReturns(r, n) ==
  /\ phase[r] = "handling"
  /\ Goto(r, "finishing")
  /\ tasks' = [tasks EXCEPT ![r] = [i \in 1..n |-> <<r, i>>]]
  /\ UNCHANGED <<server, caller, trx, gone, workerVars>>

\* The handler returns an error or panics: roll back, enqueue nothing.
HandlerFails(r) ==
  /\ phase[r] = "handling"
  /\ Goto(r, "done")
  /\ trx' = [trx EXCEPT ![r] = "rolledback"]
  /\ UNCHANGED <<server, caller, gone, tasks, workerVars>>

\* Trx.Commit.  It fails when the context is cancelled first or the database
\* refuses; sql.ErrTxDone, for a transaction that is already over, is success.
TrxCommit(r, ok) ==
  \/ /\ ok /\ trx[r] = "open" /\ ~gone[r]
     /\ trx' = [trx EXCEPT ![r] = "committed"]
  \/ /\ ok /\ trx[r] \in {"committed", "rolledback"}
     /\ UNCHANGED trx
  \/ /\ ~ok /\ trx[r] = "open"
     /\ trx' = [trx EXCEPT ![r] = "rolledback"]

\* Context.Commit: the transaction first, then the tasks.
CommitRequest(r, ok) ==
  /\ phase[r] = "finishing"
  /\ TrxCommit(r, ok)
  /\ Goto(r, IF ok THEN "sending" ELSE "done")
  /\ tasks' = IF ok THEN tasks ELSE [tasks EXCEPT ![r] = << >>]
  /\ UNCHANGED <<server, caller, gone, workerVars>>

\* The client goes away (or a replay times out).
Disconnect(r) ==
  /\ InFlight(r)
  /\ ~gone[r]
  /\ gone' = [gone EXCEPT ![r] = TRUE]
  /\ UNCHANGED <<server, phase, caller, trx, tasks, workerVars>>

\* database/sql rolls back a transaction whose context was cancelled.
AbandonTrx(r) ==
  /\ gone[r]
  /\ trx[r] = "open"
  /\ trx' = [trx EXCEPT ![r] = "rolledback"]
  /\ UNCHANGED <<server, phase, caller, gone, tasks, workerVars>>

\* The /mcp handler ends its own transaction before it serves tool calls.
ReleaseEarly(r, ok) ==
  /\ phase[r] = "handling"
  /\ caller[r] = NoRequest
  /\ TrxCommit(r, ok)
  /\ Goto(r, IF ok THEN "serving" ELSE "done")
  /\ UNCHANGED <<server, caller, gone, tasks, workerVars>>

\* A tool call replays an /api/v1 request through the whole pipeline, whether
\* or not the web server still accepts connections.
Replay(r, inner) ==
  /\ phase[r] = "serving"
  /\ phase[inner] = "idle"
  /\ caller' = [caller EXCEPT ![inner] = r]
  /\ Goto(inner, "handling")
  /\ trx' = [trx EXCEPT ![inner] = "open"]
  /\ UNCHANGED <<server, gone, tasks, workerVars>>

\* Every replay has returned: so does the /mcp handler.
StopServing(r) ==
  /\ phase[r] = "serving"
  /\ \A i \in Requests : caller[i] = r => ~InFlight(i)
  /\ Goto(r, "finishing")
  /\ UNCHANGED <<server, caller, trx, gone, tasks, workerVars>>

-----------------------------------------------------------------------------
(* Handing the tasks to the worker                                         *)

\* First half of BackgroundWorker.Enqueue: count the task under the lock.
FaultyCountTask(r) ==
  /\ phase[r] = "sending"
  /\ tasks[r] # << >>
  /\ Goto(r, "counted")
  /\ UNCHANGED <<server, caller, trx, gone, tasks, workerVars>>

CountTask(r) ==
  /\ phase[r] = "sending"
  /\ tasks[r] # << >>
  /\ Goto(r, "counted")
  /\ len' = len + 1
  /\ UNCHANGED <<server, caller, trx, gone, tasks, queue, running, performed>>

\* Second half: send it; the goroutine blocks while the buffer is full.
FaultySendTask(r) ==
  /\ phase[r] = "counted"
  /\ Len(queue) < MaxQueueSize - 1
  /\ queue' = Append(queue, Head(tasks[r]))
  /\ tasks' = [tasks EXCEPT ![r] = Tail(@)]
  /\ Goto(r, "sending")
  /\ UNCHANGED <<server, caller, trx, gone, len, running, performed>>

SendTask(r) ==
  /\ phase[r] = "counted"
  /\ Len(queue) < MaxQueueSize
  /\ queue' = Append(queue, Head(tasks[r]))
  /\ tasks' = [tasks EXCEPT ![r] = Tail(@)]
  /\ Goto(r, "sending")
  /\ UNCHANGED <<server, caller, trx, gone, len, running, performed>>

\* All tasks sent: the request is over.
Return(r) ==
  /\ phase[r] = "sending"
  /\ tasks[r] = << >>
  /\ Goto(r, "done")
  /\ UNCHANGED <<server, caller, trx, gone, tasks, workerVars>>

-----------------------------------------------------------------------------
(* The workers                                                             *)

FaultyReceive(w) ==
  /\ running[w] = NoTask
  /\ queue # << >>
  /\ running' = [running EXCEPT ![w] = Head(queue)]
  /\ queue' = Tail(queue)
  /\ len' = len - 1
  /\ UNCHANGED <<server, requestVars, performed>>

Receive(w) ==
  /\ running[w] = NoTask
  /\ queue # << >>
  /\ running' = [running EXCEPT ![w] = Head(queue)]
  /\ queue' = Tail(queue)
  /\ UNCHANGED <<server, requestVars, len, performed>>

\* The job has run inside its own transaction.  Committed, failed or panicked,
\* WorkerSetup returns and the task is counted off; nothing runs it again.
FaultyFinishTask(w) ==
  /\ running[w] # NoTask
  /\ performed' = performed \cup {running[w]}
  /\ running' = [running EXCEPT ![w] = NoTask]
  /\ UNCHANGED <<server, requestVars, queue, len>>

FaultyRetryTask(w) ==
  /\ running[w] # NoTask
  /\ Len(queue) < MaxQueueSize
  /\ performed' = performed \cup {running[w]}
  /\ queue' = Append(queue, running[w])
  /\ running' = [running EXCEPT ![w] = NoTask]
  /\ UNCHANGED <<server, requestVars, len>>

FinishTask(w) ==
  /\ running[w] # NoTask
  /\ performed' = performed \cup {running[w]}
  /\ running' = [running EXCEPT ![w] = NoTask]
  /\ len' = len - 1
  /\ UNCHANGED <<server, requestVars, queue>>

-----------------------------------------------------------------------------
(* Engine.Stop                                                             *)

\* A signal arrives: the listeners close.
CloseServer ==
  /\ server = "running"
  /\ server' = "closing"
  /\ UNCHANGED <<requestVars, workerVars>>

\* webServer.Shutdown returns once no connection has a request in flight.
FaultyServerDrained ==
  /\ server = "closing"
  /\ \A r \in Requests : phase[r] \notin {"handling", "serving", "finishing"}
  /\ server' = "waiting"
  /\ UNCHANGED <<requestVars, workerVars>>

ServerDrained ==
  /\ server = "closing"
  /\ \A r \in Requests : caller[r] = NoRequest => ~InFlight(r)
  /\ server' = "waiting"
  /\ UNCHANGED <<requestVars, workerVars>>

\* BackgroundWorker.Shutdown reads a zero count: Stop returns nil.
FaultyWorkerDrained ==
  /\ server = "waiting"
  /\ queue = << >>
  /\ server' = "stopped"
  /\ UNCHANGED <<requestVars, workerVars>>

WorkerDrained ==
  /\ server = "waiting"
  /\ len = 0
  /\ server' = "stopped"
  /\ UNCHANGED <<requestVars, workerVars>>

\* The 30 second context expires, or a listener cannot be shut down.
StopFails ==
  /\ server \in {"closing", "waiting"}
  /\ server' = "failed"
  /\ UNCHANGED <<requestVars, workerVars>>

-----------------------------------------------------------------------------
\* RunServer returns after Stop, and the process with all its goroutines ends.
Up == server \notin {"stopped", "failed"}

Exited ==
  /\ ~Up
  /\ UNCHANGED vars

RequestStep(r) ==
  \/ \E n \in 0..MaxTasks : HandlerReturns(r, n)
  \/ HandlerFails(r)
  \/ \E ok \in BOOLEAN : CommitRequest(r, ok) \/ ReleaseEarly(r, ok)
  \/ StopServing(r)
  \/ CountTask(r)
  \/ SendTask(r)
  \/ Return(r)

Arrival(r) ==
  \/ Accept(r)
  \/ AcceptFails(r)
  \/ \E inner \in Requests : Replay(r, inner)

ClientStep(r) == Disconnect(r) \/ AbandonTrx(r)

WorkerStep(w) == Receive(w) \/ FinishTask(w)

StopStep == CloseServer \/ ServerDrained \/ WorkerDrained \/ StopFails

Next ==
  \/ /\ Up
     /\ \/ \E r \in Requests : RequestStep(r) \/ Arrival(r) \/ ClientStep(r)
        \/ \E w \in Workers : WorkerStep(w)
        \/ StopStep
  \/ Exited

Spec == Init /\ [][Next]_vars

\* Handlers return, a goroutine that can run does, a blocked channel send is
\* served in turn (strong fairness), and workers never leave their loop.  Stop
\* is only ever taken because it was asked for, and nothing here makes its
\* 30 second context expire: shutting down must not depend on that.
Fairness ==
  /\ \A r \in Requests : SF_vars(Up /\ RequestStep(r))
  /\ \A w \in Workers : WF_vars(Up /\ WorkerStep(w))
  /\ WF_vars(ServerDrained \/ WorkerDrained)

FairSpec == Spec /\ Fairness

-----------------------------------------------------------------------------
(* Properties                                                              *)

Sent == {queue[i] : i \in 1..Len(queue)}
Running == {running[w] : w \in Workers} \ {NoTask}
Busy == {w \in Workers : running[w] # NoTask}
Blocked == {r \in Requests : phase[r] = "counted"}
Remaining(r) == {tasks[r][i] : i \in 1..Len(tasks[r])}

\* The counter that Shutdown polls accounts for every task that was handed
\* over: those in the channel, those being run, and those whose Enqueue is
\* still blocked on the full channel (worker.go counts before it sends).
CountIsExact == len = Len(queue) + Cardinality(Busy) + Cardinality(Blocked)

\* When Stop returns nil nothing is left behind: no request in flight, replays
\* included, no task unsent, queued or running.
CleanStopLeavesNothing ==
  server = "stopped" =>
    /\ \A r \in Requests : ~InFlight(r) /\ tasks[r] = << >>
    /\ queue = << >>
    /\ \A w \in Workers : running[w] = NoTask

\* No task is visible to a worker while its request may still fail: tasks of
\* an undecided transaction stay on the request's own context.
NoTaskBeforeDecision ==
  \A t \in Sent \cup Running \cup performed : trx[t[1]] # "open"

\* What the "committed" state WebSetup logs says, and the tests of setup.go
\* expect: tasks are handed to the worker only for a request whose changes are
\* in the database.
TasksOnlyAfterCommit ==
  \A t \in Sent \cup Running \cup performed : trx[t[1]] = "committed"

\* No task is ever in two places at once, or run again after it was performed.
RunOnce ==
  /\ \A t \in Running : t \notin Sent \cup performed \cup Remaining(t[1])
  /\ \A t \in Sent : t \notin performed \cup Remaining(t[1])
  /\ \A u, w \in Workers : running[u] = running[w] /\ running[u] # NoTask => u = w

\* A request blocked on the full queue always gets through, unless the process
\* exits: workers never wait for a request.
SendersReturn ==
  \A r \in Requests : phase[r] \in {"sending", "counted"} ~> (phase[r] = "done" \/ ~Up)

\* A shutdown that was asked for ends, without the help of its timeout.
StopEnds == (server = "closing") ~> ~Up

\* The pipeline keeps the promise of TaskDelivery.
Delivery == INSTANCE TaskDelivery WITH
  owed <- Sent \cup Running
            \cup UNION {Remaining(r) : r \in {q \in Requests : phase[q] \in {"sending", "counted"}}},
  performed <- performed,
  state <- IF Up THEN "up" ELSE server

KeepsDeliveryPromise == Delivery!TDSpec
===============================================================================
