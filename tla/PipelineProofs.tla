---------------------------- MODULE PipelineProofs ----------------------------
(***************************************************************************)
(* Proofs about Pipeline, for every number of requests and workers, every  *)
(* queue size and every number of tasks per request.                       *)
(*                                                                         *)
(* The count of the worker and the types are one inductive invariant: that *)
(* the count never goes below zero is only true because it is exact.  What *)
(* a clean stop leaves behind needs to know, besides, where replayed       *)
(* requests may be while the web server drains.                            *)
(***************************************************************************)
EXTENDS Pipeline, FiniteSetTheorems, TLAPS

-----------------------------------------------------------------------------
(* Counting                                                                *)

\* The busy workers, and the blocked senders, are finitely many.
LEMMA FiniteCounts ==
  /\ IsFiniteSet(Busy) /\ Cardinality(Busy) \in Nat
  /\ IsFiniteSet(Blocked) /\ Cardinality(Blocked) \in Nat
<1>1. Busy \in SUBSET Workers /\ Blocked \in SUBSET Requests
  BY DEF Busy, Blocked
<1>2. IsFiniteSet(Workers) /\ IsFiniteSet(Requests)
  BY PipelineAssumption
<1>3. IsFiniteSet(Busy) /\ IsFiniteSet(Blocked)
  BY <1>1, <1>2, FS_Subset
<1> QED
  BY <1>3, FS_CardinalityType

\* A step that does not touch the workers leaves the busy ones as they are.
LEMMA SameBusy ==
  running' = running => Cardinality(Busy)' = Cardinality(Busy)
BY DEF Busy

\* A request that moves between two phases other than "counted" leaves the
\* blocked senders as they are.
LEMMA SameBlocked ==
  ASSUME TypeOK, NEW r \in Requests, NEW p, p # "counted", phase[r] # "counted", Goto(r, p)
  PROVE  Cardinality(Blocked)' = Cardinality(Blocked)
<1>1. Blocked' = Blocked
  BY DEF TypeOK, Blocked, Goto
<1> QED
  BY <1>1

\* A worker that takes a task is one more busy worker.
LEMMA OneMoreBusy ==
  ASSUME TypeOK, NEW w \in Workers, running[w] = NoTask, NEW t \in Task,
         running' = [running EXCEPT ![w] = t]
  PROVE  Cardinality(Busy)' = Cardinality(Busy) + 1
<1>1. Busy' = Busy \cup {w} /\ w \notin Busy
  BY NoTaskAssumption DEF TypeOK, Busy
<1>2. Cardinality(Busy \cup {w}) = Cardinality(Busy) + 1
  BY <1>1, FiniteCounts, FS_AddElement
<1> QED
  BY <1>1, <1>2

\* A worker that finishes its task is one less.
LEMMA OneLessBusy ==
  ASSUME TypeOK, NEW w \in Workers, running[w] # NoTask,
         running' = [running EXCEPT ![w] = NoTask]
  PROVE  /\ Cardinality(Busy)' = Cardinality(Busy) - 1
         /\ Cardinality(Busy) > 0
<1>1. Busy' = Busy \ {w} /\ w \in Busy
  BY DEF TypeOK, Busy
<1>2. Cardinality(Busy \ {w}) = Cardinality(Busy) - 1
  BY <1>1, FiniteCounts, FS_RemoveElement
<1>3. Cardinality(Busy) # 0
  BY <1>1, FiniteCounts, FS_EmptySet
<1> QED
  BY <1>1, <1>2, <1>3, FiniteCounts

\* A request that counts its next task becomes a blocked sender.
LEMMA OneMoreBlocked ==
  ASSUME TypeOK, NEW r \in Requests, phase[r] # "counted", Goto(r, "counted")
  PROVE  Cardinality(Blocked)' = Cardinality(Blocked) + 1
<1>1. Blocked' = Blocked \cup {r} /\ r \notin Blocked
  BY DEF TypeOK, Blocked, Goto
<1>2. Cardinality(Blocked \cup {r}) = Cardinality(Blocked) + 1
  BY <1>1, FiniteCounts, FS_AddElement
<1> QED
  BY <1>1, <1>2

\* A request that has sent its task is blocked no longer.
LEMMA OneLessBlocked ==
  ASSUME TypeOK, NEW r \in Requests, phase[r] = "counted", NEW p, p # "counted", Goto(r, p)
  PROVE  /\ Cardinality(Blocked)' = Cardinality(Blocked) - 1
         /\ Cardinality(Blocked) > 0
<1>1. Blocked' = Blocked \ {r} /\ r \in Blocked
  BY DEF TypeOK, Blocked, Goto
<1>2. Cardinality(Blocked \ {r}) = Cardinality(Blocked) - 1
  BY <1>1, FiniteCounts, FS_RemoveElement
<1>3. Cardinality(Blocked) # 0
  BY <1>1, FiniteCounts, FS_EmptySet
<1> QED
  BY <1>1, <1>2, <1>3, FiniteCounts

-----------------------------------------------------------------------------
(* Types, and the count                                                    *)

\* A request blocked in Enqueue still holds the task it is about to send.
SendersHoldATask == \A r \in Requests : phase[r] = "counted" => tasks[r] # << >>

CountInv == TypeOK /\ CountIsExact /\ SendersHoldATask

LEMMA InitCount == Init => CountInv
<1> SUFFICES ASSUME Init PROVE CountInv
  OBVIOUS
<1>1. TypeOK
  BY PipelineAssumption DEF Init, TypeOK, Phases
<1>2. Busy = {} /\ Blocked = {}
  BY DEF Init, Busy, Blocked
<1>3. CountIsExact
  BY <1>2, FS_EmptySet DEF Init, CountIsExact
<1>4. SendersHoldATask
  BY DEF Init, SendersHoldATask
<1> QED
  BY <1>1, <1>3, <1>4 DEF CountInv

\* A step of a request that neither counts nor sends a task.
LEMMA QuietRequestStep ==
  ASSUME CountInv, NEW r \in Requests, NEW p \in Phases \ {"counted"},
         phase[r] # "counted", Goto(r, p),
         caller' \in [Requests -> Requests \cup {NoRequest}],
         trx' \in [Requests -> {"none", "open", "committed", "rolledback"}],
         tasks' \in [Requests -> Seq(Task)],
         \A q \in Requests \ {r} : tasks'[q] = tasks[q],
         UNCHANGED <<server, gone, workerVars>>
  PROVE  CountInv'
<1>1. phase' \in [Requests -> Phases]
  BY DEF CountInv, TypeOK, Goto
<1>2. TypeOK'
  BY <1>1 DEF CountInv, TypeOK, workerVars
<1>3. Cardinality(Busy)' = Cardinality(Busy) /\ Cardinality(Blocked)' = Cardinality(Blocked)
  BY SameBusy, SameBlocked DEF CountInv, workerVars
<1>4. CountIsExact'
  BY <1>3 DEF CountInv, CountIsExact, workerVars
<1>5. SendersHoldATask'
  BY DEF CountInv, TypeOK, SendersHoldATask, Goto
<1> QED
  BY <1>2, <1>4, <1>5 DEF CountInv

\* A step that moves no request and no task.
LEMMA QuietStep ==
  ASSUME CountInv,
         server' \in {"running", "closing", "waiting", "stopped", "failed"},
         trx' \in [Requests -> {"none", "open", "committed", "rolledback"}],
         gone' \in [Requests -> BOOLEAN],
         UNCHANGED <<phase, caller, tasks, workerVars>>
  PROVE  CountInv'
<1>1. TypeOK'
  BY DEF CountInv, TypeOK, workerVars
<1>2. Busy' = Busy /\ Blocked' = Blocked
  BY DEF Busy, Blocked, workerVars
<1>3. CountIsExact'
  BY <1>2 DEF CountInv, CountIsExact, workerVars
<1>4. SendersHoldATask'
  BY DEF CountInv, SendersHoldATask
<1> QED
  BY <1>1, <1>3, <1>4 DEF CountInv

\* The tasks a handler collects.
LEMMA HandlerTasks ==
  ASSUME NEW r \in Requests, NEW n \in 0..MaxTasks
  PROVE  [i \in 1..n |-> <<r, i>>] \in Seq(Task)
BY PipelineAssumption DEF Task

LEMMA StepCount == CountInv /\ [Next]_vars => CountInv'
<1> SUFFICES ASSUME CountInv, [Next]_vars PROVE CountInv'
  OBVIOUS
<1> USE DEF requestVars, workerVars, Phases
<1>t. TypeOK
  BY DEF CountInv
<1>1. ASSUME NEW r \in Requests, NEW n \in 0..MaxTasks, HandlerReturns(r, n) PROVE CountInv'
  <2>1. tasks' \in [Requests -> Seq(Task)]
    BY <1>t, <1>1, HandlerTasks DEF HandlerReturns, TypeOK
  <2>2. \A q \in Requests \ {r} : tasks'[q] = tasks[q]
    BY <1>t, <1>1 DEF HandlerReturns, TypeOK
  <2> QED
    BY <1>t, <1>1, <2>1, <2>2, QuietRequestStep DEF HandlerReturns, TypeOK
<1>2. ASSUME NEW r \in Requests, HandlerFails(r) PROVE CountInv'
  BY <1>t, <1>2, QuietRequestStep DEF HandlerFails, TypeOK
<1>3. ASSUME NEW r \in Requests, NEW ok \in BOOLEAN, CommitRequest(r, ok) PROVE CountInv'
  <2>1. trx' \in [Requests -> {"none", "open", "committed", "rolledback"}]
    BY <1>t, <1>3 DEF CommitRequest, TrxCommit, TypeOK
  <2>2. tasks' \in [Requests -> Seq(Task)] /\ \A q \in Requests \ {r} : tasks'[q] = tasks[q]
    BY <1>t, <1>3 DEF CommitRequest, TypeOK
  <2>3. CASE ok
    BY <1>t, <1>3, <2>1, <2>2, <2>3, QuietRequestStep DEF CommitRequest, TypeOK
  <2>4. CASE ~ok
    BY <1>t, <1>3, <2>1, <2>2, <2>4, QuietRequestStep DEF CommitRequest, TypeOK
  <2> QED
    BY <2>3, <2>4
<1>4. ASSUME NEW r \in Requests, NEW ok \in BOOLEAN, ReleaseEarly(r, ok) PROVE CountInv'
  <2>1. trx' \in [Requests -> {"none", "open", "committed", "rolledback"}]
    BY <1>t, <1>4 DEF ReleaseEarly, TrxCommit, TypeOK
  <2>2. CASE ok
    BY <1>t, <1>4, <2>1, <2>2, QuietRequestStep DEF ReleaseEarly, TypeOK
  <2>3. CASE ~ok
    BY <1>t, <1>4, <2>1, <2>3, QuietRequestStep DEF ReleaseEarly, TypeOK
  <2> QED
    BY <2>2, <2>3
<1>5. ASSUME NEW r \in Requests, StopServing(r) PROVE CountInv'
  BY <1>t, <1>5, QuietRequestStep DEF StopServing, TypeOK
<1>6. ASSUME NEW r \in Requests, CountTask(r) PROVE CountInv'
  <2>1. Cardinality(Blocked)' = Cardinality(Blocked) + 1 /\ Cardinality(Busy)' = Cardinality(Busy)
    BY <1>t, <1>6, OneMoreBlocked, SameBusy DEF CountTask
  <2>2. TypeOK'
    BY <1>t, <1>6 DEF CountTask, Goto, TypeOK
  <2>3. CountIsExact'
    BY <1>t, <1>6, <2>1, FiniteCounts DEF CountTask, CountIsExact, CountInv, TypeOK
  <2>4. SendersHoldATask'
    BY <1>t, <1>6 DEF CountTask, Goto, CountInv, SendersHoldATask, TypeOK
  <2> QED
    BY <2>2, <2>3, <2>4 DEF CountInv
<1>7. ASSUME NEW r \in Requests, SendTask(r) PROVE CountInv'
  <2>1. Cardinality(Blocked)' = Cardinality(Blocked) - 1 /\ Cardinality(Busy)' = Cardinality(Busy)
    BY <1>t, <1>7, OneLessBlocked, SameBusy DEF SendTask
  <2>2. /\ queue' \in Seq(Task) /\ Len(queue') = Len(queue) + 1
        /\ tasks' \in [Requests -> Seq(Task)]
    BY <1>t, <1>7 DEF SendTask, CountInv, SendersHoldATask, TypeOK
  <2>3. TypeOK'
    <3>1. Len(queue') <= MaxQueueSize
      BY <1>t, <1>7, <2>2, PipelineAssumption DEF SendTask, TypeOK
    <3>2. phase' \in [Requests -> Phases]
      BY <1>t, <1>7 DEF SendTask, Goto, TypeOK
    <3> QED
      BY <1>t, <1>7, <2>2, <3>1, <3>2 DEF SendTask, TypeOK
  <2>4. CountIsExact'
    BY <1>t, <1>7, <2>1, <2>2, FiniteCounts DEF SendTask, CountIsExact, CountInv, TypeOK
  <2>5. SendersHoldATask'
    BY <1>t, <1>7 DEF SendTask, Goto, CountInv, SendersHoldATask, TypeOK
  <2> QED
    BY <2>3, <2>4, <2>5 DEF CountInv
<1>8. ASSUME NEW r \in Requests, Return(r) PROVE CountInv'
  BY <1>t, <1>8, QuietRequestStep DEF Return, TypeOK
<1>9. ASSUME NEW r \in Requests, Accept(r) \/ AcceptFails(r) PROVE CountInv'
  BY <1>t, <1>9, QuietRequestStep DEF Accept, AcceptFails, TypeOK
<1>10. ASSUME NEW r \in Requests, NEW inner \in Requests, Replay(r, inner) PROVE CountInv'
  BY <1>t, <1>10, QuietRequestStep DEF Replay, TypeOK
<1>11. ASSUME NEW r \in Requests, Disconnect(r) \/ AbandonTrx(r) PROVE CountInv'
  BY <1>t, <1>11, QuietStep DEF Disconnect, AbandonTrx, TypeOK
<1>12. ASSUME NEW w \in Workers, Receive(w) PROVE CountInv'
  <2>1. Head(queue) \in Task /\ queue' \in Seq(Task) /\ Len(queue') = Len(queue) - 1
    BY <1>t, <1>12 DEF Receive, TypeOK
  <2>2. Cardinality(Busy)' = Cardinality(Busy) + 1 /\ Blocked' = Blocked
    BY <1>t, <1>12, <2>1, OneMoreBusy DEF Receive, Blocked
  <2>3. TypeOK'
    <3>1. Len(queue') <= MaxQueueSize
      BY <1>t, <2>1, PipelineAssumption DEF TypeOK
    <3>2. running' \in [Workers -> Task \cup {NoTask}]
      BY <1>t, <1>12, <2>1 DEF Receive, TypeOK
    <3> QED
      BY <1>t, <1>12, <2>1, <3>1, <3>2 DEF Receive, TypeOK
  <2>4. CountIsExact'
    BY <1>t, <1>12, <2>1, <2>2, FiniteCounts DEF Receive, CountIsExact, CountInv, TypeOK
  <2>5. SendersHoldATask'
    BY <1>12 DEF Receive, CountInv, SendersHoldATask
  <2> QED
    BY <2>3, <2>4, <2>5 DEF CountInv
<1>13. ASSUME NEW w \in Workers, FinishTask(w) PROVE CountInv'
  <2>1. /\ Cardinality(Busy)' = Cardinality(Busy) - 1 /\ Cardinality(Busy) > 0
        /\ Blocked' = Blocked
    BY <1>t, <1>13, OneLessBusy DEF FinishTask, Blocked
  <2>2. len > 0
    BY <1>t, <2>1, FiniteCounts DEF CountInv, CountIsExact, TypeOK
  <2>3. TypeOK'
    BY <1>t, <1>13, <2>2 DEF FinishTask, TypeOK
  <2>4. CountIsExact'
    BY <1>t, <1>13, <2>1, FiniteCounts DEF FinishTask, CountIsExact, CountInv, TypeOK
  <2>5. SendersHoldATask'
    BY <1>13 DEF FinishTask, CountInv, SendersHoldATask
  <2> QED
    BY <2>3, <2>4, <2>5 DEF CountInv
<1>14. ASSUME StopStep PROVE CountInv'
  BY <1>t, <1>14, QuietStep
     DEF StopStep, CloseServer, ServerDrained, WorkerDrained, StopFails, TypeOK
<1>15. ASSUME UNCHANGED vars PROVE CountInv'
  BY <1>t, <1>15, QuietStep DEF vars, TypeOK
<1> QED
  BY <1>1, <1>2, <1>3, <1>4, <1>5, <1>6, <1>7, <1>8, <1>9, <1>10, <1>11, <1>12, <1>13, <1>14, <1>15
     DEF Next, RequestStep, Arrival, ClientStep, WorkerStep, Exited

\* However requests, replays, disconnects, workers and a shutdown interleave,
\* the worker's counter is the number of tasks queued, running or blocked in
\* Enqueue (worker.go counts before it sends and discounts after it ran).
THEOREM CountAlwaysExact == Spec => []CountIsExact
<1>1. Spec => []CountInv
  BY InitCount, StepCount, PTL DEF Spec
<1> QED
  BY <1>1, PTL DEF CountInv

\* Requests, the queue and the workers keep their types: a sender that is
\* blocked or counting has a task left, and the queue never overflows.
THEOREM PipelineKeepsItsTypes == Spec => []TypeOK
<1>1. Spec => []CountInv
  BY InitCount, StepCount, PTL DEF Spec
<1> QED
  BY <1>1, PTL DEF CountInv

-----------------------------------------------------------------------------
(* What is in flight while the server drains                               *)

\* Tasks live on a request only between the end of its handler and the last
\* Enqueue.
TasksOnTheirWay ==
  \A r \in Requests : phase[r] \in {"idle", "handling", "serving", "done"} => tasks[r] = << >>

\* A replay in flight has a caller, and that caller, itself no replay, is
\* waiting for it.
ReplaysAreServed ==
  \A r \in Requests :
    /\ phase[r] \in {"idle", "serving"} => caller[r] = NoRequest
    /\ InFlight(r) /\ caller[r] # NoRequest => phase[caller[r]] = "serving"

\* Once the web server has drained nothing is in flight, and Stop returns nil
\* only at a zero count.
DrainedIsQuiet ==
  /\ server \in {"waiting", "stopped"} => \A r \in Requests : ~InFlight(r)
  /\ server = "stopped" => len = 0

DrainInv == TasksOnTheirWay /\ ReplaysAreServed /\ DrainedIsQuiet

LEMMA InitDrain == Init => DrainInv
BY DEF Init, DrainInv, TasksOnTheirWay, ReplaysAreServed, DrainedIsQuiet, InFlight

LEMMA StepDrain == TypeOK /\ DrainInv /\ [Next]_vars => DrainInv'
<1> SUFFICES ASSUME TypeOK, DrainInv, [Next]_vars PROVE DrainInv'
  OBVIOUS
<1> USE DEF requestVars, workerVars, DrainInv, InFlight, Goto, TypeOK
<1>1. ASSUME NEW r \in Requests, NEW n \in 0..MaxTasks, HandlerReturns(r, n) PROVE DrainInv'
  BY <1>1 DEF HandlerReturns, TasksOnTheirWay, ReplaysAreServed, DrainedIsQuiet
<1>2. ASSUME NEW r \in Requests, HandlerFails(r) PROVE DrainInv'
  BY <1>2 DEF HandlerFails, TasksOnTheirWay, ReplaysAreServed, DrainedIsQuiet
<1>3. ASSUME NEW r \in Requests, NEW ok \in BOOLEAN, CommitRequest(r, ok) PROVE DrainInv'
  BY <1>3 DEF CommitRequest, TasksOnTheirWay, ReplaysAreServed, DrainedIsQuiet
<1>4. ASSUME NEW r \in Requests, NEW ok \in BOOLEAN, ReleaseEarly(r, ok) PROVE DrainInv'
  BY <1>4 DEF ReleaseEarly, TasksOnTheirWay, ReplaysAreServed, DrainedIsQuiet
<1>5. ASSUME NEW r \in Requests, StopServing(r) PROVE DrainInv'
  BY <1>5 DEF StopServing, TasksOnTheirWay, ReplaysAreServed, DrainedIsQuiet
<1>6. ASSUME NEW r \in Requests, CountTask(r) \/ SendTask(r) \/ Return(r) PROVE DrainInv'
  <2>1. CASE CountTask(r)
    BY <2>1 DEF CountTask, TasksOnTheirWay, ReplaysAreServed, DrainedIsQuiet
  <2>2. CASE SendTask(r)
    BY <2>2 DEF SendTask, TasksOnTheirWay, ReplaysAreServed, DrainedIsQuiet
  <2>3. CASE Return(r)
    BY <2>3 DEF Return, TasksOnTheirWay, ReplaysAreServed, DrainedIsQuiet
  <2> QED
    BY <1>6, <2>1, <2>2, <2>3
<1>7. ASSUME NEW r \in Requests, Accept(r) \/ AcceptFails(r) PROVE DrainInv'
  BY <1>7 DEF Accept, AcceptFails, TasksOnTheirWay, ReplaysAreServed, DrainedIsQuiet
<1>8. ASSUME NEW r \in Requests, NEW inner \in Requests, Replay(r, inner) PROVE DrainInv'
  BY <1>8, PipelineAssumption DEF Replay, TasksOnTheirWay, ReplaysAreServed, DrainedIsQuiet
<1>9. ASSUME NEW r \in Requests, Disconnect(r) \/ AbandonTrx(r) PROVE DrainInv'
  BY <1>9 DEF Disconnect, AbandonTrx, TasksOnTheirWay, ReplaysAreServed, DrainedIsQuiet
<1>10. ASSUME Up, NEW w \in Workers, Receive(w) \/ FinishTask(w) PROVE DrainInv'
  BY <1>10 DEF Up, Receive, FinishTask, TasksOnTheirWay, ReplaysAreServed, DrainedIsQuiet
<1>11. ASSUME CloseServer \/ StopFails PROVE DrainInv'
  BY <1>11 DEF CloseServer, StopFails, TasksOnTheirWay, ReplaysAreServed, DrainedIsQuiet
<1>12. ASSUME ServerDrained PROVE DrainInv'
  <2>1. \A r \in Requests : ~InFlight(r)
    BY <1>12 DEF ServerDrained, ReplaysAreServed
  <2> QED
    BY <1>12, <2>1 DEF ServerDrained, TasksOnTheirWay, ReplaysAreServed, DrainedIsQuiet
<1>13. ASSUME WorkerDrained PROVE DrainInv'
  BY <1>13 DEF WorkerDrained, TasksOnTheirWay, ReplaysAreServed, DrainedIsQuiet
<1>14. ASSUME UNCHANGED vars PROVE DrainInv'
  BY <1>14 DEF vars, TasksOnTheirWay, ReplaysAreServed, DrainedIsQuiet
<1> QED
  BY <1>1, <1>2, <1>3, <1>4, <1>5, <1>6, <1>7, <1>8, <1>9, <1>10, <1>11, <1>12, <1>13, <1>14
     DEF Next, RequestStep, Arrival, ClientStep, WorkerStep, StopStep, Exited

LEMMA CleanStop == CountInv /\ DrainInv => CleanStopLeavesNothing
<1> SUFFICES ASSUME CountInv, DrainInv, server = "stopped"
             PROVE  /\ \A r \in Requests : ~InFlight(r) /\ tasks[r] = << >>
                    /\ queue = << >>
                    /\ \A w \in Workers : running[w] = NoTask
  BY DEF CleanStopLeavesNothing
<1>1. \A r \in Requests : ~InFlight(r) /\ tasks[r] = << >>
  BY DEF DrainInv, DrainedIsQuiet, TasksOnTheirWay, InFlight
<1>2. Len(queue) = 0 /\ Cardinality(Busy) = 0
  BY FiniteCounts DEF DrainInv, DrainedIsQuiet, CountInv, CountIsExact, TypeOK
<1>3. queue = << >>
  BY <1>2 DEF CountInv, TypeOK
<1>4. \A w \in Workers : running[w] = NoTask
  BY <1>2, FiniteCounts, FS_EmptySet DEF Busy
<1> QED
  BY <1>1, <1>3, <1>4

\* When Engine.Stop returns nil no request is in flight, replays of /mcp
\* included, and no task is unsent, queued or running.
THEOREM CleanStopAlwaysClean == Spec => []CleanStopLeavesNothing
<1>1. Spec => []CountInv
  BY InitCount, StepCount, PTL DEF Spec
<1>2. CountInv => TypeOK
  BY DEF CountInv
<1>3. Spec => []DrainInv
  BY <1>1, <1>2, InitDrain, StepDrain, PTL DEF Spec
<1> QED
  BY <1>1, <1>3, CleanStop, PTL

-----------------------------------------------------------------------------
(* No task before its transaction is decided                               *)

\* Sending adds one task to the channel, receiving takes one away.
LEMMA SentOnAppend ==
  ASSUME NEW s \in Seq(Task), NEW t \in Task
  PROVE  {Append(s, t)[i] : i \in 1..Len(Append(s, t))} = {s[i] : i \in 1..Len(s)} \cup {t}
<1>1. /\ Len(Append(s, t)) = Len(s) + 1
      /\ \A i \in 1..Len(s) : Append(s, t)[i] = s[i]
      /\ Append(s, t)[Len(s) + 1] = t
      /\ Len(s) \in Nat
  OBVIOUS
<1> QED
  BY <1>1

LEMMA SentOnTail ==
  ASSUME NEW s \in Seq(Task), s # << >>
  PROVE  /\ Head(s) \in {s[i] : i \in 1..Len(s)}
         /\ {Tail(s)[i] : i \in 1..Len(Tail(s))} \subseteq {s[i] : i \in 1..Len(s)}
<1>1. /\ Len(Tail(s)) = Len(s) - 1 /\ Len(s) \in Nat \ {0}
      /\ \A i \in 1..Len(s) - 1 : Tail(s)[i] = s[i + 1]
      /\ Head(s) = s[1]
  OBVIOUS
<1> QED
  BY <1>1

\* Tasks that left their request; each belongs to a request that has decided.
HandedOver == Sent \cup Running \cup performed

DecisionInv ==
  /\ \A r \in Requests : phase[r] \in {"idle", "sending", "counted", "done"} => trx[r] # "open"
  /\ \A r \in Requests : \A i \in 1..Len(tasks[r]) : tasks[r][i][1] = r
  /\ \A t \in HandedOver : t[1] \in Requests /\ phase[t[1]] \in {"sending", "counted", "done"}

LEMMA InitDecision == Init => DecisionInv
BY DEF Init, DecisionInv, HandedOver, Sent, Running

\* A step that hands nothing over, of requests that keep their tasks' owner
\* and do not leave the decided phases.
LEMMA NothingHandedOver ==
  ASSUME TypeOK, DecisionInv,
         \A r \in Requests : phase[r] \in {"sending", "counted", "done"}
                               => phase'[r] \in {"sending", "counted", "done"},
         \A r \in Requests : phase'[r] \in {"idle", "sending", "counted", "done"} => trx'[r] # "open",
         \A r \in Requests : \A i \in 1..Len(tasks'[r]) : tasks'[r][i][1] = r,
         HandedOver' \subseteq HandedOver
  PROVE  DecisionInv'
BY DEF DecisionInv, TypeOK

LEMMA StepDecision == CountInv /\ DecisionInv /\ [Next]_vars => DecisionInv'
<1> SUFFICES ASSUME CountInv, DecisionInv, [Next]_vars PROVE DecisionInv'
  OBVIOUS
<1>t. TypeOK
  BY DEF CountInv
<1> USE DEF requestVars, workerVars, Goto
<1>h. workerVars' = workerVars => HandedOver' = HandedOver
  BY DEF HandedOver, Sent, Running
<1>1. ASSUME NEW r \in Requests, NEW n \in 0..MaxTasks, HandlerReturns(r, n) PROVE DecisionInv'
  <2>1. \A q \in Requests : \A i \in 1..Len(tasks'[q]) : tasks'[q][i][1] = q
    BY <1>t, <1>1 DEF HandlerReturns, DecisionInv, TypeOK
  <2> QED
    BY <1>t, <1>h, <1>1, <2>1, NothingHandedOver DEF HandlerReturns, DecisionInv, TypeOK
<1>2. ASSUME NEW r \in Requests, HandlerFails(r) PROVE DecisionInv'
  BY <1>t, <1>h, <1>2, NothingHandedOver DEF HandlerFails, DecisionInv, TypeOK
<1>3. ASSUME NEW r \in Requests, NEW ok \in BOOLEAN, CommitRequest(r, ok) PROVE DecisionInv'
  <2>1. \A q \in Requests : \A i \in 1..Len(tasks'[q]) : tasks'[q][i][1] = q
    BY <1>t, <1>3 DEF CommitRequest, DecisionInv, TypeOK
  <2>2. \A q \in Requests : phase'[q] \in {"idle", "sending", "counted", "done"} => trx'[q] # "open"
    BY <1>t, <1>3 DEF CommitRequest, TrxCommit, DecisionInv, TypeOK
  <2> QED
    BY <1>t, <1>h, <1>3, <2>1, <2>2, NothingHandedOver DEF CommitRequest, DecisionInv, TypeOK
<1>4. ASSUME NEW r \in Requests, NEW ok \in BOOLEAN, ReleaseEarly(r, ok) PROVE DecisionInv'
  BY <1>t, <1>h, <1>4, NothingHandedOver DEF ReleaseEarly, TrxCommit, DecisionInv, TypeOK
<1>5. ASSUME NEW r \in Requests, StopServing(r) PROVE DecisionInv'
  BY <1>t, <1>h, <1>5, NothingHandedOver DEF StopServing, DecisionInv, TypeOK
<1>6. ASSUME NEW r \in Requests, CountTask(r) PROVE DecisionInv'
  <2>1. HandedOver' = HandedOver
    BY <1>6 DEF CountTask, HandedOver, Sent, Running
  <2> QED
    BY <1>t, <1>6, <2>1, NothingHandedOver DEF CountTask, DecisionInv, TypeOK
<1>7. ASSUME NEW r \in Requests, SendTask(r) PROVE DecisionInv'
  <2>1. tasks[r] # << >> /\ Head(tasks[r])[1] = r
    BY <1>t, <1>7 DEF SendTask, CountInv, SendersHoldATask, DecisionInv, TypeOK
  <2>2. Sent' = Sent \cup {Head(tasks[r])}
    <3>1. tasks[r] \in Seq(Task) /\ queue \in Seq(Task)
      BY <1>t DEF TypeOK
    <3>2. Head(tasks[r]) \in Task
      BY <2>1, <3>1
    <3> QED
      BY <1>7, <3>1, <3>2, SentOnAppend DEF SendTask, Sent
  <2>3. HandedOver' = HandedOver \cup {Head(tasks[r])}
    BY <1>7, <2>2 DEF SendTask, HandedOver, Running
  <2>4. \A q \in Requests : \A i \in 1..Len(tasks'[q]) : tasks'[q][i][1] = q
    BY <1>t, <1>7, <2>1 DEF SendTask, DecisionInv, TypeOK
  <2>5. \A q \in Requests : phase'[q] \in {"idle", "sending", "counted", "done"} => trx'[q] # "open"
    BY <1>t, <1>7 DEF SendTask, DecisionInv, TypeOK
  <2>6. \A t \in HandedOver' : t[1] \in Requests /\ phase'[t[1]] \in {"sending", "counted", "done"}
    BY <1>t, <1>7, <2>1, <2>3 DEF SendTask, DecisionInv, TypeOK
  <2> QED
    BY <2>4, <2>5, <2>6 DEF DecisionInv
<1>8. ASSUME NEW r \in Requests, Return(r) PROVE DecisionInv'
  BY <1>t, <1>h, <1>8, NothingHandedOver DEF Return, DecisionInv, TypeOK
<1>9. ASSUME NEW r \in Requests, Accept(r) PROVE DecisionInv'
  BY <1>t, <1>h, <1>9, NothingHandedOver DEF Accept, DecisionInv, TypeOK
<1>10. ASSUME NEW r \in Requests, NEW inner \in Requests, Replay(r, inner) PROVE DecisionInv'
  BY <1>t, <1>h, <1>10, NothingHandedOver DEF Replay, DecisionInv, TypeOK
<1>11. ASSUME NEW r \in Requests, Disconnect(r) \/ AbandonTrx(r) PROVE DecisionInv'
  BY <1>t, <1>h, <1>11, NothingHandedOver DEF Disconnect, AbandonTrx, DecisionInv, TypeOK
<1>12. ASSUME NEW w \in Workers, Receive(w) PROVE DecisionInv'
  <2>1. Head(queue) \in Sent /\ Sent' \subseteq Sent
    BY <1>t, <1>12, SentOnTail DEF Receive, Sent, TypeOK
  <2>2. Running' \subseteq Running \cup {Head(queue)}
    BY <1>t, <1>12 DEF Receive, Running, TypeOK
  <2>3. HandedOver' \subseteq HandedOver
    BY <1>12, <2>1, <2>2 DEF Receive, HandedOver
  <2> QED
    BY <1>t, <1>12, <2>3, NothingHandedOver DEF Receive, DecisionInv, TypeOK
<1>13. ASSUME NEW w \in Workers, FinishTask(w) PROVE DecisionInv'
  <2>1. Running' \subseteq Running /\ running[w] \in Running /\ Sent' = Sent
    BY <1>t, <1>13 DEF FinishTask, Running, Sent, TypeOK
  <2>2. HandedOver' \subseteq HandedOver
    BY <1>13, <2>1 DEF FinishTask, HandedOver
  <2> QED
    BY <1>t, <1>13, <2>2, NothingHandedOver DEF FinishTask, DecisionInv, TypeOK
<1>14. ASSUME StopStep \/ UNCHANGED vars PROVE DecisionInv'
  <2>1. UNCHANGED <<requestVars, workerVars>>
    BY <1>14 DEF StopStep, CloseServer, ServerDrained, WorkerDrained, StopFails, vars
  <2> QED
    BY <1>t, <1>h, <2>1, NothingHandedOver DEF DecisionInv
<1>15. ASSUME NEW r \in Requests, AcceptFails(r) PROVE DecisionInv'
  BY <1>t, <1>h, <1>15, NothingHandedOver DEF AcceptFails, DecisionInv, TypeOK
<1> QED
  BY <1>1, <1>2, <1>3, <1>4, <1>5, <1>6, <1>7, <1>8, <1>9, <1>10, <1>11, <1>12, <1>13, <1>14, <1>15
     DEF Next, RequestStep, Arrival, ClientStep, WorkerStep, Exited

\* No worker ever sees a task of a request whose transaction is still open.
THEOREM NoTaskBeforeItsTransaction == Spec => []NoTaskBeforeDecision
<1>1. Spec => []CountInv
  BY InitCount, StepCount, PTL DEF Spec
<1>2. Spec => []DecisionInv
  BY <1>1, InitDecision, StepDecision, PTL DEF Spec
<1>3. DecisionInv => NoTaskBeforeDecision
  BY DEF DecisionInv, NoTaskBeforeDecision, HandedOver
<1> QED
  BY <1>2, <1>3, PTL

-----------------------------------------------------------------------------
(* Every task in one place                                                 *)

\* Sending and receiving, element by element: what is left of a sequence whose
\* elements are distinct is what there was without its head.
LEMMA TailOfDistinct ==
  ASSUME NEW s \in Seq(Task), s # << >>,
         \A i, j \in 1..Len(s) : s[i] = s[j] => i = j
  PROVE  /\ {Tail(s)[i] : i \in 1..Len(Tail(s))} = {s[i] : i \in 1..Len(s)} \ {Head(s)}
         /\ Head(s) \in {s[i] : i \in 1..Len(s)}
         /\ \A i, j \in 1..Len(Tail(s)) : Tail(s)[i] = Tail(s)[j] => i = j
<1>1. /\ Len(Tail(s)) = Len(s) - 1 /\ Len(s) \in Nat \ {0}
      /\ \A i \in 1..Len(s) - 1 : Tail(s)[i] = s[i + 1]
      /\ Head(s) = s[1]
  OBVIOUS
<1>2. \A i \in 1..Len(Tail(s)) : Tail(s)[i] = s[i + 1] /\ i + 1 \in 1..Len(s) /\ i + 1 # 1
  BY <1>1
<1>3. \A i, j \in 1..Len(Tail(s)) : Tail(s)[i] = Tail(s)[j] => i = j
  BY <1>2
<1>4. \A i \in 1..Len(Tail(s)) : Tail(s)[i] # s[1]
  BY <1>1, <1>2
<1>5. \A i \in 1..Len(s) : i # 1 => i - 1 \in 1..Len(Tail(s)) /\ Tail(s)[i - 1] = s[i]
  BY <1>1, <1>2
<1>6. {Tail(s)[i] : i \in 1..Len(Tail(s))} = {s[i] : i \in 1..Len(s)} \ {Head(s)}
  BY <1>1, <1>2, <1>4, <1>5
<1>7. Head(s) \in {s[i] : i \in 1..Len(s)}
  BY <1>1
<1> QED
  BY <1>3, <1>6, <1>7

LEMMA DistinctOnAppend ==
  ASSUME NEW s \in Seq(Task), NEW t \in Task, t \notin {s[i] : i \in 1..Len(s)},
         \A i, j \in 1..Len(s) : s[i] = s[j] => i = j
  PROVE  \A i, j \in 1..Len(Append(s, t)) : Append(s, t)[i] = Append(s, t)[j] => i = j
<1>1. /\ Len(Append(s, t)) = Len(s) + 1
      /\ \A i \in 1..Len(s) : Append(s, t)[i] = s[i]
      /\ Append(s, t)[Len(s) + 1] = t
      /\ Len(s) \in Nat
  OBVIOUS
<1>2. \A i \in 1..Len(s) : s[i] # t
  OBVIOUS
<1> QED
  BY <1>1, <1>2

\* No two places of the channel, nor of a request's list, hold the same task.
PlacesAreDistinct ==
  /\ \A i, j \in 1..Len(queue) : queue[i] = queue[j] => i = j
  /\ \A r \in Requests : \A i, j \in 1..Len(tasks[r]) : tasks[r][i] = tasks[r][j] => i = j

\* RunOnce, in the form that a step preserves: the places a task may be in,
\* each without the others.
PlacesAreApart ==
  /\ Sent \cap performed = {}
  /\ \A w \in Workers : running[w] \notin Sent \cup performed
  /\ \A r \in Requests : Remaining(r) \cap HandedOver = {}
  /\ \A u, w \in Workers : running[u] = running[w] /\ running[u] # NoTask => u = w

OnceInv == PlacesAreDistinct /\ PlacesAreApart

LEMMA InitOnce == Init => OnceInv
BY DEF Init, OnceInv, PlacesAreDistinct, PlacesAreApart, HandedOver, Sent, Running, Remaining

\* A step that leaves the worker alone and adds no task to a request.
LEMMA NothingMoves ==
  ASSUME OnceInv, UNCHANGED <<queue, running, performed>>,
         \A r \in Requests : tasks'[r] = tasks[r] \/ tasks'[r] = << >>
  PROVE  OnceInv'
<1>1. Sent' = Sent /\ HandedOver' = HandedOver
  BY DEF Sent, HandedOver, Running
<1>2. \A r \in Requests : Remaining(r)' = Remaining(r) \/ Remaining(r)' = {}
  BY DEF Remaining
<1> QED
  BY <1>1, <1>2 DEF OnceInv, PlacesAreDistinct, PlacesAreApart

\* What DecisionInv says of one request: its tasks are its own, and none of
\* them left it before it began to send.
LEMMA OwnTasks ==
  ASSUME TypeOK, DecisionInv, NEW r \in Requests
  PROVE  /\ \A t \in Remaining(r) : t[1] = r /\ t \in Task
         /\ phase[r] \notin {"sending", "counted", "done"} => \A t \in HandedOver : t[1] # r
<1>1. tasks[r] \in Seq(Task)
  BY DEF TypeOK
<1>2. \A i \in 1..Len(tasks[r]) : tasks[r][i] \in Task
  BY <1>1
<1> QED
  BY <1>2 DEF DecisionInv, Remaining

LEMMA StepOnce == CountInv /\ DecisionInv /\ OnceInv /\ [Next]_vars => OnceInv'
<1> SUFFICES ASSUME CountInv, DecisionInv, OnceInv, [Next]_vars PROVE OnceInv'
  OBVIOUS
<1>t. TypeOK
  BY DEF CountInv
<1> USE DEF requestVars, workerVars, Goto
<1>1. ASSUME NEW r \in Requests, NEW n \in 0..MaxTasks, HandlerReturns(r, n) PROVE OnceInv'
  <2>1. /\ tasks'[r] = [i \in 1..n |-> <<r, i>>]
        /\ \A q \in Requests \ {r} : tasks'[q] = tasks[q]
        /\ UNCHANGED <<queue, running, performed>>
    BY <1>t, <1>1 DEF HandlerReturns, TypeOK
  <2>2. Len([i \in 1..n |-> <<r, i>>]) = n /\ n \in Nat
    BY PipelineAssumption
  <2>3. Sent' = Sent /\ HandedOver' = HandedOver
    BY <2>1 DEF Sent, HandedOver, Running
  <2>4. \A t \in HandedOver : t[1] # r
    BY <1>t, <1>1, OwnTasks DEF HandlerReturns
  <2>5. \A t \in Remaining(r)' : t[1] = r
    BY <2>1, <2>2 DEF Remaining
  <2>6. \A q \in Requests \ {r} : Remaining(q)' = Remaining(q)
    BY <2>1 DEF Remaining
  <2>7. PlacesAreApart'
    BY <2>1, <2>3, <2>4, <2>5, <2>6 DEF OnceInv, PlacesAreApart
  <2>8. \A i, j \in 1..Len(tasks'[r]) : tasks'[r][i] = tasks'[r][j] => i = j
    BY <2>1, <2>2
  <2>9. PlacesAreDistinct'
    BY <2>1, <2>8 DEF OnceInv, PlacesAreDistinct
  <2> QED
    BY <2>7, <2>9 DEF OnceInv
<1>2. ASSUME NEW r \in Requests, NEW ok \in BOOLEAN, CommitRequest(r, ok) PROVE OnceInv'
  BY <1>t, <1>2, NothingMoves DEF CommitRequest, TypeOK
<1>3. ASSUME NEW r \in Requests, SendTask(r) PROVE OnceInv'
  <2>1. tasks[r] # << >> /\ tasks[r] \in Seq(Task) /\ queue \in Seq(Task)
    BY <1>t, <1>3 DEF SendTask, CountInv, SendersHoldATask, TypeOK
  <2> DEFINE h == Head(tasks[r])
  <2>2. h \in Task
    BY <2>1
  <2>3. /\ Remaining(r)' = Remaining(r) \ {h} /\ h \in Remaining(r)
        /\ \A i, j \in 1..Len(tasks'[r]) : tasks'[r][i] = tasks'[r][j] => i = j
    <3>1. tasks'[r] = Tail(tasks[r])
      BY <1>t, <1>3 DEF SendTask, TypeOK
    <3>2. \A i, j \in 1..Len(tasks[r]) : tasks[r][i] = tasks[r][j] => i = j
      BY DEF OnceInv, PlacesAreDistinct
    <3>3. /\ {Tail(tasks[r])[i] : i \in 1..Len(Tail(tasks[r]))} = {tasks[r][i] : i \in 1..Len(tasks[r])} \ {h}
          /\ h \in {tasks[r][i] : i \in 1..Len(tasks[r])}
          /\ \A i, j \in 1..Len(Tail(tasks[r])) : Tail(tasks[r])[i] = Tail(tasks[r])[j] => i = j
      BY <2>1, <3>2, TailOfDistinct
    <3> QED
      BY <3>1, <3>3 DEF Remaining
  <2>4. \A q \in Requests \ {r} : tasks'[q] = tasks[q] /\ Remaining(q)' = Remaining(q)
    BY <1>t, <1>3 DEF SendTask, TypeOK, Remaining
  <2>5. Sent' = Sent \cup {h}
    BY <1>3, <2>1, <2>2, SentOnAppend DEF SendTask, Sent
  <2>6. HandedOver' = HandedOver \cup {h}
    BY <1>3, <2>5 DEF SendTask, HandedOver, Running
  <2>7. h \notin HandedOver /\ h[1] = r
    BY <1>t, <2>3, OwnTasks DEF OnceInv, PlacesAreApart
  <2>8. \A q \in Requests \ {r} : h \notin Remaining(q)
    BY <1>t, <2>7, OwnTasks
  <2>9. \A w \in Workers : running[w] # h
    BY <2>2, <2>7, NoTaskAssumption DEF HandedOver, Running
  <2>10. PlacesAreApart'
    <3>1. Sent' \cap performed' = {}
      BY <1>3, <2>5, <2>7 DEF SendTask, HandedOver, OnceInv, PlacesAreApart
    <3>2. \A w \in Workers : running'[w] \notin Sent' \cup performed'
      BY <1>3, <2>5, <2>9 DEF SendTask, OnceInv, PlacesAreApart
    <3>3. \A q \in Requests : Remaining(q)' \cap HandedOver' = {}
      BY <2>3, <2>4, <2>6, <2>8 DEF OnceInv, PlacesAreApart
    <3> QED
      BY <1>3, <3>1, <3>2, <3>3 DEF SendTask, OnceInv, PlacesAreApart
  <2>11. PlacesAreDistinct'
    <3>1. h \notin Sent
      BY <2>7 DEF HandedOver
    <3>2. \A i, j \in 1..Len(queue') : queue'[i] = queue'[j] => i = j
      BY <1>3, <2>1, <2>2, <3>1, DistinctOnAppend DEF SendTask, Sent, OnceInv, PlacesAreDistinct
    <3> QED
      BY <2>3, <2>4, <3>2 DEF OnceInv, PlacesAreDistinct
  <2> QED
    BY <2>10, <2>11 DEF OnceInv
<1>4. ASSUME NEW w \in Workers, Receive(w) PROVE OnceInv'
  <2> DEFINE h == Head(queue)
  <2>1. queue \in Seq(Task) /\ queue # << >>
    BY <1>t, <1>4 DEF Receive, TypeOK
  <2>2. h \in Task
    BY <2>1
  <2>3. /\ Sent' = Sent \ {h} /\ h \in Sent
        /\ \A i, j \in 1..Len(queue') : queue'[i] = queue'[j] => i = j
    <3>1. \A i, j \in 1..Len(queue) : queue[i] = queue[j] => i = j
      BY DEF OnceInv, PlacesAreDistinct
    <3>2. /\ {Tail(queue)[i] : i \in 1..Len(Tail(queue))} = {queue[i] : i \in 1..Len(queue)} \ {h}
          /\ h \in {queue[i] : i \in 1..Len(queue)}
          /\ \A i, j \in 1..Len(Tail(queue)) : Tail(queue)[i] = Tail(queue)[j] => i = j
      BY <2>1, <3>1, TailOfDistinct
    <3> QED
      BY <1>4, <3>2 DEF Receive, Sent
  <2>4. \A u \in Workers : running'[u] = IF u = w THEN h ELSE running[u]
    BY <1>t, <1>4 DEF Receive, TypeOK
  <2>5. HandedOver' \subseteq HandedOver
    BY <1>4, <2>3, <2>4 DEF Receive, HandedOver, Running
  <2>6. \A r \in Requests : Remaining(r)' = Remaining(r)
    BY <1>4 DEF Receive, Remaining
  <2>7. h \notin performed /\ \A u \in Workers : running[u] # h
    BY <2>3 DEF OnceInv, PlacesAreApart
  <2>8. PlacesAreApart'
    <3>1. Sent' \cap performed' = {}
      BY <1>4, <2>3 DEF Receive, OnceInv, PlacesAreApart
    <3>2. \A u \in Workers : running'[u] \notin Sent' \cup performed'
      BY <1>4, <2>3, <2>4, <2>7 DEF Receive, OnceInv, PlacesAreApart
    <3>3. \A r \in Requests : Remaining(r)' \cap HandedOver' = {}
      BY <2>5, <2>6 DEF OnceInv, PlacesAreApart
    <3>4. \A u, v \in Workers : running'[u] = running'[v] /\ running'[u] # NoTask => u = v
      BY <2>4, <2>7 DEF OnceInv, PlacesAreApart
    <3> QED
      BY <3>1, <3>2, <3>3, <3>4 DEF PlacesAreApart
  <2>9. PlacesAreDistinct'
    BY <1>4, <2>3 DEF Receive, OnceInv, PlacesAreDistinct
  <2> QED
    BY <2>8, <2>9 DEF OnceInv
<1>5. ASSUME NEW w \in Workers, FinishTask(w) PROVE OnceInv'
  <2>1. \A u \in Workers : running'[u] = IF u = w THEN NoTask ELSE running[u]
    BY <1>t, <1>5 DEF FinishTask, TypeOK
  <2>2. Sent' = Sent /\ running[w] \in HandedOver
    BY <1>5 DEF FinishTask, Sent, HandedOver, Running
  <2>3. HandedOver' \subseteq HandedOver
    BY <1>5, <2>1, <2>2 DEF FinishTask, HandedOver, Running
  <2>4. NoTask \notin Sent /\ NoTask \notin performed
    <3>1. \A i \in 1..Len(queue) : queue[i] \in Task
      BY <1>t DEF TypeOK
    <3> QED
      BY <1>t, <3>1, NoTaskAssumption DEF Sent, TypeOK
  <2>5. \A r \in Requests : Remaining(r)' = Remaining(r)
    BY <1>5 DEF FinishTask, Remaining
  <2>6. running[w] \in Task
    BY <1>t, <1>5 DEF FinishTask, TypeOK
  <2>7. PlacesAreApart'
    <3>1. Sent' \cap performed' = {}
      BY <1>5, <2>2 DEF FinishTask, OnceInv, PlacesAreApart
    <3>2. \A u \in Workers : running'[u] \notin Sent' \cup performed'
      BY <1>5, <2>1, <2>2, <2>4, <2>6, NoTaskAssumption DEF FinishTask, OnceInv, PlacesAreApart
    <3>3. \A r \in Requests : Remaining(r)' \cap HandedOver' = {}
      BY <2>3, <2>5 DEF OnceInv, PlacesAreApart
    <3>4. \A u, v \in Workers : running'[u] = running'[v] /\ running'[u] # NoTask => u = v
      BY <2>1 DEF OnceInv, PlacesAreApart
    <3> QED
      BY <3>1, <3>2, <3>3, <3>4 DEF PlacesAreApart
  <2>8. PlacesAreDistinct'
    BY <1>5 DEF FinishTask, OnceInv, PlacesAreDistinct
  <2> QED
    BY <2>7, <2>8 DEF OnceInv
<1>6. ASSUME UNCHANGED <<tasks, queue, running, performed>> PROVE OnceInv'
  BY <1>6, NothingMoves
<1>7. ASSUME NEW r \in Requests,
             \/ HandlerFails(r) \/ StopServing(r) \/ CountTask(r) \/ Return(r)
             \/ Arrival(r) \/ ClientStep(r)
             \/ \E ok \in BOOLEAN : ReleaseEarly(r, ok)
      PROVE  OnceInv'
  BY <1>6, <1>7 DEF HandlerFails, StopServing, CountTask, Return, Arrival, Accept, AcceptFails,
                    Replay, ClientStep, Disconnect, AbandonTrx, ReleaseEarly
<1>8. ASSUME StopStep \/ Exited \/ UNCHANGED vars PROVE OnceInv'
  BY <1>6, <1>8 DEF StopStep, CloseServer, ServerDrained, WorkerDrained, StopFails, Exited, vars
<1> QED
  BY <1>1, <1>2, <1>3, <1>4, <1>5, <1>7, <1>8 DEF Next, RequestStep, WorkerStep

\* However requests and workers interleave, no task is in two places at once:
\* each is run by one worker at most, and never after it was performed.
THEOREM TasksRunOnce == Spec => []RunOnce
<1>1. Spec => []CountInv
  BY InitCount, StepCount, PTL DEF Spec
<1>2. Spec => []DecisionInv
  BY <1>1, InitDecision, StepDecision, PTL DEF Spec
<1>3. Spec => []OnceInv
  BY <1>1, <1>2, InitOnce, StepOnce, PTL DEF Spec
<1>4. TypeOK /\ DecisionInv /\ OnceInv => RunOnce
  <2> SUFFICES ASSUME TypeOK, DecisionInv, OnceInv PROVE RunOnce
    OBVIOUS
  <2>1. \A t \in HandedOver : t[1] \in Requests
    BY DEF DecisionInv
  <2>2. \A t \in HandedOver : t \notin Remaining(t[1])
    BY <2>1 DEF OnceInv, PlacesAreApart
  <2>3. \A t \in Running : t \notin Sent \cup performed
    BY DEF Running, OnceInv, PlacesAreApart
  <2> QED
    BY <2>2, <2>3 DEF RunOnce, HandedOver, OnceInv, PlacesAreApart
<1>5. CountInv => TypeOK
  BY DEF CountInv
<1> QED
  BY <1>1, <1>2, <1>3, <1>4, <1>5, PTL

-----------------------------------------------------------------------------
(* Pipeline implements TaskDelivery                                        *)

\* The tasks a request has been promised to be rid of.
Promised(r) == IF phase[r] \in {"sending", "counted"} THEN Remaining(r) ELSE {}

Owed == Sent \cup Running \cup UNION {Remaining(r) : r \in {q \in Requests : phase[q] \in {"sending", "counted"}}}

State == IF Up THEN "up" ELSE server

\* Everything the proof knows of a reachable state.
PipelineInv == CountInv /\ DrainInv /\ DecisionInv /\ OnceInv

LEMMA AlwaysPipelineInv == Spec => []PipelineInv
<1>1. Spec => []CountInv
  BY InitCount, StepCount, PTL DEF Spec
<1>2. Spec => []DecisionInv
  BY <1>1, InitDecision, StepDecision, PTL DEF Spec
<1>3. Spec => []OnceInv
  BY <1>1, <1>2, InitOnce, StepOnce, PTL DEF Spec
<1>4. CountInv => TypeOK
  BY DEF CountInv
<1>5. Spec => []DrainInv
  BY <1>1, <1>4, InitDrain, StepDrain, PTL DEF Spec
<1> QED
  BY <1>1, <1>2, <1>3, <1>5, PTL DEF PipelineInv

LEMMA OwedWhere ==
  /\ \A t : t \in Owed <=> t \in Sent \cup Running \/ \E r \in Requests : t \in Promised(r)
  /\ \A t : t \in Owed' <=> t \in Sent' \cup Running' \/ \E r \in Requests : t \in Promised(r)'
BY DEF Owed, Promised

\* A step of the pipeline that changes no promise, or leaves them all, is a
\* stutter of TaskDelivery.
LEMMA SamePromises ==
  ASSUME UNCHANGED <<queue, running, performed>>, State' = State,
         \A r \in Requests : Promised(r)' = Promised(r)
  PROVE  UNCHANGED Delivery!tdVars
<1>1. Sent' = Sent /\ Running' = Running
  BY DEF Sent, Running
<1>2. Owed' = Owed
  BY <1>1, OwedWhere
<1> QED
  BY <1>2 DEF Delivery!tdVars, Owed, State

LEMMA InitDelivers == Init => Delivery!TDInit
BY DEF Init, Delivery!TDInit, Sent, Running, Up

LEMMA StepDelivers == PipelineInv /\ [Next]_vars => [Delivery!TDNext]_Delivery!tdVars
<1> SUFFICES ASSUME PipelineInv, [Next]_vars PROVE [Delivery!TDNext]_Delivery!tdVars
  OBVIOUS
<1>t. TypeOK
  BY DEF PipelineInv, CountInv
<1> USE DEF requestVars, workerVars, Goto
<1>1. ASSUME NEW r \in Requests, CommitRequest(r, TRUE), Up PROVE Delivery!TDNext
  <2>1. /\ phase[r] = "finishing" /\ phase'[r] = "sending"
        /\ \A q \in Requests \ {r} : phase'[q] = phase[q]
        /\ UNCHANGED <<server, tasks, queue, running, performed>>
    BY <1>t, <1>1 DEF CommitRequest, TypeOK
  <2>2. Promised(r)' = Remaining(r) /\ Promised(r) = {}
    BY <2>1 DEF Promised, Remaining
  <2>3. \A q \in Requests \ {r} : Promised(q)' = Promised(q)
    BY <2>1 DEF Promised, Remaining
  <2>4. Sent' = Sent /\ Running' = Running
    BY <2>1 DEF Sent, Running
  <2>5. Owed' = Owed \cup Remaining(r)
    BY <2>2, <2>3, <2>4, OwedWhere
  <2>6. Remaining(r) \cap (Owed \cup performed) = {}
    <3>1. \A q \in Requests : \A t \in Remaining(q) : t[1] = q
      BY <1>t, OwnTasks DEF PipelineInv
    <3>2. \A t \in HandedOver : t[1] # r
      BY <1>t, <2>1, OwnTasks DEF PipelineInv
    <3>3. \A q \in Requests : \A t \in Promised(q) : t[1] = q /\ q # r
      BY <3>1, <2>2 DEF Promised
    <3> QED
      BY <3>1, <3>2, <3>3, OwedWhere DEF HandedOver
  <2>7. Remaining(r) \in SUBSET Task
    BY <1>t, OwnTasks DEF PipelineInv
  <2>8. Delivery!Promise(Remaining(r))
    BY <1>1, <2>1, <2>5, <2>6 DEF Delivery!Promise, Owed, Up
  <2> QED
    BY <2>7, <2>8 DEF Delivery!TDNext, Delivery!Promise
<1>2. ASSUME NEW r \in Requests, SendTask(r) PROVE UNCHANGED Delivery!tdVars
  <2>1. tasks[r] # << >> /\ tasks[r] \in Seq(Task) /\ queue \in Seq(Task)
    BY <1>t, <1>2 DEF SendTask, PipelineInv, CountInv, SendersHoldATask, TypeOK
  <2> DEFINE h == Head(tasks[r])
  <2>2. h \in Task
    BY <2>1
  <2>3. Remaining(r)' = Remaining(r) \ {h} /\ h \in Remaining(r)
    <3>1. tasks'[r] = Tail(tasks[r])
      BY <1>t, <1>2 DEF SendTask, TypeOK
    <3>2. \A i, j \in 1..Len(tasks[r]) : tasks[r][i] = tasks[r][j] => i = j
      BY DEF PipelineInv, OnceInv, PlacesAreDistinct
    <3>3. /\ {Tail(tasks[r])[i] : i \in 1..Len(Tail(tasks[r]))} = {tasks[r][i] : i \in 1..Len(tasks[r])} \ {h}
          /\ h \in {tasks[r][i] : i \in 1..Len(tasks[r])}
      BY <2>1, <3>2, TailOfDistinct
    <3> QED
      BY <3>1, <3>3 DEF Remaining
  <2>4. \A q \in Requests \ {r} : Promised(q)' = Promised(q)
    BY <1>t, <1>2 DEF SendTask, TypeOK, Promised, Remaining
  <2>5. Promised(r)' = Promised(r) \ {h} /\ h \in Promised(r)
    BY <1>t, <1>2, <2>3 DEF SendTask, TypeOK, Promised
  <2>6. Sent' = Sent \cup {h} /\ Running' = Running
    BY <1>2, <2>1, <2>2, SentOnAppend DEF SendTask, Sent, Running
  <2>7. Owed' = Owed
    <3>1. \A t : t \in Owed' => t \in Owed
      BY <2>4, <2>5, <2>6, OwedWhere
    <3>2. \A t : t \in Owed => t \in Owed'
      BY <2>4, <2>5, <2>6, OwedWhere
    <3> QED
      BY <3>1, <3>2
  <2> QED
    BY <1>2, <2>7 DEF SendTask, Delivery!tdVars, Owed, Up
<1>3. ASSUME NEW w \in Workers, Receive(w) PROVE UNCHANGED Delivery!tdVars
  <2> DEFINE h == Head(queue)
  <2>1. queue \in Seq(Task) /\ queue # << >>
    BY <1>t, <1>3 DEF Receive, TypeOK
  <2>2. h \in Task
    BY <2>1
  <2>3. Sent' = Sent \ {h} /\ h \in Sent
    <3>1. \A i, j \in 1..Len(queue) : queue[i] = queue[j] => i = j
      BY DEF PipelineInv, OnceInv, PlacesAreDistinct
    <3>2. /\ {Tail(queue)[i] : i \in 1..Len(Tail(queue))} = {queue[i] : i \in 1..Len(queue)} \ {h}
          /\ h \in {queue[i] : i \in 1..Len(queue)}
      BY <2>1, <3>1, TailOfDistinct
    <3> QED
      BY <1>3, <3>2 DEF Receive, Sent
  <2>4. \A u \in Workers : running'[u] = IF u = w THEN h ELSE running[u]
    BY <1>t, <1>3 DEF Receive, TypeOK
  <2>5. Running' = Running \cup {h}
    <3>1. running[w] = NoTask /\ h # NoTask
      BY <1>3, <2>2, NoTaskAssumption DEF Receive
    <3> QED
      BY <2>4, <3>1 DEF Running
  <2>6. \A q \in Requests : Promised(q)' = Promised(q)
    BY <1>3 DEF Receive, Promised, Remaining
  <2>7. Owed' = Owed
    <3>1. \A t : t \in Owed' => t \in Owed
      BY <2>3, <2>5, <2>6, OwedWhere
    <3>2. \A t : t \in Owed => t \in Owed'
      BY <2>3, <2>5, <2>6, OwedWhere
    <3> QED
      BY <3>1, <3>2
  <2> QED
    BY <1>3, <2>7 DEF Receive, Delivery!tdVars, Owed, Up
<1>4. ASSUME NEW w \in Workers, FinishTask(w), Up PROVE Delivery!TDNext
  <2> DEFINE t == running[w]
  <2>1. t \in Task /\ t \in Running /\ t # NoTask
    BY <1>t, <1>4 DEF FinishTask, TypeOK, Running
  <2>2. \A u \in Workers : running'[u] = IF u = w THEN NoTask ELSE running[u]
    BY <1>t, <1>4 DEF FinishTask, TypeOK
  <2>3. \A u \in Workers : running[u] = t => u = w
    BY <2>1 DEF PipelineInv, OnceInv, PlacesAreApart
  <2>4. Running' = Running \ {t}
    BY <2>2, <2>3 DEF Running
  <2>5. Sent' = Sent /\ t \notin Sent
    BY <1>4 DEF FinishTask, Sent, PipelineInv, OnceInv, PlacesAreApart
  <2>6. \A q \in Requests : Promised(q)' = Promised(q) /\ t \notin Promised(q)
    BY <1>4, <2>1 DEF FinishTask, Promised, Remaining, HandedOver, PipelineInv, OnceInv, PlacesAreApart
  <2>7. Owed' = Owed \ {t} /\ t \in Owed
    BY <2>1, <2>4, <2>5, <2>6, OwedWhere
  <2>8. Delivery!Perform(t)
    BY <1>4, <2>7 DEF FinishTask, Delivery!Perform, Owed, Up
  <2> QED
    BY <2>1, <2>8 DEF Delivery!TDNext, Delivery!Perform
<1>5. ASSUME WorkerDrained PROVE Delivery!TDNext
  <2>1. /\ server = "waiting" /\ len = 0 /\ server' = "stopped"
        /\ UNCHANGED <<phase, tasks, queue, running, performed>>
    BY <1>5 DEF WorkerDrained
  <2>2. \A r \in Requests : ~InFlight(r)
    BY <2>1 DEF PipelineInv, DrainInv, DrainedIsQuiet
  <2>3. queue = << >> /\ \A w \in Workers : running[w] = NoTask
    <3>1. Len(queue) = 0 /\ Cardinality(Busy) = 0
      BY <1>t, <2>1, FiniteCounts DEF PipelineInv, CountInv, CountIsExact, TypeOK
    <3>2. queue = << >>
      BY <1>t, <3>1 DEF TypeOK
    <3>3. Busy = {}
      BY <3>1, FiniteCounts, FS_EmptySet
    <3> QED
      BY <3>2, <3>3 DEF Busy
  <2>4. Sent = {} /\ Running = {}
    BY <2>3 DEF Sent, Running
  <2>5. \A r \in Requests : Promised(r) = {}
    BY <2>2 DEF Promised, InFlight
  <2>6. Owed = {} /\ Owed' = Owed
    <3>1. Sent' = Sent /\ Running' = Running /\ \A r \in Requests : Promised(r)' = Promised(r)
      BY <2>1 DEF Sent, Running, Promised, Remaining
    <3> QED
      BY <2>4, <2>5, <3>1, OwedWhere
  <2>7. Delivery!StopCleanly
    BY <2>1, <2>6 DEF Delivery!StopCleanly, Owed, Up
  <2> QED
    BY <2>7 DEF Delivery!TDNext
<1>6. ASSUME StopFails PROVE Delivery!TDNext
  <2>1. Owed' = Owed
    <3>1. Sent' = Sent /\ Running' = Running /\ \A r \in Requests : Promised(r)' = Promised(r)
      BY <1>6 DEF StopFails, Sent, Running, Promised, Remaining
    <3> QED
      BY <3>1, OwedWhere
  <2>2. Delivery!GiveUp
    BY <1>6, <2>1 DEF StopFails, Delivery!GiveUp, Owed, Up
  <2> QED
    BY <2>2 DEF Delivery!TDNext
<1>7. ASSUME NEW r \in Requests, NEW n \in 0..MaxTasks, HandlerReturns(r, n) PROVE UNCHANGED Delivery!tdVars
  <2>1. \A q \in Requests : Promised(q)' = Promised(q)
    BY <1>t, <1>7 DEF HandlerReturns, TypeOK, Promised, Remaining
  <2> QED
    BY <1>7, <2>1, SamePromises DEF HandlerReturns, State, Up
<1>8. ASSUME NEW r \in Requests, CommitRequest(r, FALSE) PROVE UNCHANGED Delivery!tdVars
  <2>1. \A q \in Requests : Promised(q)' = Promised(q)
    BY <1>t, <1>8 DEF CommitRequest, TypeOK, Promised, Remaining
  <2> QED
    BY <1>8, <2>1, SamePromises DEF CommitRequest, State, Up
<1>9. ASSUME NEW r \in Requests, CountTask(r) \/ Return(r) PROVE UNCHANGED Delivery!tdVars
  <2>1. \A q \in Requests : Promised(q)' = Promised(q)
    <3>1. CASE CountTask(r)
      BY <1>t, <3>1 DEF CountTask, TypeOK, Promised, Remaining
    <3>2. CASE Return(r)
      <4>1. Promised(r) = {} /\ Promised(r)' = {}
        BY <1>t, <3>2 DEF Return, TypeOK, Promised, Remaining
      <4>2. \A q \in Requests \ {r} : Promised(q)' = Promised(q)
        BY <1>t, <3>2 DEF Return, TypeOK, Promised, Remaining
      <4> QED
        BY <4>1, <4>2
    <3> QED
      BY <1>9, <3>1, <3>2
  <2> QED
    BY <1>9, <2>1, SamePromises DEF CountTask, Return, State, Up
<1>10. ASSUME NEW r \in Requests,
              \/ HandlerFails(r) \/ StopServing(r) \/ Accept(r) \/ AcceptFails(r) \/ ClientStep(r)
              \/ \E ok \in BOOLEAN : ReleaseEarly(r, ok)
       PROVE  UNCHANGED Delivery!tdVars
  <2>1. \A q \in Requests : Promised(q)' = Promised(q)
    <3>1. tasks' = tasks /\ \A q \in Requests \ {r} : phase'[q] = phase[q]
      BY <1>t, <1>10 DEF HandlerFails, StopServing, Accept, AcceptFails, ClientStep, Disconnect, AbandonTrx,
                        ReleaseEarly, TypeOK
    <3>2. phase'[r] = phase[r] \/ {phase[r], phase'[r]} \cap {"sending", "counted"} = {}
      BY <1>t, <1>10 DEF HandlerFails, StopServing, Accept, AcceptFails, ClientStep, Disconnect, AbandonTrx,
                        ReleaseEarly, TypeOK
    <3> QED
      BY <3>1, <3>2 DEF Promised, Remaining
  <2>2. UNCHANGED <<server, queue, running, performed>>
    BY <1>10 DEF HandlerFails, StopServing, Accept, AcceptFails, ClientStep, Disconnect, AbandonTrx,
                 ReleaseEarly
  <2> QED
    BY <2>1, <2>2, SamePromises DEF State, Up
<1>11. ASSUME NEW r \in Requests, NEW inner \in Requests, Replay(r, inner) PROVE UNCHANGED Delivery!tdVars
  <2>1. \A q \in Requests : Promised(q)' = Promised(q)
    BY <1>t, <1>11 DEF Replay, TypeOK, Promised, Remaining
  <2> QED
    BY <1>11, <2>1, SamePromises DEF Replay, State, Up
<1>12. ASSUME CloseServer \/ ServerDrained \/ UNCHANGED vars PROVE UNCHANGED Delivery!tdVars
  <2>1. \A q \in Requests : Promised(q)' = Promised(q)
    BY <1>12 DEF CloseServer, ServerDrained, vars, Promised, Remaining
  <2> QED
    BY <1>12, <2>1, SamePromises DEF CloseServer, ServerDrained, vars, State, Up
<1> QED
  BY <1>1, <1>2, <1>3, <1>4, <1>5, <1>6, <1>7, <1>8, <1>9, <1>10, <1>11, <1>12
     DEF Next, RequestStep, Arrival, WorkerStep, StopStep, Exited

\* The web engine and its worker implement TaskDelivery: every task a request
\* hands over is owed until one worker has run it, once, and Stop reports
\* success only when nothing is owed.
THEOREM PipelineDelivers == Spec => KeepsDeliveryPromise
<1>1. Spec => []PipelineInv
  BY AlwaysPipelineInv
<1> QED
  BY <1>1, InitDelivers, StepDelivers, PTL DEF Spec, KeepsDeliveryPromise, Delivery!TDSpec

-----------------------------------------------------------------------------
(* Why tasks can be of a request whose changes are undone                  *)

\* A transaction ends undone only under a request whose client went away, or
\* one that fails and has nothing to hand over.
UndoneIsGone(r) == trx[r] = "committed" \/ (trx[r] = "rolledback" /\ gone[r])

CauseInv ==
  /\ \A r \in Requests : phase[r] \in {"handling", "serving", "finishing"} => trx[r] = "open" \/ UndoneIsGone(r)
  /\ \A r \in Requests : phase[r] \in {"sending", "counted"} => UndoneIsGone(r)
  /\ \A t \in HandedOver : UndoneIsGone(t[1])

LEMMA InitCause == Init => CauseInv
BY DEF Init, CauseInv, HandedOver, Sent, Running

\* What is handed over is handed over by a request that still is as it was.
LEMMA CauseKept ==
  ASSUME CauseInv, DecisionInv, HandedOver' \subseteq HandedOver,
         \A r \in Requests : UndoneIsGone(r) => UndoneIsGone(r)',
         \A r \in Requests : phase'[r] \in {"handling", "serving", "finishing"} => trx'[r] = "open" \/ UndoneIsGone(r)',
         \A r \in Requests : phase'[r] \in {"sending", "counted"} => UndoneIsGone(r)'
  PROVE  CauseInv'
<1>1. \A t \in HandedOver' : UndoneIsGone(t[1])'
  BY DEF CauseInv, DecisionInv
<1> QED
  BY <1>1 DEF CauseInv

LEMMA StepCause == CountInv /\ DecisionInv /\ CauseInv /\ [Next]_vars => CauseInv'
<1> SUFFICES ASSUME CountInv, DecisionInv, CauseInv, [Next]_vars PROVE CauseInv'
  OBVIOUS
<1>t. TypeOK
  BY DEF CountInv
<1> USE DEF requestVars, workerVars, Goto
<1>h. workerVars' = workerVars => HandedOver' = HandedOver
  BY DEF HandedOver, Sent, Running
<1>1. ASSUME NEW r \in Requests, NEW n \in 0..MaxTasks, HandlerReturns(r, n) PROVE CauseInv'
  BY <1>t, <1>h, <1>1, CauseKept DEF HandlerReturns, CauseInv, UndoneIsGone, TypeOK
\* A request whose handler fails has not handed over anything.
<1>2. ASSUME NEW r \in Requests, HandlerFails(r) PROVE CauseInv'
  <2>1. \A t \in HandedOver : t[1] # r
    BY <1>2 DEF HandlerFails, DecisionInv
  <2>2. \A t \in HandedOver' : UndoneIsGone(t[1])'
    BY <1>t, <1>h, <1>2, <2>1 DEF HandlerFails, CauseInv, DecisionInv, UndoneIsGone, TypeOK
  <2> QED
    BY <1>t, <1>2, <2>2 DEF HandlerFails, CauseInv, UndoneIsGone, TypeOK
<1>3. ASSUME NEW r \in Requests, NEW ok \in BOOLEAN, CommitRequest(r, ok) PROVE CauseInv'
  BY <1>t, <1>h, <1>3, CauseKept DEF CommitRequest, TrxCommit, CauseInv, UndoneIsGone, TypeOK
<1>4. ASSUME NEW r \in Requests, NEW ok \in BOOLEAN, ReleaseEarly(r, ok) PROVE CauseInv'
  BY <1>t, <1>h, <1>4, CauseKept DEF ReleaseEarly, TrxCommit, CauseInv, UndoneIsGone, TypeOK
<1>5. ASSUME NEW r \in Requests, StopServing(r) \/ Return(r) \/ AcceptFails(r) PROVE CauseInv'
  BY <1>t, <1>h, <1>5, CauseKept DEF StopServing, Return, AcceptFails, CauseInv, UndoneIsGone, TypeOK
<1>6. ASSUME NEW r \in Requests, CountTask(r) PROVE CauseInv'
  <2>1. HandedOver' = HandedOver
    BY <1>6 DEF CountTask, HandedOver, Sent, Running
  <2> QED
    BY <1>t, <1>6, <2>1, CauseKept DEF CountTask, CauseInv, UndoneIsGone, TypeOK
<1>7. ASSUME NEW r \in Requests, SendTask(r) PROVE CauseInv'
  <2>1. tasks[r] # << >> /\ Head(tasks[r])[1] = r
    BY <1>t, <1>7 DEF SendTask, CountInv, SendersHoldATask, DecisionInv, TypeOK
  <2>2. Sent' = Sent \cup {Head(tasks[r])}
    <3>1. tasks[r] \in Seq(Task) /\ queue \in Seq(Task)
      BY <1>t DEF TypeOK
    <3>2. Head(tasks[r]) \in Task
      BY <2>1, <3>1
    <3> QED
      BY <1>7, <3>1, <3>2, SentOnAppend DEF SendTask, Sent
  <2>3. HandedOver' = HandedOver \cup {Head(tasks[r])}
    BY <1>7, <2>2 DEF SendTask, HandedOver, Running
  <2>4. UndoneIsGone(r) /\ trx' = trx /\ gone' = gone
    BY <1>7 DEF SendTask, CauseInv
  <2>5. \A t \in HandedOver' : UndoneIsGone(t[1])'
    BY <2>1, <2>3, <2>4 DEF CauseInv, UndoneIsGone
  <2> QED
    BY <1>t, <1>7, <2>4, <2>5 DEF SendTask, CauseInv, UndoneIsGone, TypeOK
<1>8. ASSUME NEW r \in Requests, NEW inner \in Requests, Accept(r) \/ Replay(r, inner) PROVE CauseInv'
  <2>1. PICK q \in Requests : /\ phase[q] = "idle" /\ phase' = [phase EXCEPT ![q] = "handling"]
                              /\ trx' = [trx EXCEPT ![q] = "open"] /\ gone' = gone /\ workerVars' = workerVars
    BY <1>8 DEF Accept, Replay
  <2>2. \A t \in HandedOver : t[1] # q
    BY <2>1 DEF DecisionInv
  <2>3. \A t \in HandedOver' : UndoneIsGone(t[1])'
    BY <1>t, <1>h, <2>1, <2>2 DEF CauseInv, DecisionInv, UndoneIsGone, TypeOK
  <2> QED
    BY <1>t, <2>1, <2>3 DEF CauseInv, UndoneIsGone, TypeOK
<1>9. ASSUME NEW r \in Requests, Disconnect(r) \/ AbandonTrx(r) PROVE CauseInv'
  BY <1>t, <1>h, <1>9, CauseKept DEF Disconnect, AbandonTrx, CauseInv, UndoneIsGone, TypeOK
<1>10. ASSUME NEW w \in Workers, Receive(w) PROVE CauseInv'
  <2>1. Head(queue) \in Sent /\ Sent' \subseteq Sent
    BY <1>t, <1>10, SentOnTail DEF Receive, Sent, TypeOK
  <2>2. Running' \subseteq Running \cup {Head(queue)}
    BY <1>t, <1>10 DEF Receive, Running, TypeOK
  <2>3. HandedOver' \subseteq HandedOver
    BY <1>10, <2>1, <2>2 DEF Receive, HandedOver
  <2> QED
    BY <1>10, <2>3, CauseKept DEF Receive, CauseInv, UndoneIsGone
<1>11. ASSUME NEW w \in Workers, FinishTask(w) PROVE CauseInv'
  <2>1. Running' \subseteq Running /\ running[w] \in Running /\ Sent' = Sent
    BY <1>t, <1>11 DEF FinishTask, Running, Sent, TypeOK
  <2>2. HandedOver' \subseteq HandedOver
    BY <1>11, <2>1 DEF FinishTask, HandedOver
  <2> QED
    BY <1>11, <2>2, CauseKept DEF FinishTask, CauseInv, UndoneIsGone
<1>12. ASSUME StopStep \/ UNCHANGED vars PROVE CauseInv'
  <2>1. UNCHANGED <<requestVars, workerVars>>
    BY <1>12 DEF StopStep, CloseServer, ServerDrained, WorkerDrained, StopFails, vars
  <2> QED
    BY <1>h, <2>1, CauseKept DEF CauseInv, UndoneIsGone
<1> QED
  BY <1>1, <1>2, <1>3, <1>4, <1>5, <1>6, <1>7, <1>8, <1>9, <1>10, <1>11, <1>12
     DEF Next, RequestStep, Arrival, ClientStep, WorkerStep, Exited

\* Tasks are handed over without their changes (run pipeline_rollback) for one
\* reason only: the client went away before the transaction was committed.
THEOREM OnlyTheGoneAreUndone ==
  Spec => [](\A t \in HandedOver : trx[t[1]] = "committed" \/ (trx[t[1]] = "rolledback" /\ gone[t[1]]))
<1>1. Spec => []CountInv
  BY InitCount, StepCount, PTL DEF Spec
<1>2. Spec => []DecisionInv
  BY <1>1, InitDecision, StepDecision, PTL DEF Spec
<1>3. Spec => []CauseInv
  BY <1>1, <1>2, InitCause, StepCause, PTL DEF Spec
<1>4. CauseInv => \A t \in HandedOver : trx[t[1]] = "committed" \/ (trx[t[1]] = "rolledback" /\ gone[t[1]])
  BY DEF CauseInv, UndoneIsGone
<1> QED
  BY <1>3, <1>4, PTL
===============================================================================
