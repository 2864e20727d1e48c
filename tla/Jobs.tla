--------------------------------- MODULE Jobs ---------------------------------
(***************************************************************************)
(* The scheduled job runner (jobs/job.go) on several servers that share    *)
(* one database.  Every server's cron starts the job at every tick, each   *)
(* time in a goroutine of its own; a transaction-level advisory lock keyed *)
(* by the job's name decides who runs it.  The lock lives exactly as long  *)
(* as the run's transaction.  The time of the last successful run is       *)
(* written by a transaction of its own, while the job's is still open;     *)
(* that of the last failed run, which nobody reads, is left out.           *)
(*                                                                         *)
(* The job is EmailSupressionJob, the one that depends on that time: it    *)
(* asks the mail provider for the addresses that bounced since then and    *)
(* marks their accounts, in the job's transaction.  The provider is a      *)
(* growing set of bounces, each with the second it was recorded at.  With  *)
(* no successful run yet it asks for the last two days, which is longer    *)
(* than any behaviour of the model lasts.                                  *)
(***************************************************************************)
EXTENDS Integers, FiniteSets

CONSTANTS
  Servers,      \* processes running the same schedule
  Bounces,      \* addresses that may bounce
  Period,       \* seconds from one tick to the next
  MaxTicks,     \* bound: number of ticks
  MaxCrashes,   \* bound: server crashes
  Punctual,     \* TRUE: a run asks for the lock in the second of its tick
  NoRun         \* the lock is free

ASSUME JobsAssumption ==
  /\ IsFiniteSet(Servers) /\ IsFiniteSet(Bounces)
  /\ Period \in Nat \ {0} /\ MaxTicks \in Nat /\ MaxCrashes \in Nat
  /\ Punctual \in BOOLEAN

Runs == Servers \X (1..MaxTicks)

ASSUME NoRunAssumption == NoRun \notin Runs

Server(r) == r[1]
Due(r) == r[2] * Period
MaxTime == (MaxTicks + 1) * Period

VARIABLES
  now,          \* the time in seconds
  up,           \* up[s]: the server's process runs
  crashes,      \* how many crashes there were
  bounced,      \* provider: the second each address bounced at, 0 if it has not
  pc,           \* pc[r]: where the run is
  start,        \* start[r]: time.Now() at its beginning
  since,        \* since[r]: Context.LastSuccessfulRun; 0: none recorded
  marking,      \* marking[r]: the addresses its open transaction marks
  lock,         \* the run whose transaction holds the advisory lock
  lastSuccess,  \* jobs.<name>.last_successful_run
  suppressed,   \* the accounts marked in the database
  cutShort      \* history: what runs had marked that ended between writing lastSuccess and committing

vars == <<now, up, crashes, bounced, pc, start, since, marking, lock,
          lastSuccess, suppressed, cutShort>>
worldVars == <<now, up, crashes, bounced>>
localVars == <<start, since, marking>>
dbVars == <<lock, lastSuccess, suppressed>>

Holding == {"locked", "ran", "errored", "panicked", "marked"}
Running == {"begun", "read"} \cup Holding
NotExecuted == {"due", "begun", "read", "skipped"}

TypeOK ==
  /\ now \in 1..MaxTime
  /\ up \in [Servers -> BOOLEAN]
  /\ crashes \in 0..MaxCrashes
  /\ bounced \in [Bounces -> 0..MaxTime]
  /\ pc \in [Runs -> {"due", "skipped", "over"} \cup Running]
  /\ start \in [Runs -> 0..MaxTime]
  /\ since \in [Runs -> 0..MaxTime]
  /\ marking \in [Runs -> SUBSET Bounces]
  /\ lock \in Runs \cup {NoRun}
  /\ lastSuccess \in 0..MaxTime
  /\ suppressed \in SUBSET Bounces
  /\ cutShort \in SUBSET Bounces

Init ==
  /\ now = 1
  /\ up = [s \in Servers |-> TRUE]
  /\ crashes = 0
  /\ bounced = [b \in Bounces |-> 0]
  /\ pc = [r \in Runs |-> "due"]
  /\ start = [r \in Runs |-> 0]
  /\ since = [r \in Runs |-> 0]
  /\ marking = [r \in Runs |-> {}]
  /\ lock = NoRun
  /\ lastSuccess = 0
  /\ suppressed = {}
  /\ cutShort = {}

-----------------------------------------------------------------------------
(* One run: fiderJob.Run                                                   *)

Goto(r, from, to) ==
  /\ pc[r] = from
  /\ pc' = [pc EXCEPT ![r] = to]

\* The goroutine returns, and its locals are gone.
Return(r, from, to) ==
  /\ Goto(r, from, to)
  /\ start' = [start EXCEPT ![r] = 0]
  /\ since' = [since EXCEPT ![r] = 0]
  /\ marking' = [marking EXCEPT ![r] = {}]

\* newJobContext begins the run's transaction, waiting for a connection if it
\* must; only then is the starting time taken.  (Bound: not in the last second.)
Begin(r) ==
  /\ up[Server(r)]
  /\ now >= Due(r)
  /\ now < MaxTime
  /\ Goto(r, "due", "begun")
  /\ start' = [start EXCEPT ![r] = now]
  /\ UNCHANGED <<worldVars, since, marking, dbVars, cutShort>>

\* ... or cannot begin it, and the run ends there.
BeginFails(r) ==
  /\ up[Server(r)]
  /\ now >= Due(r)
  /\ Return(r, "due", "skipped")
  /\ UNCHANGED <<worldVars, dbVars, cutShort>>

\* getLastSuccessfulRun, before the lock is asked for.
FaultyReadLastSuccess(r) ==
  /\ Goto(r, "begun", "read")
  /\ since' = [since EXCEPT ![r] = lastSuccess - 1]
  /\ UNCHANGED <<worldVars, start, marking, dbVars, cutShort>>

ReadLastSuccess(r) ==
  /\ Goto(r, "begun", "read")
  /\ since' = [since EXCEPT ![r] = lastSuccess]
  /\ UNCHANGED <<worldVars, start, marking, dbVars, cutShort>>

\* dbx.TryLock succeeds, and the handler is called.
FaultyTryLock(r) ==
  /\ Goto(r, "read", "locked")
  /\ lock' = r
  /\ UNCHANGED <<worldVars, localVars, lastSuccess, suppressed, cutShort>>

TryLock(r) ==
  /\ lock = NoRun
  /\ Goto(r, "read", "locked")
  /\ lock' = r
  /\ UNCHANGED <<worldVars, localVars, lastSuccess, suppressed, cutShort>>

\* Somebody else has the lock, or asking for it failed: the run is over.
Skip(r) ==
  /\ Return(r, "read", "skipped")
  /\ UNCHANGED <<worldVars, dbVars, cutShort>>

\* EmailSupressionJobHandler.Run: fetch what bounced since the last success,
\* and mark those accounts in the job's transaction.
Handle(r, result) ==
  /\ Goto(r, "locked", result)
  /\ marking' = [marking EXCEPT ![r] =
       {b \in Bounces \ suppressed : bounced[b] # 0 /\ bounced[b] >= since[r]}]
  /\ UNCHANGED <<worldVars, start, since, dbVars, cutShort>>

\* The provider, or the handler's statement, fails with an error or a panic.
HandleFails(r, result) ==
  /\ Goto(r, "locked", result)
  /\ UNCHANGED <<worldVars, localVars, dbVars, cutShort>>

\* setLastSuccessfulRun, in a transaction of its own.
FaultyMarkSuccess(r) ==
  /\ Goto(r, "ran", "marked")
  /\ lastSuccess' = now
  /\ UNCHANGED <<worldVars, localVars, lock, suppressed, cutShort>>

MarkSuccess(r) ==
  /\ Goto(r, "ran", "marked")
  /\ lastSuccess' = start[r]
  /\ UNCHANGED <<worldVars, localVars, lock, suppressed, cutShort>>

\* It could not be written: an error is only logged, a failed commit panics.
MarkSuccessFails(r, result) ==
  /\ Goto(r, "ran", result)
  /\ UNCHANGED <<worldVars, localVars, dbVars, cutShort>>

\* trx.MustCommit: the lock goes with the transaction, before logFinish waits.
Commit(r) ==
  /\ Return(r, "marked", "over")
  /\ suppressed' = suppressed \cup marking[r]
  /\ lock' = NoRun
  /\ UNCHANGED <<worldVars, lastSuccess, cutShort>>

\* The commit fails and panics; the transaction is gone and the lock with it.
CommitFails(r) ==
  /\ Return(r, "marked", "over")
  /\ lock' = NoRun
  /\ cutShort' = cutShort \cup marking[r]
  /\ UNCHANGED <<worldVars, lastSuccess, suppressed>>

\* The handler returned an error: setLastFailedRun and MustRollback.
FaultyRollback(r) ==
  /\ Return(r, "errored", "over")
  /\ UNCHANGED <<worldVars, dbVars, cutShort>>

Rollback(r) ==
  /\ Return(r, "errored", "over")
  /\ lock' = NoRun
  /\ UNCHANGED <<worldVars, lastSuccess, suppressed, cutShort>>

\* ... unless setLastFailedRun panics because its own commit failed.
MarkFailureFails(r) ==
  /\ Goto(r, "errored", "panicked")
  /\ UNCHANGED <<worldVars, localVars, dbVars, cutShort>>

\* A panic runs logFinish first: it waits out the second, and unlock() commits
\* what the handler had written, if the database lets it.  The recover that
\* follows sets the last failed run; its MustRollback finds nothing to do.
FinishPanic(r, ok) ==
  /\ now > start[r]
  /\ Return(r, "panicked", "over")
  /\ suppressed' = IF ok THEN suppressed \cup marking[r] ELSE suppressed
  /\ lock' = NoRun
  /\ UNCHANGED <<worldVars, lastSuccess, cutShort>>

RunStep(r) ==
  \/ Begin(r) \/ BeginFails(r) \/ ReadLastSuccess(r)
  \/ TryLock(r) \/ Skip(r)
  \/ \E result \in {"ran", "errored", "panicked"} : Handle(r, result)
  \/ \E result \in {"errored", "panicked"} : HandleFails(r, result)
  \/ MarkSuccess(r)
  \/ \E result \in {"marked", "panicked"} : MarkSuccessFails(r, result)
  \/ Commit(r) \/ CommitFails(r)
  \/ Rollback(r) \/ MarkFailureFails(r)
  \/ \E ok \in BOOLEAN : FinishPanic(r, ok)

-----------------------------------------------------------------------------
(* The world around                                                        *)

\* Time passes.  The runs of a tick are started on every server that is up;
\* a server that is down misses its own.
Advance ==
  /\ now < MaxTime
  /\ Punctual => \A r \in Runs : Due(r) <= now => pc[r] \notin {"due", "begun", "read"}
  /\ now' = now + 1
  /\ pc' = [r \in Runs |->
              IF pc[r] = "due" /\ Due(r) = now /\ ~up[Server(r)] THEN "skipped" ELSE pc[r]]
  /\ UNCHANGED <<up, crashes, bounced, localVars, dbVars, cutShort>>

Bounce(b) ==
  /\ bounced[b] = 0
  /\ bounced' = [bounced EXCEPT ![b] = now]
  /\ UNCHANGED <<now, up, crashes, pc, localVars, dbVars, cutShort>>

\* A server dies: its goroutines are gone, its connections close, and the
\* database rolls their transactions back.
Crash(s) ==
  LET waiting == {r \in Runs : Server(r) = s /\ pc[r] = "due" /\ Due(r) <= now}
      dying == {r \in Runs : Server(r) = s /\ pc[r] \in Running}
      halfway == {r \in dying : pc[r] = "marked"} IN
  /\ up[s]
  /\ crashes < MaxCrashes
  /\ up' = [up EXCEPT ![s] = FALSE]
  /\ crashes' = crashes + 1
  /\ pc' = [r \in Runs |-> IF r \in waiting THEN "skipped"
                           ELSE IF r \in dying THEN "over" ELSE pc[r]]
  /\ start' = [r \in Runs |-> IF r \in dying THEN 0 ELSE start[r]]
  /\ since' = [r \in Runs |-> IF r \in dying THEN 0 ELSE since[r]]
  /\ marking' = [r \in Runs |-> IF r \in dying THEN {} ELSE marking[r]]
  /\ lock' = IF lock \in dying THEN NoRun ELSE lock
  /\ cutShort' = cutShort \cup UNION {marking[r] : r \in halfway}
  /\ UNCHANGED <<now, bounced, lastSuccess, suppressed>>

Restart(s) ==
  /\ ~up[s]
  /\ up' = [up EXCEPT ![s] = TRUE]
  /\ UNCHANGED <<now, crashes, bounced, pc, localVars, dbVars, cutShort>>

Next ==
  \/ \E r \in Runs : RunStep(r)
  \/ Advance
  \/ \E b \in Bounces : Bounce(b)
  \/ \E s \in Servers : Crash(s) \/ Restart(s)

Spec == Init /\ [][Next]_vars

\* Not everything stands still while a goroutine can run or time can pass;
\* nothing makes a server crash or restart, or an address bounce.
Fairness == WF_vars(Advance \/ \E r \in Runs : RunStep(r))

FairSpec == Spec /\ Fairness

-----------------------------------------------------------------------------
(* Properties                                                              *)

\* No two runs ever work in the handler, or have uncommitted work of it, at
\* the same time, whichever servers they are on and whichever of them crashed.
OneAtATime ==
  \A r \in Runs : pc[r] \in Holding => lock = r

\* The next run asks for what bounced since lastSuccess, so an older bounce is
\* never asked for again: it must be marked already, or be in the transaction
\* about to commit.  Runs that read a stale lastSuccess, or set it back, must
\* leave no gap.  The exception are runs that ended between writing lastSuccess
\* and committing.
WindowsLeaveNoGap ==
  \A b \in Bounces :
    bounced[b] # 0 /\ bounced[b] < lastSuccess =>
      \/ b \in suppressed \cup cutShort
      \/ \E r \in Runs : pc[r] = "marked" /\ b \in marking[r]

\* Every run that began ends, with its goroutine or with its server, and does
\* not keep the lock.
RunsEnd ==
  \A r \in Runs : pc[r] \in Running ~> (pc[r] \notin Running /\ lock # r)

\* "Jobs should take at least 1sec before unlocking to avoid double execution"
\* (job.go; TestJob_WhenTwoConcurrentRuns_ShouldExecuteOnce): of the runs of
\* one tick, one executes.
ExecutesOnce ==
  \A q, r \in Runs :
    q[2] = r[2] /\ pc[q] \notin NotExecuted /\ pc[r] \notin NotExecuted => q = r
===============================================================================
