------------------------------- MODULE ConnPool -------------------------------
(***************************************************************************)
(* The database connection pool (pkg/dbx) and everything that draws from   *)
(* it.  A transaction occupies one connection from BeginTx until it is     *)
(* committed or rolled back; BeginTx waits, without a timeout of its own,  *)
(* while all DATABASE_MAX_OPEN_CONNS connections are taken.                *)
(*                                                                         *)
(* Ordinary users (web requests, background tasks, certificate host        *)
(* checks, blob operations outside a request) hold one connection and      *)
(* never ask for another: the SQL blob store reuses the caller's           *)
(* transaction.  An /mcp request gives its own connection back before it   *)
(* replays tool calls.  A scheduled job holds the connection of its        *)
(* advisory lock for its whole run and needs a second one to record that   *)
(* it ran; the notification purge needs a second one for its own work too. *)
(***************************************************************************)
EXTENDS Naturals, FiniteSets

CONSTANTS
  Conns,        \* DATABASE_MAX_OPEN_CONNS connections
  Users,        \* goroutines that hold one connection at a time
  McpUsers,     \* goroutines serving /mcp
  Jobs,         \* the scheduled jobs: the advisory lock lets each run once at a time
  PurgeJob,     \* the job that deletes old notifications
  Pool,         \* owner of an idle connection
  Lost,         \* owner of a connection whose transaction nobody will end
  MaxPurgeFailures  \* bound: how often the purge's DELETE fails

ASSUME PoolAssumption ==
  /\ IsFiniteSet(Conns) /\ IsFiniteSet(Users) /\ IsFiniteSet(McpUsers) /\ IsFiniteSet(Jobs)
  /\ Users \cap McpUsers = {} /\ Users \cap Jobs = {} /\ McpUsers \cap Jobs = {}
  /\ Pool \notin Users \cup McpUsers \cup Jobs
  /\ Lost \notin Users \cup McpUsers \cup Jobs
  /\ Pool # Lost
  /\ PurgeJob \in Jobs
  /\ MaxPurgeFailures \in Nat

Actors == Users \cup McpUsers \cup Jobs

VARIABLES
  owner,  \* owner[c]: who holds connection c
  at      \* at[a]: where the goroutine is

vars == <<owner, at>>

Steps == {"off", "wantFirst", "inTrx", "serving", "wantReplay", "inReplay",
          "wantBody", "inBody", "ran", "wantMark", "inMark", "marked"}

Waiting == {"wantFirst", "wantReplay", "wantBody", "wantMark"}

Held(a) == {c \in Conns : owner[c] = a}

TypeOK ==
  /\ owner \in [Conns -> Actors \cup {Pool, Lost}]
  /\ at \in [Actors -> Steps]
  /\ \A a \in Actors : Cardinality(Held(a)) <= (IF a \in Jobs THEN 2 ELSE 1)

Init ==
  /\ owner = [c \in Conns |-> Pool]
  /\ at = [a \in Actors |-> "off"]

-----------------------------------------------------------------------------
Move(a, from, to) ==
  /\ at[a] = from
  /\ at' = [at EXCEPT ![a] = to]

\* conn.BeginTx: any waiting goroutine may get an idle connection.
Take(a, from, to) ==
  /\ Move(a, from, to)
  /\ \E c \in Held(Pool) : owner' = [owner EXCEPT ![c] = a]

\* Commit or Rollback of the transaction on one of a's connections.
GiveBack(a, from, to) ==
  /\ Move(a, from, to)
  /\ \E c \in Held(a) : owner' = [owner EXCEPT ![c] = Pool]

Keep(a, from, to) == Move(a, from, to) /\ UNCHANGED owner

\* A request, a task, a host check: one transaction from end to end.
Ask(a) == Keep(a, "off", "wantFirst")

Begin(a) == Take(a, "wantFirst", "inTrx")

FaultyEnd(a) == a \notin McpUsers /\ Keep(a, "inTrx", "off")

End(a) == a \notin McpUsers /\ GiveBack(a, "inTrx", "off")

\* /mcp: authenticate inside the request's transaction, commit it, serve.
FaultyRelease(a) == a \in McpUsers /\ Keep(a, "inTrx", "serving")

Release(a) == a \in McpUsers /\ GiveBack(a, "inTrx", "serving")

\* Each tool call replays a request, which begins and ends its own transaction.
ReplayAsk(a) == Keep(a, "serving", "wantReplay")

ReplayBegin(a) == Take(a, "wantReplay", "inReplay")

ReplayEnd(a) == GiveBack(a, "inReplay", "serving")

Leave(a) == Keep(a, "serving", "off")

-----------------------------------------------------------------------------
(* fiderJob.Run, once BeginTx (Begin) has succeeded.  A job that misses the *)
(* advisory lock commits and is gone (End).                                 *)

\* The handler works in the job's own transaction ...
RunInTrx(j) == j \in Jobs /\ Keep(j, "inTrx", "ran")

\* ... or, for the notification purge, begins a second one,
FaultyBodyAsk(j) == Keep(j, "inTrx", "wantBody")

BodyAsk(j) == j = PurgeJob /\ Keep(j, "inTrx", "wantBody")

BodyBegin(j) == Take(j, "wantBody", "inBody")

\* which it commits when its DELETE succeeded
BodyEnd(j) == GiveBack(j, "inBody", "ran")

\* and which it neither commits nor rolls back when it failed.
FaultyBodyFails(j) ==
  /\ Move(j, "inBody", "ran")
  /\ \E c \in Held(j) : owner' = [owner EXCEPT ![c] = Lost]

BodyFails(j) ==
  /\ Cardinality(Held(Lost)) < MaxPurgeFailures
  /\ Move(j, "inBody", "ran")
  /\ \E c \in Held(j) : owner' = [owner EXCEPT ![c] = Lost]

\* setLastSuccessfulRun / setLastFailedRun begin a transaction of their own
\* while the job's is still open.
MarkAsk(j) == Keep(j, "ran", "wantMark")

MarkBegin(j) == Take(j, "wantMark", "inMark")

MarkEnd(j) == GiveBack(j, "inMark", "marked")

JobEnd(j) == GiveBack(j, "marked", "off")

-----------------------------------------------------------------------------
\* What a goroutine does once it runs, and getting the connection it waits for.
Work(a) ==
  \/ End(a) \/ Release(a)
  \/ ReplayEnd(a) \/ Leave(a)
  \/ RunInTrx(a) \/ BodyAsk(a) \/ BodyEnd(a) \/ BodyFails(a)
  \/ MarkAsk(a) \/ MarkEnd(a) \/ JobEnd(a)

Acquire(a) == Begin(a) \/ ReplayBegin(a) \/ BodyBegin(a) \/ MarkBegin(a)

Next == \E a \in Actors : Ask(a) \/ ReplayAsk(a) \/ Work(a) \/ Acquire(a)

Spec == Init /\ [][Next]_vars

\* Goroutines run, and the pool hands an idle connection to a waiter picked at
\* random, so a waiter is not passed over for ever.
Fairness ==
  \A a \in Actors : WF_vars(Work(a)) /\ SF_vars(Acquire(a))

FairSpec == Spec /\ Fairness

-----------------------------------------------------------------------------
(* Properties                                                              *)

\* "Opening a new one would need a second connection while the caller already
\* holds one, which deadlocks the pool" (blob/sql/sql.go): nobody may wait for
\* a connection while every connection is with somebody who waits as well, or
\* with nobody at all.
PoolNeverStalls ==
  (\E a \in Actors : at[a] \in Waiting) =>
    \/ Held(Pool) # {}
    \/ \E a \in Actors : Held(a) # {} /\ at[a] \notin Waiting

\* Only a scheduled job ever holds a connection while it waits for another:
\* the rule the blob store and the /mcp handler were changed to follow.
OnlyJobsHoldAndWait ==
  \A a \in Actors \ Jobs : at[a] \in Waiting => Held(a) = {}

\* A goroutine that ended, or is between two transactions, holds nothing: on
\* no path but the purge's failure is a connection left behind.
NothingLeftBehind ==
  \A a \in Actors : at[a] \in {"off", "serving"} => Held(a) = {}

\* Whoever waits for a connection gets one.
Served == \A a \in Actors : at[a] \in Waiting ~> at[a] \notin Waiting
===============================================================================
