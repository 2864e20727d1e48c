# Upvora: specifications, model checking and proofs

Upvora is a feedback board: a Go server (`src/app`) with a PostgreSQL database, a React
front end (`src/public`), a background worker inside the server process, scheduled jobs, and
an MCP endpoint through which assistants use the same API.

This directory holds TLA+ models of the server's parts where concurrency, failure or long
sequences of operations matter, the TLC configurations that check them on small instances,
and proofs, checked by TLAPS, of the properties that matter most for instances of any size.

| module | what it is |
|---|---|
| `Pipeline` | a request's transaction and tasks, the background worker, shutdown |
| `TaskDelivery` | what the pipeline promises about tasks (abstract) |
| `ConnPool` | the database connection pool and everybody who draws from it |
| `Jobs` | the scheduled job runner on several servers, with the job that depends on it |
| `Posts` | ideas: merging, privacy, responses, deletion, votes |
| `TenantDeletion`, `Billing`, `TenantSchema` | deleting a tenant, how it pays, and the order its tables are emptied in |
| `Users`, `Sessions`, `SignIn`, `ProviderSignIn`, `SigningIn` | user rows, session cookies, signing in by mail and through a provider, and both at once |
| `SignUp` | how a site comes to be |
| `OAuthGrants` | the authorization server for MCP clients: codes and refresh tokens |
| `TokenFamilies` | what the authorization server promises about tokens (abstract) |
| `RateLimit`, `Vora` | the sliding window, and the agent that is charged by it |
| `Discussion` | an idea, its comments, their moderation, and the tasks that tell people |
| `Catalogue` | statuses, products and tags |
| `Scorecards` | cards and the questions they answer |
| `Webhooks`, `Mail` | outgoing webhooks, and one mail to many through each provider |
| `Files` | images and files of ideas, in either kind of blob store |
| `UserList`, `Settings` | the vendor's list of administrators, and what administrators save |
| `Migrations` | several containers that migrate at once |
| `Services` | the modules from `Users` to `Migrations` composed, each explored on its own |
| `MC*` | instances of these for TLC, each with its `.cfg` files |
| `PipelineProofs`, `ConnPoolProofs`, `JobsProofs`, `PostsProofs` | theorems about the module of that name, and their proofs |
| `TenantProofs`, `PeopleProofs`, `ContentProofs`, `SiteProofs` | theorems about the other modules, see section 6 |

`PROJECT.json` maps each definition to the source lines it models and lists the runs, the
mutants (a plausible bug per property, which TLC must find), the hazards and the findings.

    tlc -config MCPosts.cfg MCPosts      # check a run
    tlapm PostsProofs.tla                # check a proof module


## 1. Inventory

### Request pipeline (`middlewares/setup.go`, `pkg/web/context.go`) - `Pipeline`
State: per request one database transaction, the list of tasks its handler collected, and
the request's context. `WebSetup` begins the transaction, runs the handler, and then rolls
back (error, panic) or calls `Context.Commit`: transaction first, tasks second. Hard: the
client may disconnect at any moment, which ends the transaction from outside; handing tasks
over may block. Correct when no task leaves the request before its transaction is decided
and none is handed over for a request that was rolled back.

### Background worker (`pkg/worker`) - `Pipeline`, `TaskDelivery`
State: a channel of 100 tasks, a counter, one goroutine per CPU. `Enqueue` counts and then
sends; `Run` runs a task in a transaction of its own (`WorkerSetup`) and counts it off;
`Shutdown` polls the counter. Correct when the counter is exact, every task is run once, and
a blocked sender gets through.

### Engine (`pkg/web/engine.go`, `cmd/server.go`) - `Pipeline`
Start: workers and up to three listeners. Stop, on a signal: the listeners, then the worker,
within one 30 second context. Correct when a successful stop leaves nothing behind and a
stop does not need its timeout.

### MCP server (`mcpserver`) - `Pipeline`, `ConnPool`
A request to `/mcp` is authenticated in its own transaction, which is committed *before*
serving; each tool call is replayed as an `/api/v1` request through the whole pipeline, in
process. Hard: replays start requests while the listeners are closed, and would need a second
connection had the first not been given back. Not modelled: the catalogue, the conversion of
arguments, call limits.

### Database access (`pkg/dbx`) - `ConnPool`, `Jobs`
State: the pool (`DATABASE_MAX_OPEN_CONNS`, four by default), one connection per open
transaction, transaction-level advisory locks. `BeginTx` waits without a timeout. Correct
when goroutines do not wait for each other's connections and none is lost.

### Scheduled jobs (`jobs`) - `Jobs`, `ConnPool`
Four jobs, started by cron on *every* server: notification purge, email suppression, deletion
of tenants, OAuth purge. `fiderJob.Run` begins a transaction, reads the last success, takes
an advisory lock, calls the handler, records the outcome in another transaction, commits.
Hard: several servers, crashes, panics, a lock that lives as long as its transaction. Correct
when one run works at a time, each tick is executed once, no window of time is skipped, and
the lock is always given back.

### Posts, votes, moderation (`services/sqlstore/postgres/post.go`, `vote.go`, `moderation.go`, `handlers/apiv1/post.go`, `handlers/post_privacy.go`) - `Posts`
State: per post its author, status, original, privacy flag, votes, and text that merges
copied from other posts. Every operation reads posts in one statement and writes in another,
at READ COMMITTED. Correct when a duplicate has an original, a merged cluster shares one
privacy flag, nobody's private text becomes visible to another member, and votes go where a
merge takes them, and nowhere else.

### Tenant deletion and billing (`jobs/delete_scheduled_tenants_job.go`, `postgres/tenant_deletion.go`, `handlers/danger_zone.go`, `handlers/webhooks/stripe.go`) - `TenantDeletion`, `Billing`, `TenantSchema`
State: per tenant the scheduled time and cancel key, the subscription (at Stripe, or still at Paddle),
the blobs, the rows, the plan. One tenant per run: cancel the subscription, wipe blobs, delete rows, mail the owner.
Hard: irreversible steps outside the transaction, cancellation racing the job, retries from
the start, Stripe's events twice and out of order. Correct when only a tenant whose time came
loses anything, a started deletion completes, one tenant's failure does not hold up the
others, nobody pays twice, and who has the Pro plan is who has a subscription on record.

### OAuth authorization server (`handlers/oauthas.go`, `postgres/oauth_as.go`) - `OAuthGrants`
State: clients, one-time codes, families of refresh tokens, the hand-off to an MCP-only
address. Hard: the same code or token at once, rolled back and again; statement snapshots.
Correct when a code starts one family, one token of a family works, and what was issued can
be found from the code.

### Signing in (`handlers/signin.go`, `handlers/oauth.go`, `middlewares/user.go`) - `Users`, `Sessions`, `SignIn`, `ProviderSignIn`
State: mails with codes and links, attempts, a cookie with the user's security stamp, flows
through a provider, and the list of roles it lets in. Hard: attempts are read, counted and compared
in steps; the list, then a user, are read and a cookie handed out later, while administrators change
both, the list itself in several statements. Correct when guesses are bounded, and a session that works
was given to the user as he is now, under the list that holds now.

### Signing up (`handlers/signup.go`, `postgres/tenant.go`) - `SignUp`
State: the site, pending or active, links in several mails, who joined. Correct when a site is
active exactly if its founder is its administrator, once.

### The agent and rate limits (`handlers/ai.go`, `pkg/ratelimit`) - `Vora`, `RateLimit`
State: windows of events per key, at most 10000 keys; turns with up to three calls of a model.
Correct when every answer was charged and no window holds more charges than the budget.

### Comments, notifications, moderation (`handlers/apiv1/post.go`, `tasks/`) - `Discussion`
State: an idea, comments, subscriptions, the log of mentions; tasks that read, mail and then
commit. Hard: visibility changes while tasks are queued, tasks overlap, mails leave before a
commit. Correct when nobody hears again of a mention he was told of, or of what he may not see.

### Catalogues and scorecards (`postgres/status.go`, `product.go`, `tag.go`, `scorecard.go`) - `Catalogue`, `Scorecards`
State: rows that ideas and cards refer to, some by a key that nothing guards. Correct when
what is referred to is still there.

### Webhooks and mail (`services/webhook`, `services/email`) - `Webhooks`, `Mail`
State: hooks and locks on their rows; what a list of people has received. Hard: external
calls inside a transaction, retries of what may have been accepted. Correct when tasks do not
wait in a circle, and nobody receives a message twice.

### Files (`postgres/attachment.go`, `handlers/files.go`, `services/blob`) - `Files`
State: blobs, attachments, uploads under way. Correct when what is at an attachment's key is
what was uploaded for it, and a private idea's file is not shown through a public one.

### The administrators' list and the settings (`services/userlist`, `handlers/admin.go`) - `UserList`, `Settings`
State: a copy, at another company, of who administers which site, and columns of the tenant
that must agree. Hard: tasks push what they read in any order; forms are checked against a
row read earlier.

### Migrations (`cmd/migrate.go`, `pkg/dbx/migrate.go`) - `Migrations`
Run by every container before its server starts. Correct when no file takes effect twice, and
a server that starts has the schema of its image.

### How the parts interact
Requests, tasks, jobs and certificate checks share the pool and the database and nothing
else; the database is the only link between servers. Requests feed the worker through one
channel. `/mcp` calls the pipeline from inside the pipeline. Jobs on different servers meet
at the advisory lock. A change of the security stamp in `Users` is what takes back sessions,
codes and tokens in `Sessions` and `OAuthGrants`; `TenantDeletion` reads the subscription that
`Billing` records; tasks of `Discussion`, `Webhooks`, `Mail` and `UserList` are queued by
requests as `Pipeline` describes and may fail without being repeated.


## 2. The models

### `Pipeline`
One record of state per request: `phase` (where its goroutine is), `trx`, `gone` (context
cancelled), `tasks`, and `caller` for replays; `queue`, `len` and `running` for the worker;
`server` for `Engine.Stop`. One action per step that others can observe:

| code | action |
|---|---|
| `WebSetup` begins the transaction, or cannot | `Accept`, `AcceptFails` |
| handler returns nil with n tasks; fails or panics | `HandlerReturns`, `HandlerFails` |
| `Context.Commit`, with `Trx.Commit` | `CommitRequest`, `TrxCommit` |
| `Enqueue`: count, send | `CountTask`, `SendTask` |
| `/mcp`: early commit, replay, end | `ReleaseEarly`, `Replay`, `StopServing` |
| client gone, `database/sql` rolls back | `Disconnect`, `AbandonTrx` |
| `BackgroundWorker.Run` with `WorkerSetup` | `Receive`, `FinishTask` |
| `Engine.Stop` | `CloseServer`, `ServerDrained`, `WorkerDrained`, `StopFails` |

A task's content, and what its job does, are abstracted to the task's identity. `Exited` is
the end of the process. The MCP library is not part of the repository; from how it is used,
its handler is taken to return only when its tool calls have (`StopServing`).

`TaskDelivery` says what a caller may rely on: a task taken on is owed until it is performed,
performed once, and a clean stop owes nothing. `KeepsDeliveryPromise` is the refinement: owed
are the tasks in the channel, at the workers, and still to be sent by a committed request.

### `ConnPool`
`owner` says who has each connection, `at` where each goroutine is between asking and giving
back. Users that hold one connection (requests, tasks, host checks, blob operations outside a
request) are one kind; `/mcp` and jobs follow their own steps. `Lost` owns the connection of
a transaction nobody will end. A job that waits for its advisory lock does not exist: the
lock is tried, and a job that misses it gives its connection back (`End`). Two runs of one
job at the same time only differ from this by one more short-lived user.

### `Jobs`
`pc[r]` follows run `r = <<server, tick>>` through `fiderJob.Run`; `now` counts seconds.
`Begin` may happen any time after the tick (a run waits for its connection), `ReadLastSuccess`
precedes `TryLock` as in the code, `MarkSuccess` and `Commit` are two commits, and a panic
goes through `logFinish`, whose `unlock` *commits*. `Crash` ends a server's runs at any point
and the database rolls their transactions back. With no recorded success the job asks for
the last two days, which is longer than any behaviour of the model. `Punctual` restricts the
clock to what a lightly loaded system does: runs get to the lock in the second of their tick.
It is FALSE except in `MCJobsOnce`, where it makes the violation say more: not even then.

The job in the model is email suppression, the only one whose work depends on the recorded
time. The provider's bounces are the data: marked accounts, and when each bounce came.

### `Posts`
`req[a]` is what a request in flight has read and decided. Each operation is the read with
the checks made on it, and the write: `AskMerge`, `ReadMerged`, `CopyMerged`, `DoMerge`; `AskRespond`,
`DoRespond` (responses, deletion, declining); `AskPrivacy`, `CheckCluster`, `DoPrivacy`;
`AskVote`, `DoVote`; `Create` is one insert. A merge thus has four steps: it reads the original, then the
post itself and is allowed or refused, then what the post says and who voted for it, and commits. What
others commit between any two of them is seen by the later one only.

Status is the slug, those of one kind taken together: administrators add their own, of the built-in kinds
(`Responses`), and `"alike"` is one of the kind duplicate, which a response may set like any other; only
the slug `"duplicate"` merges. Text is the posts it was written in: `texts[p]` is what a post
says, with what merges copied into its comments, along a chain and for ever. Three history variables are
read by no guard: `shown`, whose text the public was shown; `crossed`, what a merge moved although the
privacy it had read was gone; `cast`, who ever voted for a post itself. Deleting and declining are offered
to all staff (in the code: administrators, collaborators), which only adds behaviours. Assumed: roles do
not change, tenants allow members to publish their private ideas, ideas are approved; editing and tagging
are left out.

The checks of `DeletePost` (read the post, see whether it is referenced) are one action: separate reads
see an older state, which a request that waits before its write covers. `markPostAsDuplicate` selects the
voters and copies text in a few statements, which are one step (`CopyMerged`), as are its inserts and its
UPDATE with the commit (`DoMerge`), before which nobody sees them.


### `TenantDeletion`, `Billing`, `TenantSchema`
`job` is the run at work, `stripped` remembers from whom it took what no rollback brings back,
`doomed` whose time came. That two runs do not overlap is `OneAtATime` of `Jobs`. `RunFails`
stands for every failure and for a dying server; `Commit` is reached on the good path and by the
unlock after a panic in the completion mail. With blobs in the database, wiping is part of
the transaction; on disk and in S3 it is not. `Billing` keeps a checkout session's events until
their delivery is acknowledged, so each may come again at any time; what Stripe does with
subscriptions is external. A site may start with a subscription at Paddle, the service before Stripe, which is
marked Pro if it was active when the flag was introduced (`BillingInit`, migrations 202511251500 and
202511251600); activating one at Stripe forgets it. `OnPro` is the plan in effect, the flag or
Paddle's record (`Tenant.ToModel`). A subscription of the legacy checkout may carry no `tenant_id`
(`untagged`): that it ended is acknowledged and changes nothing. The other columns the handlers
write with the plan (`prevent_indexing`, and `status` = active) are left out. `TenantSchema` is data from the migrations: the tables, their foreign
keys, and the order of the DELETEs; its operators say which tenants can be deleted.

### `Users`, `Sessions`, `SignIn`, `ProviderSignIn`, `SignUp`, `OAuthGrants`
A request's progress is a record (`entry`, `flow`, `visit`, `req`) of what it has read and
decided; writes that lock rows until the request ends are held in it until it commits, and
`Held` and `Locked` say which rows others wait for. A mail's code and link are one row; a
guess is a right or a wrong code, whatever its digits. Time is an action on each row
(`RunsOut`, `Expire`, `LinkRunsOut`). A cookie keeps, beside the stamp it has in the code, the
row that was read for it, and the list of roles it was checked against, which the property compares with
those of now. Cookies from before there were stamps (`NoStamp`) are let in like others, but for blocked and
deleted users. Saving a provider (`saving`) is four steps: `ReadRoles`, `WriteRoles` (the UPDATEs, which lock
the provider's row and those of the users who are signed out), `CommitRoles` or `SavingFails`; two administrators may
be at it at once. A sign-in through a provider reads the list (`GetCustomOAuthConfig`) before the user
(`FindByProvider`, `RegisterByProvider`), and its row has the list it was checked against (`CheckedRow`).
`overtaken` and `misread` are histories: a row that was read while the list was no longer the one
checked, or while a saving was under way that will not sign its user out; a list that was last saved over
another one than its transaction had read. `OAuthGrants`
distinguishes the rows a revocation's statement saw from those inserted since. The role it takes
to use MCP (`MinRole`) is fixed; in the code it is a setting of the tenant, read anew by each request.

`TokenFamilies` says what the authorization server promises, with nothing of requests, locks or
stamps: an approval is turned into tokens once, tokens replace each other one by one, those
that work do so for whom and where it was approved, while he may use MCP, and whatever changes
about him ends them. `KeepsFamilies` is the refinement; a token works if a rotation would accept
it. Consuming, reading the user and storing the token are steps of a request that the promise
does not see; the commit is its `Start` or `Replace`, and what administrators do its `Change`.

### `RateLimit`, `Vora`
`RateLimit` is a library of operators on the window's state (`Swept`, `AfterHit`, `Allowed`); a key's
events are a set, as nothing but their times and their number matters;
`Vora` has the turns. Prompts and replies are reduced to what they make the server do: answer,
search and go on, or fail.

### `Discussion`
One idea; tasks keep the post as their request read it and go through two steps, notifications
and then mails with the commit. A text is how often it names each talker (`Mentions`), since each naming is a
notification and a mail of its own; `told` counts notifications and `namings` is the most that
one text named somebody. `astray` records the kinds of tasks that told somebody of what he may not see
at that moment: of an idea that is private by now and not for him, whatever flag the audience was
filtered by, or of an internal comment. `outrun` are the tasks that were under way when the idea was made private,
`overlapped` records when two tasks about the same thing ran together. Requests are one step here: what one
reads of the idea is so when its task is queued.

### `Catalogue`, `Scorecards`, `Webhooks`, `Mail`, `Files`
Each request is asked (checks against what it reads) and carried out (its write) in two
actions. `overtaken`, `late` and `overlooked` record the races that nothing in the database
prevents, and the properties hold but for exactly these. `Webhooks` holds the marks of a
transaction as locks. `Mail` has one action per provider's way through the recipients: SMTP and
SES stop at the first one that is skipped or fails, Mailgun sends one request, Resend goes
on and repeats a request with the key it had. `Files` tells a store that commits with
the request (SQL) from one that does not (S3).

### `UserList`, `Settings`, `Migrations`
`errand` is a task with what it was queued with and what it has read since. In `Settings` a form is a function
from the fields it sets to their values, and the UPDATE writes it over a row
that others have changed. In `Migrations` a container lists its files and reads the last
version once; a file and its row are one transaction.


## 3. Runs

| run | instance | states | shows |
|---|---|---|---|
| `pipeline` | 2 requests, 2 workers, queue of 1, at most 2 tasks each | 58,110 | all properties of `Pipeline`, refinement and liveness included |
| `pipeline_rollback` | 2 requests, 1 worker | - | finding 1 |
| `conn_pool` | 4 connections, user, `/mcp` user, 2 jobs, 1 failed purge | 30,576 | the pool does not stall, everybody is served |
| `conn_pool_leak` | the same with 2 failed purges | - | finding 2 |
| `jobs` | 3 servers, one tick and the time to the next, 1 crash, 1 bounce | 338,141 | all properties of `Jobs` |
| `jobs_once` | 2 servers, no crash, punctual | - | finding 3 |
| `posts` | 3 posts, 1 staff, 2 members, 2 requests, in three parts, symmetry | 636,778 | all properties of `Posts` |
| `posts_chain` | 3 posts, 1 request at a time | - | finding 4 |
| `posts_race` | 3 posts, 2 requests at a time | - | finding 5 |
| `tenants` | 2 tenants, 1 checkout, 1 blob each, 1 cancel key, grace of 1, clock to 1, blobs on disk, in SQL or in S3, one tenant with Paddle | 222,881 | all properties of `TenantDeletion` and `Billing`, liveness included |
| `tenants_stuck` | the same, one tenant has saved a scorecard | - | finding 6 |
| `services` | nineteen parts, see below | 624,285 | all properties of the modules it composes, the refinement of `TokenFamilies` included |

**Bounds.** A queue of one place is full as soon as it holds a task, so two requests with two
tasks block on it, and two workers overlap; one request can be `/mcp` and replay the other.
Four connections are the default, and with one lost the two jobs take at most one more than
is left when both want their second. Three servers let a run read an old `lastSuccess`,
another finish and a third start; seconds 1 to 4 leave time on both sides of a run's start.
`posts` has three parts, all with three posts to choose from: in `chain` one request at a time
merges posts and changes their privacy, so that text travels through chains of three; in `race`
two requests at a time, of any kind but votes, meet on two posts (a response is a status of the
kind duplicate or a deletion); in `vote` the two merge, vote, withdraw and open or close, on
public posts. Two posts and two requests contain every pair of racing operations that the
properties tell apart, and what a race leaves in one post moves on by the operations of `chain`;
that no three of them together do more is what the proofs add. `Voters` limits whose votes are
followed, because votes of different users never meet: one user is enough.

One tick of the clock brings every deadline of `tenants`, and a deletion that is scheduled,
called off and scheduled again needs one key and the host's way, which needs none. One checkout whose two events
come any number of times is enough for one to be late for the other.

`services` explores each part of the server that shares only the users with the others on its
own: `part` is chosen at first and never changes, and the others' variables stand still. In every
part two requests (or tasks, containers, administrators' forms) are under way at once, unless
said otherwise, and they are exchanged by symmetry.

| part | what moves |
|---|---|
| `signin` | one mail with its code and link, sessions, administrators who block, change roles and lists, one list at a time |
| `mails` | two mails with codes only, four wrong guesses in all |
| `provider` | signing in through a provider, sessions (an old cookie without a stamp among them) and administrators as above |
| `oauth` | one code, two tokens, one MCP-only address, a client that registers itself; users change, but not to collaborators |
| `signup` | two links, two people |
| `vora` | two sites, two people, two accounts, budgets of 1 and 2, a window of 2, clock to 2, one turn at a time |
| `telling` | one idea, one comment, two tasks, texts that name somebody twice who wants to be told, who may see it changes |
| `moderation` | the same with moderation, responses, deletions and subscriptions, one task at a time |
| `statuses`, `products`, `tags` | one idea, two statuses / one product / two tags with two names of one slug |
| `scorecards` | two questions, one card |
| `webhooks` | two hooks |
| `mail` | three recipients, one of them skipped, each provider |
| `files` | two ideas, three keys, two uploads, each kind of store |
| `userlist` | two people, two addresses and titles, two changes of a user |
| `forms`, `doors` | settings of privacy, submission and domain / of the banner and of ways to sign in, two providers |
| `migrations` | three files, three images |

In `signin` and `provider` a request either signs somebody in or saves the provider, and it saves another
list than the one it found (`OneAtATime`): saving the same list changes nothing the property speaks of
unless another saving comes between, and then it is the same as `misread`. A text names nobody or one
talker `MaxNaming` = 2 times, which tells once for a text from once for each naming.
Two of each are what a race needs; a window of two moments with a clock that reaches the third
lets events leave it. A user's stamp changes once (twice in `userlist`), which is enough to go
stale; what a second change would add is a stamp that differs as well.

**Deadlock** is checked for `Pipeline` and `ConnPool`. `Jobs` ends when its clock does.
In `Posts` the board may be finished: every post deleted and nobody with a request under way. In
`tenants` all tenants may be gone, and in `services` mails may be sent and keys used up.

**Symmetry** is used only in runs without liveness: posts, members and requests of `Posts`,
and requests of `services`.

**Fairness.** `Pipeline`: strong fairness on the steps of each request's goroutine, which
says both that handlers return and that a blocked channel send is served in turn, as Go's
channels queue senders; weak fairness on each worker, which stays in its loop, and on the
stop's observation that the server or the worker has drained. Nothing is assumed about
clients, arrivals, the signal, or the timeout of a stop: `StopEnds` holds without it. `ConnPool`: goroutines run, and a waiter
is not passed over for ever, since `database/sql` hands a returned connection to one of those
that wait. Nobody has to ask. `Jobs`: not everything stands still while time can pass or a
goroutine can run; no server has to crash, restart, and nothing has to bounce. `TenantDeletion`
(`JobFairness`): the cron starts runs for ever and time passes, every run ends (weak), and each
step of a run that can succeed does so if it is tried again and again (strong): without that a failing
network delays any deletion for ever. Nothing is assumed of owners, customers or Stripe.
`services` has no liveness property, and no fairness; `KeepsFamilies` is a safety property.


## 4. Properties

`Pipeline`
- `CountIsExact`: the counter is queue + running + senders blocked after counting.
- `CleanStopLeavesNothing`: a nil from `Stop` means no request, replay or task is left.
- `NoTaskBeforeDecision`: no task is visible to a worker while its transaction is open.
- `RunOnce`: no task in two places, none run again.
- `SendersReturn`, `StopEnds`: a blocked request gets through; a stop ends without its timeout.
- `KeepsDeliveryPromise`: the refinement of `TaskDelivery`.

`ConnPool`
- `PoolNeverStalls`: never does everybody who holds a connection wait for another one.
- `OnlyJobsHoldAndWait`: requests, tasks and `/mcp` never hold one and wait.
- `NothingLeftBehind`: whoever is over holds nothing.
- `Served`: who waits gets one.

`Jobs`
- `OneAtATime`: one run in the handler, or with uncommitted work, at a time.
- `WindowsLeaveNoGap`: a bounce older than `lastSuccess` has been marked or is about to be;
  the exceptions are runs that ended between their two commits (`cutShort`).
- `RunsEnd`: every run ends and does not keep the lock.

`Posts`
- `DuplicateHasOriginal`: a post has the slug `duplicate` exactly while it has an original.
- `MembersHoldOwnText`: a member's idea holds no text of another author that the public was never
  shown; the exception is what a merge moved that lost the race with a change of privacy (`crossed`).
- `VotesFollowMerges`: who counts for an idea voted for it, or for one whose text is in it.

`TenantDeletion`, `Billing`
- `OneSubscriptionPerCheckout`: a customer pays once for a checkout, however often its event comes.
- `ProIsOnRecord`: a tenant has the Pro plan exactly while a subscription is on record for it, at Stripe or at
  Paddle, and never at both.
- `OnlyDoomedTenantsLose`: nobody loses anything whose time had not come.
- `DoomedTenantsGo` (liveness): whoever's time came is deleted, or given more time.

`services`
- `OneLiveTokenPerFamily`, `LiveTokensAreTraceable` (`OAuthGrants`): one token of a family works;
  replaying a spent code finds what was issued from it.
- `KeepsFamilies`: the refinement of `TokenFamilies`; that a code starts one family is part of it.
- `WorkingSessionsAreCurrent` (`Sessions`): a cookie with a stamp that works was handed out to the user as he
  is, under the list of roles that holds; the exceptions are `overtaken` and `misread`.
- `GuessesBounded` (`SignIn`): wrong codes exceed the limit by no more than the requests at work.
- `CallsWithinBudget` (`Vora`): no answer unpaid, no window over the budget.
- `ActiveWithItsFounder` (`SignUp`): active exactly if its founder is its administrator, once.
- `MentionedOnce` (`Discussion`): nobody is notified more often than one text of an idea or comment names
  him, whatever is edited; the exception is `overlapped`.
- `ToldWhatTheyMaySee`: nobody is told of an idea that is private by then and not for him, nor of an internal
  comment if he is not of the team; the exceptions are `outrun`, and whom an edit of such a comment names.
- `IdeasKeepTheirStatus` (`Catalogue`), `AnswersKeepTheirQuestion` (`Scorecards`): what is referred
  to is there, but for the races the database does not prevent.
- `MarkingNeverDeadlocks` (`Webhooks`): marks are never waited for in a circle.
- `AttachmentsKeepTheirContent` (`Files`): nobody else's upload ends up at an attachment's key, and
  no private file is shown.
- `ServicesTypeOK` includes that each recipient of `Mail` gets at most one copy.


## 5. Findings

1. **Tasks of a rolled back request** (`TasksOnlyAfterCommit`, `pkg/dbx/dbx.go:277`). A client
   that disconnects makes `database/sql` roll back; `Commit` treats `ErrTxDone` as success; the
   request's notifications and webhooks are sent, and its end is logged as "committed".
2. **Jobs can stall the pool** (`PoolNeverStalls`, `jobs/job_settings.go:50`,
   `postgres/notification.go:27`). Jobs hold one connection and wait for another, the pattern
   `blob/sql/sql.go:145` warns of; each failed purge loses a connection for good.
3. **A tick executed twice** (`ExecutesOnce`, `jobs/job.go:54`). The lock ends with the
   transaction, which is committed before the one-second wait.
4. **A chain of merges loses its common privacy** (`ClusterSharesPrivacy`, `post.go:410`).
5. **A member publishes another's idea** (`MembersPublishOwn`, `post.go:386`). A merge commits
   between the check of the cluster and the UPDATE.

6. **A tenant with a scorecard is never deleted, nor is anyone behind it** (`DoomedTenantsGo`,
   `postgres/tenant_deletion.go:116`). `scorecards.created_by` refers to `users`, and `scorecards` is
   not among the tables that are emptied; by then the subscription and the blobs are gone.

What the models contain besides, without a run of its own:
- A rotation that commits while its family is being revoked leaves a successor that works
  (`oauth_as.go:207`).
- Tasks that update a user at userlist.com carry no tenant and always fail (`tasks/userlist.go:60-68`);
  an "add" that read its user before a "remove" may push after it.
- Editing an internal comment notifies those it names, team or not, although "Internal comments never
  notify" (`handlers/apiv1/post.go:462`, `:514`); what waits for review is told about as well.
- A task that is under way when its idea is made private tells people who cannot see it any more: it
  filters by the flag its request read, although "it also covers a public idea flipped private"
  (`tasks/tasks.go:44`). So does the task of a request that had read the idea before.
- A text that names somebody twice notifies and mails him twice: mentions are not made unique, and the loops do
  not look at what they have just logged (`entity/mention.go:11`, `tasks/new_comment.go:74`, `new_post.go:72`).
- A vote cast for the duplicate after a merge has read its voters is not carried over, and one withdrawn
  meanwhile still is (`post.go:225`), although "Votes from this post will be merged into original post"
  (`locale/en/client.json:328`). A vote for an original that was closed when it was read is dropped (`vote.go:18`).
- A merge that read both posts as public copies what is in the duplicate when it copies, and commits into
  whatever the original is by then: if staff made one of them private meanwhile, text crosses the
  boundary that `markPostAsDuplicate` refuses to cross (`post.go:207`), and so it does the other way round.
- Publishing one link of a chain publishes what was merged into it from further away, whose own posts stay
  private (`post.go:392`).
- An administrator may add statuses of the kind duplicate, "Duplicate — merged into another post"
  (`locale/en/client.json:67`, `actions/status.go:20`); a post with one was merged into nothing.
- A provider sign-in that read the list of roles before it was changed, and the user after everybody was signed
  out, gets in under the old list with a stamp that works (`handlers/oauth.go:236`, `:246`); so does a user who
  registers, or the administrator himself, while the others are being signed out. Two administrators who save at
  once read the same previous list, and the second may then sign nobody out though it replaces the first's
  (`postgres/oauth.go:100`): users are not "forced to re-authenticate" (`:95`).
- A subscription of the legacy checkout without `tenant_id` that ends leaves its site on the Pro plan, and on record
  (`webhooks/stripe.go:213`). A late event of an old checkout activates the plan again, with a record of a subscription
  that may have ended. Deleting a tenant cancels its subscription at Stripe, and none at Paddle
  (`jobs/delete_scheduled_tenants_job.go:84`).
- SMTP and SES stop at the first recipient that is skipped (`smtp.go:67`); Resend goes on.
- A founder who signs in through a provider while the site is pending cannot activate it any
  more: the address is taken (`handlers/signup.go:197`).
- A form from an outdated page writes back a value that was changed meanwhile (`handlers/admin.go:149`).
- A migration that is merged with an earlier version than one already applied is skipped
  (`pkg/dbx/migrate.go:67`): `ServersAreMigrated` assumes that images extend each other.
- A second request of a custom model server, without the fields it refused, is not charged.


## 6. Proofs

All are for any sets and bounds that satisfy the `ASSUME`s of the modules. These say that
model values (`NoTask`, `NoRun`, `Pool`, `Lost`, `None`, `NoRow`, `NoIdea`, `NoBlob`, `NoComment`,
`NoCookie`, `Nowhere`, ...) are none of the things they stand beside, that `""`, the empty list of
roles, is a list, that limits and windows are positive, and that those sets are finite whose
size or greatest element matters: actors and connections, requests that guess, tasks that mark,
ideas, topics, recipients. TLC evaluates the assumptions in every run that extends their module.

| module | theorem | states |
|---|---|---|
| `PipelineProofs` | `CountAlwaysExact` | `Spec => []CountIsExact` |
| | `PipelineKeepsItsTypes` | `Spec => []TypeOK` |
| | `CleanStopAlwaysClean` | `Spec => []CleanStopLeavesNothing` |
| | `NoTaskBeforeItsTransaction` | `Spec => []NoTaskBeforeDecision` |
| | `TasksRunOnce` | `Spec => []RunOnce` |
| | `PipelineDelivers` | `Spec => KeepsDeliveryPromise`: the refinement of `TaskDelivery` |
| | `OnlyTheGoneAreUndone` | `Spec => []`(tasks handed over are of a committed request, or of one whose client went away) |
| `ConnPoolProofs` | `NobodyHoldsMore` | `Spec => []TypeOK`, which bounds what anybody holds |
| | `OnlyJobsEverHoldAndWait` | `Spec => []OnlyJobsHoldAndWait` |
| | `NothingEverLeftBehind` | `Spec => []NothingLeftBehind` |
| | `LargePoolNeverStalls` | `EnoughConns => (Spec => []PoolNeverStalls)` |
| `JobsProofs` | `AlwaysOneAtATime` | `Spec => []OneAtATime` |
| | `RunsKeepTheirTypes` | `Spec => []TypeOK` |
| | `WindowsNeverLeaveGaps` | `Spec => []WindowsLeaveNoGap` |
| `PostsProofs` | `DuplicatesAlwaysHaveOriginals` | `Spec => []DuplicateHasOriginal` |
| | `PostsKeepTheirTypes` | `Spec => []TypeOK` |
| | `MembersAlwaysHoldOwnText` | `Spec => []MembersHoldOwnText` |
| | `VotesAlwaysFollowMerges` | `Spec => []VotesFollowMerges` |
| | `AlonePublishOwn` | `Alone => (Spec => MembersPublishOwn)` |
| | `UnchainedSharePrivacy` | `Alone => (Spec /\ []NoChains => []ClusterSharesPrivacy)` |
| `TenantProofs` | `TenantsKeepTheirTypes` | `DeletionSpec => []DeletionTypeOK` |
| | `CheckoutsSubscribeOnce` | `DeletionSpec => []OneSubscriptionPerCheckout` |
| | `ProIsAlwaysOnRecord` | `DeletionSpec => []ProIsOnRecord` |
| | `OnlyTheDoomedEverLose` | `DeletionSpec => []OnlyDoomedTenantsLose` |
| | `ScoringTenantsStay` | `DeletionSpec => [](\A t \in Scoring : exists[t])` |
| `PeopleProofs` | `CodesAreSpentOnce` | `GrantsSpec => []SpentOnce` |
| | `ServerKeepsFamilies` | `GrantsSpec => KeepsFamilies`: the refinement of `TokenFamilies` |
| | `TokensAlwaysEntitled` | `GrantsSpec => []`(every token that works is of one who may use MCP) |
| | `FamiliesHaveOneLiveToken` | `GrantsSpec => []OneLiveTokenPerFamily` |
| | `LiveTokensAlwaysTraceable` | `GrantsSpec => []LiveTokensAreTraceable` |
| | `WorkingSessionsAlwaysCurrent` | `SigningSpec => []WorkingSessionsAreCurrent` |
| | `GuessesAlwaysBounded` | `SigningSpec => []GuessesBounded` |
| | `AlwaysActiveWithItsFounder` | `SignUpSpec => []ActiveWithItsFounder` |
| `ContentProofs` | `MarkingNeverEverDeadlocks` | `WebhooksSpec => []MarkingNeverDeadlocks` |
| | `AnswersAlwaysKeepTheirQuestion` | `ScorecardsSpec => []AnswersKeepTheirQuestion` |
| | `IdeasAlwaysKeepTheirStatus` | `CatalogueSpec => []IdeasKeepTheirStatus` |
| | `AttachmentsAlwaysKeepTheirContent` | `FilesSpec => []AttachmentsKeepTheirContent` |
| | `MentionedOnlyOnce`, `AlwaysToldWhatTheyMaySee` | `DiscussionSpec => []MentionedOnce`, `=> []ToldWhatTheyMaySee` |
| | `OneCopyForEverybody` | `MailSpec => []MailTypeOK` |
| | `WebhooksKeepTheirTypes`, `CatalogueKeepsItsTypes`, `DiscussionKeepsItsTypes` | `WebhooksSpec => []WebhooksTypeOK`, and so on |
| `SiteProofs` | `SettingsAlwaysAgree` | `SettingsSpec => []SettingsAgree` |
| | `NoFileTwice`, `ServersStartMigrated` | `MigrationsSpec => []HistoryIsExact`, `=> []ServersAreMigrated` |
| | `CallsAlwaysWithinBudget` | `VoraSpec => []CallsWithinBudget` |
| | `SettingsKeepTheirTypes`, `VoraKeepsItsTypes` | `SettingsSpec => []SettingsTypeOK`, `VoraSpec => []VoraTypeOK` |
| | `ServicesAreTheirParts` | `ServicesSpec =>` the specification of each part |
| | `ServicesKeepTheirTypes` | `ServicesSpec => []ServicesTypeOK` |

**`PipelineProofs`.** Four invariants, each proved with the help of those before. `CountInv` is
inductive by one lemma per kind of step about how the sizes of `Busy` and `Blocked` change; it
needs that a blocked sender holds a task. `DrainInv` adds where tasks can be at all
(`TasksOnTheirWay`), that a replay in flight is served by an `/mcp` request in flight, and
that nothing moves once the server is drained: a zero counter alone does not say that no
request is about to add to it. `DecisionInv` adds that a request with tasks outside its own
context has ended its transaction. `OnceInv` says of every two places a task may be in that
they hold different ones, which `RunOnce` alone does not: a task may come back from any of them.
With all four, each step of the pipeline is mapped to a step of `TaskDelivery`
or to a stutter; the step that commits takes on all tasks of the request at once.
`OnlyTheGoneAreUndone` says how far finding 1 goes: `CauseInv` follows a request from its handler to
the worker, and the one way for a rolled back transaction to get there is that its client went away.

**`ConnPoolProofs`.** `TypeOK` and `OnlyJobsHoldAndWait` are not inductive: they follow from
`UsesAreExact`, which says for each step exactly how many connections its goroutine holds, and
`OnlyJobsInJobSteps`, which says that the steps with two are a job's. `PoolNeverStalls` is a
pigeonhole: if everybody who holds a connection waits, the holders are jobs with one each, and what
failed purges lost (`LostAreCounted`), which together are fewer than the pool has. `EnoughConns` is
`|Conns| > |Jobs| + MaxPurgeFailures`. It cannot be weaker: `conn_pool` has 4 > 2 + 1, and in
`conn_pool_leak`, with 4 = 2 + 2, TLC finds the stall (finding 2). Failed purges are not bounded in
the code, so no pool is large enough for a server that runs for ever.

**`JobsProofs`.** `OneAtATime` is inductive together with `LockHasHolder`: the holder of the
lock is a run at work. A crash frees the lock exactly when its run dies. `lastSuccess` goes
back and forth, since a run reads it before it tries the lock; so the invariant for
`WindowsLeaveNoGap` speaks of every value that a run at work may bring back
(`ReadTimesCovered`, `FetchedTimesCovered`), and of the clock (`ClockIsAhead`).

**`PostsProofs`.** `MembersHoldOwnText` needs that a merge that was allowed is allowed still
(`MergesStayAllowed`: authors never change, so what was read about them stays true, unlike
what was read about privacy), that what is public was shown when it became so (`PublicTextIsShown`, which is why
a merge between public posts brings nothing new), that what a merge has copied is still where it copied it from
(`CopiesAreInPosts`), and that text has an author (`TextsOfAuthors`). `CopiesAreInPosts` also carries the votes: those
a merge is about to add were cast for something it copies. What
findings 4 and 5 refute holds under conditions that say what they need. If requests do not
overlap (`Alone`: one at a time has read and not yet written), what a request has read is so when
it writes (`ReadsAreCurrent`), although posts are submitted meanwhile; members then publish their
own ideas only, and with no chain of merges (`NoChains`) everything merged shares one privacy
flag, because a cluster then holds a duplicate exactly if it holds its original.

**`TenantProofs`.** Who is due is doomed (`DueAreDoomed`), and whom a run has picked stays so
whatever the owner does from then on (`PickedIsDoomed`): that is why retries from the start
and a cancellation in the middle take nothing from anybody else. `BooksInv` holds because plan and
record are written by one transaction each way, which forgets Paddle on one of them, because what is left at
Paddle is on record however Stripe's end, and because Stripe answers the key of a checkout as it did first. `ScoringTenantsStay` is finding 6 for any instance: of the
DELETEs in `DeletionOrder`, the one of `users` fails while `scorecards` has rows, and these go with the tenant only.

**`PeopleProofs`.** *Grants:* what a request holds locked is as it was when it was locked, by nobody
else (`LockedRowsStay`); an heir is stored by one request, once (`HeirsAreNew`); every token
comes from a spent code and is of the family started then (`LineageIsKept`, `OneRootPerCode`).
The refinement adds, in `FamiliesInv`, that a request has its user and origin from the code it
holds (`GrantsAreCarried`), and `GrantsAreBacked`: a token, or what a request has read to
store one, is of a user who may use MCP, or will never match him again. That survives every change
because a change raises the stamp or deletes the user (`UserChanges`), so what was read
before it is harmless however late it is stored. Each step then is a step of `TokenFamilies`
or leaves all it speaks of alone: the many that only write states withdraw tokens (`StatesOnly`).
*Sessions:* `Current` says of any row read for a cookie that it is the user as he is, read under the list
that holds (`UnderTheList`: or one that a saving under way will sign out), or that its stamp
will never be the user's again. It holds of cookies and of what requests by mail and flows
through a provider still carry (`RowsAreCurrent`), so that the two can be proved together, in
`SigningIn`, where they run at once. *Guesses:* `guesses[m] + |Guessing(m)|` stays below the
bound, where `Guessing(m)` are the requests that have read the attempts and not yet compared; it
grows only while the attempts read are fewer than allowed. *Founding:* rows for an address are
single, and an administrator's is its founder's.

**`ContentProofs`.** *Webhooks:* a caller has marked only hooks that come before those it still has to
mark, and of the marks that are waited for one is the greatest. *Scorecards, Catalogue, Files,
Discussion:* what a request has read is still so, or the history knows that it is not
(`CountedOut`, `AskedInv`, `UploadsAreOwn`, `AtWorkAlone`, `PrivacyIsKnown`): this is what makes the exceptions
that the properties name the only ones. *Mail:* `CopiesAreKnown`, a copy is with somebody
something was done about, and Resend has one exactly of those whose key it has seen.

**`SiteProofs`.** *Settings:* fields that must agree are always written by one form, so that
writing it over any row leaves them agreeing; the unique index keeps domains apart. What is
read before does not matter, which is why the properties survive the stale reads. *Migrations:*
`HistoryIsExact` follows from the row being inserted with the file; `ServersAreMigrated` needs that
what a container takes for the last version was applied (`LastIsKnown`), and, when images
extend each other, that whatever was applied, so was every earlier version (`NothingSkipped`).
*Vora:* what the limiter still counts of a site is what was charged to it in the window
(`HitsAreCharges`), through sweeps and refusals, and a call that is about to be made is paid.
*Services:* each step of the composition is a step of one part, and for every other part either
leaves its variables alone or, where they are users', is a change that its specification has
(`SigningSteps`, `SignUpSteps`, `SharingSteps`, `ContentSteps`, `SiteSteps`). While people sign in,
users come into being, which `GrantsSpec`, `VoraSpec` and `UserListSpec` have no step for; these
three are therefore claimed of the other parts, the ones in which they move included. What
a part's proofs show thus holds of what `services` explores, for any constants; `ServicesKeepTheirTypes`
is obtained in this way.

**Model-checked only.** Liveness (`SendersReturn`, `StopEnds`, `Served`, `RunsEnd`, `DoomedTenantsGo`): out of
the prover's reach, as is all reasoning about fairness and ENABLED. Every other property of a passing run
is a theorem. What the `violation` runs refute has no proof, of course, but how far it goes has, for findings 1
(`OnlyTheGoneAreUndone`), 2 (`LargePoolNeverStalls`), 4 and 5 (`UnchainedSharePrivacy`, `AlonePublishOwn`) and 6
(`ScoringTenantsStay`). `HistoryIsExact`,
`ServersAreMigrated`, `SettingsAgree` and `SpentOnce` (which `KeepsFamilies` contains) are proved and in no run.


## 7. Plan

1. *Done:* `Pipeline` with `TaskDelivery`; `ConnPool`; `Jobs`; `Posts`; `TenantDeletion` with
   `Billing`; the modules of `services`; their runs, and a theorem for every safety and action
   property of the runs, the refinements included.
2. An abstract specification of what a merge promises, which `Posts` implements but for findings
   4 and 5; `UserList`, whose list follows the rows only eventually.
3. The aborted state of a PostgreSQL transaction in `Pipeline` (errors that a handler ignores).


## 8. Not modelled

- The message bus: a registry that is fixed after start; a missing handler's panic is in `Jobs`.
- The front end, rendering, markdown, i18n, CSV, backup, logging: conversions and presentation.
- Caching, CORS, compression, rate limits of `/mcp` (the window of `RateLimit` with other keys), the
  cooldown of failed certificates.
- What is one statement with nothing to interleave: names, avatars, preferences, reactions, notes,
  themes, the roadmap, listing and searching.
- The protocols of identity providers, Stripe, mail providers, S3 and model servers, but for the
  outcomes the code distinguishes.
- Bulk moderation and the rotation of all stamps, which nothing dispatches.
