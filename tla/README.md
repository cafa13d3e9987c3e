# Formal models of JadeEnvoy

TLA+ models of `jed`, the daemon of this repository, the TLC runs that check
them on small instances, and TLAPS proofs for every instance. Paths below are
relative to the repository.

## 1. The system

`jed` runs managed agents. A *session* is a conversation with an agent: a row of
table `session` and an append-only *event log* (`session_event`). A client posts
user events (`POST /v1/sessions/{id}/events`), a *turn* of the harness answers
them by calling a model and running tools in a sandbox, and everything that
happens becomes an event, which the client follows over SSE.

| component | state | operations | hard behaviour |
|---|---|---|---|
| Event store (`internal/store/event.go`, `dialect.go`) | `session.next_seq`, rows of `session_event` | `AppendEvent`, `ListEvents`, `DeleteSession` | concurrent transactions in two databases, crash and lost reply around the commit |
| Turn engine (`internal/harness`) | one mutex and one cancel function per session, the local variables of a turn | `RunThread`, `Interrupt`, retries, tool loop, approvals, terminal defers | goroutines queued on the mutex, interrupts at any moment, ignored write errors, retries |
| User event API (`internal/api/event.go`) | the loop over the posted batch | `postEvents`, `streamEvents` | half-accepted batches, a turn per thread, reconnecting clients |
| Start-up recovery (`cmd/jed/main.go`) | - | `recoverInterruptedSessions` | crash at any point of a turn, or of the recovery itself |
| Event broker (`internal/event`) | subscribers and their channels | `Publish`, `dispatch`, `Subscribe`, hooks | two publishers, slow consumers, closing a channel that another goroutine sends on |
| Session rows (`internal/store/session.go`, `internal/session`) | status, usage, agent snapshot, resources | create, update, archive, delete | row and log are written separately; creation in several statements |
| Compaction and context (`internal/harness/compaction.go`, `messages.go`) | checkpoint events | `maybeCompact`, `buildMessages` | boundaries, two threads, checkpoints that follow each other |
| Permissions and guardrails (`internal/harness`) | - | decision tables | precedence of defaults and overrides |
| Webhook delivery (`internal/webhook`) | queue `webhook_delivery`, failure counters | enqueue from the hook, claim, deliver, retry, give up | crash between sending and marking, endpoint deleted meanwhile, number of attempts |
| Memory stores (`internal/memory`) | `memory` and its version history | upsert, update, delete, redact, mount | row and history are separate statements |
| Vault (`internal/vault`) | vaults, credentials, OAuth tokens | create, update, archive, delete, resolve, refresh | one active credential per host, refreshes by two processes at once |
| Vault proxy (`cmd/je-vault`, `internal/vault/proxy.go`) | CA files, certificate cache | CONNECT, plain requests, injection | a credential that changes while a request is under way, crash between two files |
| Auth (`internal/auth`, `internal/api/middleware.go`) | accounts, login sessions, API keys | signup, login, logout, keys, `RequireAuth` | revocation and expiry next to a request, two signups of one address |
| Agents (`internal/agent`) | `agent`, `agent_version` | create, update, archive, delete | optimistic concurrency, sessions created meanwhile |
| Files, skills, environments, resources (`internal/store`, `internal/harness/resources.go`, `skills.go`) | their rows, the workdir of a session | CRUD, mounting at the start of a turn | what is mounted changes or fails half-way |
| Providers, sandbox, tools, MCP, CLI, dashboard, config, metrics | - | - | I/O, conversions, presentation |

How they interact: `postEvents` appends through the broker and starts turns;
a turn appends through the broker too and sets the status of the row; the broker
appends to the store, then offers the event to the channels of the SSE handlers
and calls the hooks (webhooks). `Interrupt` cancels the context of a turn, and
so makes its calls and writes fail. After a crash the recovery reads the rows
and appends the events that the dead turns did not. Before it asks the model a
turn copies the skills, files and memories of its session into the workdir,
connects to MCP servers with credentials of the session's vaults, and builds the
messages from the log. `je-vault`, a process of its own on the same database,
looks up the same credentials for what a tool sends out.

What makes each part correct: the log of a session is dense, append-only and
tells the truth about every call (store); turns exclude each other, end, close
with exactly one status event, run a tool once and only if allowed, and leave
row and log in agreement (turn engine); a client gets every event once, in
order, and the end of the turn, wherever its connection breaks (broker and SSE);
no session is a zombie after a crash (recovery); an event reaches every endpoint
that wants it, once per attempt (webhooks); histories tell the rows (memories);
updates of an agent serialise and a session holds one version (agents); what the
prompt tells the model is in the sandbox, and an event that a turn does not send
is in the summary that it sends (mounts, compaction); a token goes only where it belongs and is not
lost (vault, proxy); identity is earned (auth).

## 2. Modules

| module | models | built on |
|---|---|---|
| `AppendLog` | what `AppendEvent` promises: an atomic append that returns the next seq, fails, or fails with an unknown outcome | - |
| `EventLog` | `AppendEvent` statement by statement, in sqlite and postgres | refines `AppendLog` |
| `EventLogProofs` | theorems about `EventLog` | `EventLog` |
| `SessionTurn` | one session: `postEvents`, `RunThread`, `Interrupt`, crash and recovery | uses the atomic append of `AppendLog` |
| `SessionTurnProofs` | theorems about `SessionTurn` | `SessionTurn` |
| `MCSessionTurn` | the requests and model replies of its runs | `SessionTurn` |
| `EventStream` | `Publish`, `dispatch`, `Subscribe` and `streamEvents` for one session | uses the atomic append of `AppendLog` |
| `MCEventStream` | what is published in its runs | `EventStream` |
| `EventStreamProofs` | theorems about `EventStream` | `EventStream` |
| `WebhookDelivery` | endpoints, the broker hook, the delivery table, the worker | - |
| `MCWebhookDelivery` | the histories its run starts from | `WebhookDelivery` |
| `WebhookDeliveryProofs` | theorems about `WebhookDelivery` | `WebhookDelivery` |
| `MemoryStore` | memory stores, memories and their versions | - |
| `MemoryStoreProofs` | theorems about `MemoryStore` | `MemoryStore` |
| `AgentVersions` | agents, versions, environments, the creation of sessions | - |
| `AgentVersionsProofs` | theorems about `AgentVersions` | `AgentVersions` |
| `SessionMount` | files, skills, resources, and the workdir a turn prepares | composes `AgentVersions` and `MemoryStore` |
| `Compaction` | checkpoints and the messages a turn sends | - |
| `Workspace` | what a turn gives to the model, from any requests | composes `SessionMount` and `Compaction` |
| `WorkspaceProofs` | theorems about `Workspace`, `SessionMount` and `Compaction` | `Workspace` and the theorems of `AgentVersions` and `MemoryStore` |
| `MCWorkspace` | the scenarios of run `Workspace` | `Workspace` |
| `Vault` | vaults, credentials, lookups and OAuth refresh | - |
| `VaultProxy` | je-vault | extends `Vault` |
| `Auth` | accounts, login sessions, API keys, `RequireAuth` | - |
| `Access` | who may do what, from any tasks and visits | composes `VaultProxy` and `Auth` |
| `AccessProofs` | theorems about `Access`, `Vault`, `VaultProxy` and `Auth` | `Access` |
| `MCAccess` | the scenarios of run `Access` | `Access` |

Definitions called `...Forgotten`, `...OffByOne` and the like, commented
`Fault:`, are deliberate mistakes that no specification uses: each shows that a
property notices it (PROJECT.json, "mutants").

### EventLog

`Calls` are the calls of `AppendEvent`; the actions `SelectNextSeq`,
`UpdateNextSeq`, `InsertEvent` and `Commit` are its four statements, `Abort` the
failure of any of them and `Rollback` the deferred rollback. `dialect` selects
the database. Postgres locks the session row at the SELECT (`FOR UPDATE`).
Sqlite reads a snapshot without a lock and takes the one write lock of the
database at the UPDATE, which fails at once when another transaction has
committed since the snapshot (`fresh`); this is the behaviour of a deferred
transaction in WAL mode, which `Open` asks for. `OtherWrite` stands for every
other statement of the store that commits. `CommitReplyLost` commits and tells
the caller otherwise, which only a remote database can do.

### SessionTurn

`req[r]` is the handler of request `r`; `pc[t]` is the goroutine of turn
`t = <<request, thread>>`, with one label before each call that another goroutine
can see: a write of the row, an append, the start of a tool, a lock or a cancel.
`mu` is the mutex of the session (`turnMu`), `canceller` the entry of `cancels`,
and `interrupted` the cancelled contexts. A write under a cancelled context
fails; the code ignores the error of all of them except the `tool_use` event
(`PublishToolUse`) and those of `postEvents`. `RunThread` returns an error by
going to "interrupt" (`context.Canceled`) or "terminate"; the terminal defer
writes with a context of its own (`DeferredStatus`, `DeferredEvent`).

Abstractions. Broker.Publish is one atomic append, which `EventLog` implements
and proves. Spans, usage, `agent.message`, guardrail events and compaction are
left out: their writes change nothing the properties read. A tool use is
of kind auto, ask, custom or guarded, the outcome of permissions and guardrails.
`user.custom_tool_result` is a message: both only start a turn. A client may
confirm any of the uses it was asked about, again and differently. A cancelled
model call may still return a reply (the Anthropic parser closes a truncated
stream with a stop reason), a retryable error (`anthropic.go:79-82`) or a
permanent one. `postEvents` does not look at the types of what is posted
(`event.go:34-60`): that clients post `user.*` events only, and write no
`session.status_*` or `agent.tool_result` of their own, is an assumption about
clients, here and in `Compaction`. The listing of the recovery fails or succeeds
like a write, and is counted with them (`faults`).

### EventStream

A publisher persists its event, copies the subscribers under the read lock,
then offers the event to each channel without the lock (`Send`); a full channel
is closed under the write lock (`CloseSlow`); a channel that somebody else has
closed makes the send panic. A client connects (subscribe first), gets the
history after its last id up to the first terminal event (`Replay`), then
follows the channel, skipping what the replay has sent (`Receive`). Its
connection may break at any moment; it comes back with the last id it got.
What is written to a broken connection and never arrives counts as not written.

### WebhookDelivery

`hook[ev]` is the goroutine of `PublishEvent` for event `ev`: it lists the ids,
reads each endpoint (`GetEndpoint` fails if one is gone, any SELECT may fail,
`ListingFails`, and either ends the listing and `PublishEvent`)
and inserts a row for each that matched. `worker` is the goroutine of `Run`:
`Claim` reads due rows without marking them, `Take` reads the endpoint again and
looks at the address its URL has now, `Post` sends, `MarkAccepted`,
`MarkRejected` and `Refuse` update the row, each of which may fail silently
(`MarkLost`), and `CountFailures` keeps the counter. `Crash` kills all
goroutines. `tally` counts what no row shows: POSTs, lost answers, failed
inserts.

### MemoryStore, AgentVersions, SessionMount, Compaction

A request of `MemoryStore` (`request[r]`) and a call of `AgentVersions`
(`call[c]`) go through one label per SQL statement, because the handlers open no
transaction; the exception is `UpdateAgent`, whose transaction reads without a
lock and, in sqlite, from a snapshot (`fresh`) that another commit makes too old
to write on. A request of `MemoryStore` is broken off between two statements when
one of them fails (`StatementFails`, its error is the answer) or when its client goes
away (`ClientGone`, which cancels the rest); what it has written stays. `MaxGone`
bounds the requests broken off.
`mixed` and `unrecorded` are ghosts: the memories two requests worked on at once,
and those a request that was broken off left half changed.

`SessionMount` adds the tables of files and skills and, per session, the
goroutine that prepares a turn (`turn[s]`): it writes the skills, then the files
and memories of the resources, into `workdir[s]`, statement by statement and file
by file, and remembers what the system prompt says (`skillsShown`, `shown`). A mount
that fails half-way is only logged: the prompt does not tell what it has written, but
that stays in the workdir (`lost`, a ghost). Any of its statements and scripts may
fail. A path is a sequence of segments;
`InWorkdir`, `Sanitized`, `SafePaths` and `Place` are what the code does to paths: a
memory may be called "b/../a", so two of them may share a place, or "../../../tmp/x",
which the script of `MountToSandbox` writes on the host (not modelled) while the turn
goes on; a file or a skill there is refused by `WriteFile`. `MountLimit` stands
for the 1000 memories of a store that are listed.

`Compaction` keeps the log of one session with two threads. `prep` is the turn
that is inside: `ListHistory` lists the events and chooses the cut,
`PublishCheckpoint` appends the summary, which other posts may have overtaken,
`ListConfirmed` and `PublishResolved` run confirmed tools, `BuildMessages` lists
the log again. A summary is the set of events rendered into its material
(`covers`). `queued` are turns that have been started and are not inside yet.
`ContextComplete` is what the code keeps. Of two things that its comments say and it does
not keep, cuts between turns have a run that shows the violation (`CutsBetweenTurns`,
excepted in `CallsKeepResults`), and that MCP calls are rendered for the summary is
excepted in `NothingForgotten`. Assumed of the
clients: they post user events only, and an answer or a verdict once, for a use that
waits; `postEvents` itself takes any type at any time.

`Workspace` composes the four; its initial states are any requests to any tables.
Those of `MCWorkspace` are *scenarios*: what each
request asks for. Memories: every pair of 22 requests, and every three of the
ones on one memory. Agents: every three of the updates, archive, delete and
session creations, the third also any other operation. Mounts: 20 sessions with
their resources, whose two turns meet changes of skills, files, resources and
memories. Conversations: one per kind of tool.

### Vault, VaultProxy, Auth

A task of `Vault` is an API request, an MCP connection of a turn or a request
through `je-vault`. `Resolve` lists the active credentials of the session's
vaults, and refreshes an expired OAuth token: the provider's endpoint is called,
then the row is looked up and written, each a step of its own. The provider may
rotate refresh tokens (`rotates`): `issued[g]` is the number of the newest one of
a grant, and only that is taken. `lost` is a ghost: grants whose newest token was
lost to a lost reply, to an abandoned or refused call, or to an update of the
credential that wrote back what it had read before. `intended` is another: the host
and the grant that clients have put into a credential last. `seen` is what a lookup
could have found while it ran.

`VaultProxy` adds the CA files, the process, its certificate cache and what the
server receives; each request of a connection is looked up with the session of
its CONNECT. `Auth` has accounts, login sessions and keys; a visit carries a key,
a cookie, both or neither, and `RequireAuth` tries them in order. A lookup may fail:
the middleware ignores the error and goes on to the cookie, to the default user or to
401, and the ghost `failed` remembers it for the visit. `refused` is a
ghost: the cookies and keys that must not be taken any more. `Access` composes the
three; vaults and accounts share no state, so a scenario of `MCAccess` leaves one of
them idle.

## 3. Runs

| run | instance | shows |
|---|---|---|
| `EventLog` | 3 calls, 2 sessions, both dialects | `DenseLog`, `Accounted`, `AppendOnly`, no conflict under the row lock, every call ends, and `EventLog` implements `AppendLog` |
| `SessionTurn` | 3 requests, 2 threads, tools of all kinds, two loop steps, no failures | one turn at a time, row and log agree between turns, a turn closes once, an asked tool runs once and only if allowed, one result per use |
| `SessionTurn_rough` | 2 requests with interrupts, one retry, two lost writes, outages, failed listings or crashes anywhere | no interrupted turn without an interrupt, no session left running between turns or after a recovery unless a write or the listing of the recovery failed, every turn ends, every message of an accepted request reaches the model |
| `SessionTurn_stuck` | as above without troubles | violation: an interrupt after the last reply leaves the session running |
| `SessionTurn_interrupt` | as above without troubles | violation: an interrupt in the last attempt of a model call terminates the session |
| `EventStream` | a turn of four events, or of two next to a user event; one client, buffer of 1, two broken connections | no duplicates on a connection; a live one that the broker has not closed gets every event behind the id it started from, overtaken or not, unless a publisher panics; no gap over all connections and the end of the turn is seen while one goroutine publishes |
| `EventStream_reconnect` | a user event next to the end of a turn | violation: the end is overtaken, and reconnecting with the last id never brings it back |
| `EventStream_slow` | the same, a slow client | violation: a send on a channel that the other publisher has closed |
| `WebhookDelivery` | two events for one endpoint or one event for two, one delay, batches of 2, one failed statement or crash | a delivery is posted once per attempt and dropped only after every retry, a deleted endpoint gets at most the POST under way, every listed endpoint gets the event or, when the listing fails, none does, and every delivery settles |
| `Workspace` | the scenarios above: two or three requests, 2 stores, 3 paths; 3 calls on an agent; 2 turns of a session; conversations of 7 events in 2 threads | memory histories tell the rows, refused requests leave nothing, agent updates serialise, a session holds one version, the prompt tells what is mounted, an event that a transcript renders is sent or summarised, once |
| `Workspace_cut` | the conversation with server tools | violation: a cut at a message posted while a tool runs, and the result is sent without its call |
| `Access` | three tasks or three visits, 2 vaults, 2 hosts, one fault | a request carries only a token that was active for the host in its row and in its session, the grant and the host put in last and the newest refresh token are kept except for the named causes, identity is earned and a good key or cookie is passed over only when its lookup fails |

Bounds. `MaxRetries`, `MaxSteps`, `Cap` are parameters of the code, given small
values so that retries run out, the loop hits its limit and buffers fill.
`MaxTroubles` bounds failures: most properties of `SessionTurn_rough` are about the
consequences of one; it has two, so that a recovery itself can fail or be killed, and
jed can die after an outage, between two attempts of a model call. `MaxConnects` and `MaxBreaks` bound reconnections; a client
never runs out of connections in `EventStream`, or `SeesEnd` would fail. Three
calls are the fewest with a winner, a loser and a late-comer; three requests the
fewest with a question and two answers, or a turn, a queued turn and an interrupt.

One delay in `WebhookDelivery` gives two attempts, enough to tell a retry from a
first and a last one. `Workspace` and `Access` have the actors their hazards
need: two requests that share a memory and a third that changes it between their
statements; two updates of a version and a session created in between; a listing,
a mount and a change; two lookups that refresh and one update. `MaxEvents` 7
with `KeepRecent` 1 gives two checkpoints of one thread and calls on both sides
of a cut. `MaxGone`, `MaxFaults` and `MaxDead` bound what goes wrong to one
event; `MaxTime` 2 is before, at and after the expiry. `MountLimit` 2 is one less
than the memories a store comes to have.

Deadlock checking is off because every instance ends: requests are posted once.

Fairness. `FairSpec` of each module is weak fairness of every goroutine's next
step. Goroutines are scheduled, database calls and model calls return (they have
timeouts), and Go's mutex hands over to a waiter; fairness of `TurnStep` as a
whole does not choose between a success and a failure. Nothing fair is assumed of
crashes, interrupts, clients that post, or connections that break; a client of
`EventStream` does come back until it has seen the end. `WebhookDelivery`
assumes that the worker takes its next step (its ticker fires for ever, and a
POST ends within 10 s) and that a back-off ends; the hook and `Crash` are not
fair. `Workspace` and `Access` check safety only: their requests end with their
last statement. After a crash the
recovery runs, because an operator restarts `jed`.

## 4. Proofs

The proofs hold for every value of the constants that the module's named ASSUME
allows, and for any number of faults; a run shows the same on one instance. Each
component has one inductive invariant (`SessionTurn` four, one on top of the
other), which TLC checked before it was proved. Below is what it says
beyond the properties themselves, and why they need it.

Two conventions of the modules are for the prover. A step that changes several fields
of a record writes `![v] = [@ EXCEPT !.a = x, !.b = y]`: tlapm 1.4.5 gives SMT
contradictory hypotheses for two updates of one index in one EXCEPT, and anything
follows from them. The arms of a CASE exclude each other: TLC takes the first that
is true and tlapm the last. With that, no hypotheses of a leaf were found
contradictory by the SMT solver without its goal, except in the cases that cannot
happen.

| module | of the specification | theorems |
|---|---|---|
| `EventLogProofs` | `Spec` | `Inductive`, `TypesCorrect`, `LogIsDense`, `CallsAccounted`, `LogIsAppendOnly`, `RowLockPreventsConflicts`, `AppendEventIsAtomic` |
| `SessionTurnProofs` | `Spec` | `TypesCorrect`, `TurnsExclude`, `TurnsCloseOnce`, `AskedToolsNeedPermission`, `UsesAnsweredOnce`, `RowAgreesWithLog`, `NoSessionLeftRunning`, `ToolsRunOnce`, `InterruptsHaveCauses` |
| `EventStreamProofs` | `Spec` | `TypesCorrect`, `NoEventTwice`, `LiveStreamsLoseNothing`, `SinglePublisherHasNoGaps` |
| `WebhookDeliveryProofs` | `Spec` | `TypesCorrect`, `DeliveriesAccounted`, `NoDeliveryDropped`, `DeletedEndpointIsQuiet`, `EventReachesSubscribers` |
| `MemoryStoreProofs` | `MemorySpec` | `MemoryTypesCorrect`, `HistoryIsTrue`, `RefusalsLeaveNoTrace` |
| `AgentVersionsProofs` | `AgentSpec` | `AgentTypesCorrect`, `UpdatesAreSerial`, `SessionsAreOfOneVersion`, `ConfigurationRoundTrip` |
| `WorkspaceProofs` | `ContextSpec` | `ContextTypesCorrect`, `ContextIsAlwaysComplete` |
| | `WorkspaceSpec` | `WorkspaceTypesCorrect`, `PromptTellsTheWorkdir`, `PartsHoldTogether` |
| `AccessProofs` | `AccessSpec` | `VaultTypesCorrect`, `RefreshTokensKept`, `CredentialsInjectedRightly` |
| | `AuthSpec` | `AuthTypesCorrect`, `IdentityIsEarned` |
| | `DoorSpec` | `AccessTypesCorrect` |

`MemorySpec`, `AgentSpec`, `ContextSpec`, `AccessSpec` and `AuthSpec` are components of
the runs `Workspace` and `Access`, each by itself; `WorkspaceSpec` and `DoorSpec` are
their compositions. All start from any requests to any tables that the constraints
of the database allow, of which the scenarios of the runs are a few.

### EventLog

`LockInv` says that a transaction past its first write holds the lock over its
session (and, in postgres, from the SELECT on), and `RowInv` that the holder's
`seq` is the current `next_seq` of the committed row, which is why a commit
extends the log by exactly the next position. Without them `DenseLog` is not
inductive: a second writer could commit a stale seq. The refinement
`AppendEventIsAtomic` maps the commit to the append and every other statement to
a stutter. Assumed: two dialects exist, and `NoCall` is no call.

### SessionTurn

None of the properties is inductive alone. The first invariant, `IInv`, adds

- `CancelInv` and `StartInv` to `OneTurnAtATime`: the cancel function is
  registered only between its registration and the deferred removal, and the
  turns of a request do not exist before its handler ends (otherwise `StartTurns`
  could restart a turn that holds the mutex);
- `ToolInv`: a turn at a tool has one in its reply;
- `RunInv` to `RunsOnlyIfAllowed`: besides what has run, what a turn has on its
  todo list as allowed, or is about to run, is allowed by an event of the log;
- `ClosedInv` to `TurnClosedOnce`: the turn of a closing event is past its last
  publication.

Every step between the registration and the removal of the cancel function is
an instance of one lemma, `InsideStep`. The second invariant, `ResultInv`, gives
`UsesAnsweredOnce`: whatever a turn has on its todo list, has taken from it or has
just asked for is distinct and unanswered, which survives the other turns because
none is inside. The third, `ThirdInv`, gives the three properties of a calm history
(no lost write, no cancelled turn):

- `HoldInv`: who holds the mutex is inside, and nothing runs until the recovery
  is over;
- `RowInv`: from the last write of the row until the mutex is free, row and log
  agree but for the event that is about to be published;
- `ZombieInv`: the row says running or rescheduling only while a turn is at work,
  or until the recovery has marked it; this part also holds after crashes, unless
  the recovery could not list the sessions;
- `RanInv`: a use that has been executed has its result, or the turn that ran it
  is about to publish it.

The fourth, `StopInv`, gives `InterruptsHaveCauses`: only a cancelled turn goes to
"interrupt", and some injection gives every cancelled turn, and every handler that
is about to cancel one, its `user.interrupt`, which precedes the `idle{interrupt}` of
that turn. The theorem's comparison of cardinalities follows from it. Assumed
(`ConstantsAssumption`): the types of the constants, and that requests, turns and
`NoTurn` differ.

### EventStream

`SeqInv`: two events on their way have different seqs. `ChannelInv`: nobody knows a
channel before its handler has made it. `QueueInv`: a channel holds an event once,
and none that a publisher may still put in. Per client, `Progress` bounds how far
the handler and the client have come; `Once` says that what the replay has not
sent is received, in the channel or on its way there, and only one of these;
`Lossless` that every event of the log is replayed, written, in the channel or with
a publisher (`Reserves`); `InOrder` that, with one publisher, the channel continues what was
received. The case the properties are about, an event published between
`Subscribe` and `ListEvents`, is in both the replay and the channel: `since` of
`streamEvents`, which may go *down* when publishers overlap, is not enough to tell
it, so `Once` compares with `replayed`. `Progress` ties `replayed` to what was written:
all of it behind `from`, the id the connection started with, so that no overtaken event
is skipped for a replayed one; what a publisher had not sent when it panicked
(`LostToPanic`) is lost, as run `EventStream_slow` shows. Assumed (`StreamAssumption`): finitely many
publishers, `Cap` and `MaxConnects` at least 1.

### WebhookDelivery

`HookInv` follows one `PublishEvent`: the endpoints it still goes through have no
row, those it has gone through and that wanted the event have one or failed to
get it, and before the listing is complete nobody has one. `WorkerInv`: what the worker has read of a row (its attempt, that it is not
settled) still holds when it uses it, unless the row is gone with its endpoint;
this is what makes the stale batch of `Claim` harmless. `LateInv`: a POST after the
deletion was the last one in hand. `CleanInv` and `RefusedInv`: no row means no trace,
and what is refused is settled. Assumed (`WebhookAssumption`): finite sets, at
least one row in a batch.

### MemoryStore

`FreshInv`: nobody knows a memory before its row is inserted. `WorkInv`: what a
request has in its hands at each of its statements. `AloneInv`: two requests at
work on one memory have it in `mixed`. `AtWork`: one that works alone finds the row
as it left it. `ExactInv`: the newest version says what became of the memory, while
no request stands between the write of the row and the insert of its version.
Assumed (`MemoryAssumption`): ids, and `Keep`, "this field is not sent", are distinct
from all data.

### AgentVersions

`RowsInv` ties the rows of an agent to the updates that committed: there is one
for each, on top of the version its client named, with the configuration it sent.
`CallInv` says what a call has read: an update past its INSERT stands on the newest
version, a session in the making holds a snapshot of one version (`IsOf`).
`OneWriter`: one transaction at a time writes an agent, in postgres by its row, in
sqlite because a commit makes every other snapshot too old to write on
(`fresh`). `ConfigurationRoundTrip` is about the conversion alone: guardrails travel
in a reserved key of the stored metadata, and what comes back is what was sent,
without that key of the client's. Assumed (`AgentAssumption`): finitely many calls, the
environment "default" exists, and a configuration is its four fields.

### Compaction

`ContextInv` says of every checkpoint of the log, not only of the newest, that it is a
`Cut`: right in front of a message of its thread, with all events that a summary
renders up to that point in `covers`, and at least `KeepRecent` messages behind it.
`LogOK` adds that a result or an answer is behind its use and a checkpoint behind the
message where it cuts. `PrepOK` says the same of the cut that the turn inside has
chosen and not yet written; the uses that it still has to answer are uses of its
thread, and the blocks that it has sent are those of the events up to `upto`, the
position at which it has listed them: what other posts add since is behind it, and
does not undo them. `QueuedOK`: no more turns of
a thread are queued than the log has events. Each new cut covers the whole rendered
prefix, so `ContextComplete` needs no argument about how one summary
continues another: what is not in front of the cut is among the blocks.

What `InOrder` lists is reasoned about by the rank of a position, the number of those
before it. A summary is sent in front of the first message that is kept; `BlocksOf`
proves that what is kept after a cut begins with a message, so it comes first.
Assumed (`CompactionAssumption`): at least one recent message is kept.

### SessionMount

`MountInv` is about every turn at every step, not only when the model is asked.
`Told` is what the prompt tells already or will tell if all goes well: the skills
that are done, the files of the one in work, the resources that are done, the
memories of the store in work that have been written into the workdir. `AllStand`: each of these
stands in the workdir, or its place holds another thing that this turn has written
(`Traces`, with what a failed mount has left); unless the session is deleted, when
its workdir goes under the feet of its turn. `Holdings`: what a turn tells about has
been uploaded, so its content does not change although it may be deleted
(`UploadsKept`).

Memories do change. `Steady` says that nothing has happened to a memory since it was
listed: row and number of versions are the same, and no request stands between
its write and its version. The argument runs backwards: no step can make a
memory steady that is not (`SteadyBack`), since its versions only grow and who has
written the row either records that, or is caught in `unrecorded`. So a memory that
is steady when the model is asked was steady when its row was read, and what was
read is what the row still says (`Covered`). `RequestsInv` ties the sessions to the
calls that make and delete them: a session that is gone stays gone, and only its
deletion empties the workdir. Assumed (`MountAssumption`): the two bounds are numbers.

`WorkspaceInv` is `MountInv` and `ContextInv`. The requests about resources write the
rows of sessions that `AgentVersions` keeps, so its invariant is proved again for
them (`ResourcesKeep`).

### Vault and VaultProxy

`VaultInv` is about the rows of jed and je-vault together. `TableInv` and `HandInv`:
every grant has one credential it comes home to, and nobody holds a token newer
than the provider has issued. Where the provider rotates tokens, three more parts
say where the newest one is: `HolderInv` (a call that has refreshed holds it, and
nobody else does), `StoredInv` (otherwise it is in its row) and `UpdaterInv` (what an
update has read of the row is not newer than what is stored). `ProgressInv` and
`SeenInv` follow a lookup: what it carries out was in the table while it ran.
`IntendedInv`: when the grant or the host in a row is not the one put in last, a task
that has ended holds what it wrote back; a task that is still under way is not such a
witness, as its row may change.
Assumed (`VaultAssumption`): tasks and first credentials have different ids.

### Auth

`KeysInv` and `LoginsInv`: a key or a login session belongs to the person its maker was
identified as, and is not among the `refused` while it is good. `RefusedInv`: what is
refused has been somebody's. Per visit: `BegunInv` (it really has what it carries, and
what had been refused when it began still is), `WhoInv` (nobody before it is
identified, somebody behind `RequireAuth`), `EntryInv` (a signup or login past its
check has the password of the account) and `FoundInv` (what it has found out about
its key or cookie stays true). Assumed (`AuthAssumption`): ids are distinct.

### What stays with TLC

- Liveness: `CallsServed`, `TurnsEnd`, `MessagesReachModel`, `SeesEnd`, `DeliveriesSettle`.
  The provers do not reach fairness (ENABLED).
- The runs that expect a violation: the theorems are about what holds.

Every safety property of the passing runs is a theorem. Two helpers of the library stay
closed in the proofs, and what they compute is only model-checked: the fold in `Place`,
which may be any function of its arguments there, and the orders in which resources
are listed (`SetToSeqs` in `Listings`), of which the proofs use nothing.

### What the proofs found

- `RefreshTokenKept` did not hold of the model in a case that no scenario had: an
  update that read an old grant writes it back after another update has replaced
  the secret. The code does this too (`UpdateCredential` reads the row, then writes
  all of it), so the known causes were completed and a scenario added.
- A refresh that ends after an update has replaced the secret, or the host, writes
  over it (`persistOAuthSecret`, `src/internal/vault/service.go:470`).
- `VaultTypeOK` was weaker than what the code keeps, and not inductive.
- `MountMatchesPrompt` did not hold as it was first stated, and each case is in the code:
  a skill may list one path twice, and the later file wins; a file resource or a memory
  may lie in the place of another; a mount that fails half-way may have written over a
  file of a skill that the prompt still tells about (`lost`). And a store was taken to be
  mounted whole, of which `MountToSandbox` lists 1000 memories. The skills were written
  by one step; they are written file by file now, with the deletion of the session and
  the other requests in between.
- `WorkerInv` and `OneWriter` hold for any number of rows and calls: the worker and
  `UpdateAgent` need no lock of their own beyond what the statements take.

### What the models found besides the runs that expect a violation

Some properties name a case that they exempt, because the code does it
(PROJECT.json, "findings"):

- an update of a credential writes back the refresh token it has read before, and a
  refresh the grant and the host it had read, where ADR-0015 has a compare-and-swap
  (`lost`, `WroteBack` and `WroteHostBack` in `RefreshTokenKept`);
- an append in sqlite fails when any other write commits between its read and its own
  first write, though ADR-0028 calls sqlite writes serial (`NoAppendConflict` is of
  postgres, and `CallsServed` counts the failure as an end);
- the transcript of a summary leaves MCP calls out (`ContextComplete`);
- a good key in `Authorization: Bearer` is not looked at, and a good one in `x-api-key`
  or a good cookie is passed over when a statement of its lookup fails
  (`IdentityEarned`);
- a version is redacted before its store is compared with the URL, and the row of a
  memory stays changed when the insert of its version fails: both requests are answered
  with an error (`RefusedWithoutTrace`);
- a memory whose path climbs out of the virtual roots is written elsewhere, and the
  prompt tells of it as of the others (`MountMatchesPrompt`);
- five delays make six attempts of a webhook (`PostsAccounted`).

## 5. Plan

Done: every component with state of its own is modelled and checked, and eight
modules of theorems state every safety property of the passing runs. What would
come next:

1. The logs of `SessionTurn` and `EventStream` as refinements of `AppendLog`, step by
   step, so that the three modules are one argument.
2. Action properties from the invariants that exist: the log of a session is
   append-only under `SessionTurn` too, a settled delivery stays settled, a version
   is never rewritten except by a redaction.
3. Permissions and guardrails as decision tables, the usage counters of a session.

## 6. Not modelled, and why

Network and process I/O (processes of the sandbox, tools, the MCP transport,
providers' wire formats, TLS of `je-vault`), presentation (CLI, dashboard),
configuration and metrics: no protocol between steps that a model would add to.
Permissions and guardrails are modelled by their outcome; their tables are pure
lookups. Usage counters, listings and their filters change nothing that the
properties read. There is one tenant: every account is of `tnt-default`. SSE
keeps no state across connections beyond the last id, which `EventStream` has.
Timers are nondeterministic: a timeout may strike at any time.
